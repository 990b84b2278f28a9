------------------------------ MODULE MCNucleus ------------------------------
(***************************************************************************)
(* Nucleus on small instances, and the queue operators of ProcQueue        *)
(* against a step by step reading of the code.                             *)
(***************************************************************************)
EXTENDS Nucleus

Symmetry == Permutations(Pcbs)

(* Bounds of the queues below: processes 1..3, two priorities.             *)
Items == 1..3
SmallQueues == UNION {SetToSeqs(S) : S \in SUBSET Items}
SmallPrios == [Items -> {0, 1}]

(* removeBlocked and insertProcQ, until the waiters' queue is empty.       *)
OneByOne(q, prio, w) ==
  FoldLeft(LAMBDA r, p : InsertProcQ(r, prio, p), q, w)

ASSUME WithoutIsSelectSeq ==
  \A q \in SmallQueues, K \in SUBSET Items :
    Without(q, K) = SelectSeq(q, LAMBDA p : p \notin K)

ASSUME WakeupsIsTheLoop ==
  \A q, w \in SmallQueues, prio \in SmallPrios :
    Range(q) \cap Range(w) = {} =>
      Wakeups(q, prio, w) = {OneByOne(q, prio, w)}
=============================================================================
