------------------------------ MODULE ProcQueue ------------------------------
(***************************************************************************)
(* The process queues of phase1/pcb.c as sequences of PCBs.                *)
(*                                                                         *)
(* A queue is a circular list of p_list links behind a sentinel; here it   *)
(* is the sequence of the PCBs from the sentinel's next to its prev.  The  *)
(* operators are the list operations the nucleus performs on such queues;  *)
(* prio is the function from PCBs to p_prio.                               *)
(***************************************************************************)
EXTENDS Integers, SequencesExt

(***************************************************************************)
(* insertProcQ walks the queue to the first item whose priority is lower   *)
(* than p's, and stops past the end when there is none.                    *)
(***************************************************************************)
IsSlot(q, prio, p, i) ==
  /\ \A j \in 1..(i-1) : prio[q[j]] >= prio[p]
  /\ i \in DOMAIN q => prio[q[i]] < prio[p]

Slot(q, prio, p) == CHOOSE i \in 1..(Len(q)+1) : IsSlot(q, prio, p, i)

InsertProcQ(q, prio, p) == InsertAt(q, Slot(q, prio, p), p)

(***************************************************************************)
(* outProcQ for every member of K: what is left of the queue, in order.    *)
(* Stated by the rank of the surviving positions.                          *)
(***************************************************************************)
Kept(q, K) == {i \in DOMAIN q : q[i] \notin K}

Rank(I, i) == Cardinality({k \in I : k < i})

Without(q, K) ==
  [j \in 1..Cardinality(Kept(q, K)) |->
     q[CHOOSE i \in Kept(q, K) : Rank(Kept(q, K), i) = j - 1]]

(***************************************************************************)
(* The removeBlocked/insertProcQ loop of handleIntervalClock: the queue    *)
(* that results when the waiters w enter q one after the other, head of w  *)
(* first.  Each old item keeps its place relative to the others, a woken   *)
(* process goes before exactly the old items from its slot on, and woken   *)
(* processes are ordered by priority, then by arrival.                     *)
(***************************************************************************)
Pos(r, x) == CHOOSE i \in DOMAIN r : r[i] = x

Wakeups(q, prio, w) ==
  {r \in SetToSeqs(Range(q) \cup Range(w)) :
     /\ Without(r, Range(w)) = q
     /\ \A i \in DOMAIN q, p \in Range(w) :
          Pos(r, q[i]) < Pos(r, p) <=> i < Slot(q, prio, p)
     /\ \A i, j \in DOMAIN w :
          Pos(r, w[i]) < Pos(r, w[j])
            <=> \/ prio[w[i]] > prio[w[j]]
                \/ prio[w[i]] = prio[w[j]] /\ i < j}
=============================================================================
