---------------------------- MODULE NucleusProofs ----------------------------
(***************************************************************************)
(* IInv is an inductive invariant of Nucleus, for any number of PCBs,      *)
(* semaphores, devices and priorities, and what follows from it: the tree  *)
(* of processes stays one, a nucleus whose programs keep the contract      *)
(* loses nobody and only waits for an interrupt that will come, and the    *)
(* semaphores keep what the abstract ones of Semaphores promise.           *)
(***************************************************************************)
EXTENDS Nucleus, ProcQueueProofs

(* The part of IInv that speaks of the active semaphore list alone.        *)
AslInv ==
  /\ p_semAdd \in [Pcbs -> Keys \cup {None}]
  /\ semd_h \in Seq(Keys)
  /\ s_procq \in [Keys -> Seq(Pcbs)]
  /\ \A k \in Keys : IsInjective(s_procq[k])
  /\ \A p \in Pcbs, k \in Keys : p \in Waiters(k) <=> p_semAdd[p] = k
  /\ DescriptorsInv

LEMMA IInvAsl == ASSUME IInv PROVE AslInv
  BY DEF IInv, TypeOK, OneQueueAtATime, AslInv

LEMMA IInvReady == ASSUME IInv PROVE readyQueue \in Seq(Pcbs) /\ IsInjective(readyQueue)
  BY DEF IInv, TypeOK, OneQueueAtATime

LEMMA KeysType == PseudoClock \in Keys /\ Devices \subseteq Keys
                  /\ UserSems \subseteq Keys /\ SoftKeys \subseteq Keys
                  /\ None \notin Keys
  BY KeysAssumption DEF Keys, SoftKeys

LEMMA PrioType ==
  ASSUME TypeOK PROVE \A p \in Pcbs : p_prio[p] \in Int
  BY PriosAssumption DEF TypeOK

(* Waiters are processes; a queue is empty when it has no waiters.         *)
LEMMA WaitersLemma ==
  ASSUME AslInv, NEW k \in Keys
  PROVE  /\ s_procq[k] \in Seq(Pcbs)
         /\ Waiters(k) \subseteq Pcbs
         /\ s_procq[k] = <<>> <=> Waiters(k) = {}
<1>1. s_procq[k] \in Seq(Pcbs)
  BY DEF AslInv
<1>2. s_procq[k] = <<>> <=> Range(s_procq[k]) = {}
  BY <1>1, EmptyQueueLemma
<1>3. Range(s_procq[k]) \subseteq Pcbs
  BY <1>1, RangeOfSeq
<1> QED  BY <1>1, <1>2, <1>3 DEF Waiters

(* scheduler(): one process leaves the ready queue for the CPU, or the CPU *)
(* idles with nothing ready.                                               *)
LEMMA SchedulerLemma ==
  ASSUME NEW q \in Seq(Pcbs), IsInjective(q), NEW count \in Nat,
         NEW soft \in Nat, Scheduler(q, count, soft)
  PROVE  /\ readyQueue' \in Seq(Pcbs)
         /\ IsInjective(readyQueue')
         /\ currentProcess' \in Pcbs \cup {None}
         /\ Range(readyQueue') \subseteq Range(q)
         /\ Range(q) \subseteq Range(readyQueue') \cup {currentProcess'}
         /\ currentProcess' # None =>
              currentProcess' \in Range(q) \ Range(readyQueue')
         /\ machine' \in Outcomes
         /\ machine' = "Running" => currentProcess' \in Range(q)
         /\ machine' \in Outcomes \ {"Running"} =>
              currentProcess' = None /\ readyQueue' = <<>>
         /\ machine' = "Halted" => count = 0
         /\ machine' = "Waiting" => count > 0 /\ soft > 0
         /\ machine' = "Panicked" => count > 0 /\ soft = 0
<1>1. CASE q # <<>>
  <2>1. currentProcess' = Head(q) /\ readyQueue' = Tail(q) /\ machine' = "Running"
    BY <1>1 DEF Scheduler
  <2>2. /\ Head(q) \in Range(q)
        /\ Tail(q) \in Seq(Pcbs)
        /\ Range(Tail(q)) = Range(q) \ {Head(q)}
        /\ IsInjective(Tail(q))
    BY <1>1, DequeueLemma
  <2>3. Range(q) \subseteq Pcbs
    BY RangeOfSeq
  <2> QED  BY <2>1, <2>2, <2>3 DEF Outcomes
<1>2. CASE q = <<>>
  <2>1. /\ currentProcess' = None
        /\ readyQueue' = q
        /\ machine' = CASE count = 0             -> "Halted"
                        [] count > 0 /\ soft > 0 -> "Waiting"
                        [] count > 0 /\ soft = 0 -> "Panicked"
    BY <1>2 DEF Scheduler
  <2>2. /\ machine' \in Outcomes \ {"Running"}
        /\ machine' = "Halted" => count = 0
        /\ machine' = "Waiting" => count > 0 /\ soft > 0
        /\ machine' = "Panicked" => count > 0 /\ soft = 0
    BY <2>1 DEF Outcomes
  <2>3. Range(q) = {}
    BY <1>2, EmptyQueueLemma
  <2> QED  BY <1>2, <2>1, <2>2, <2>3
<1> QED  BY <1>1, <1>2

(* insertBlocked: p joins the queue of k, or nothing changes.              *)
LEMMA InsertBlockedLemma ==
  ASSUME AslInv, NEW k \in Keys, NEW p \in Pcbs, p_semAdd[p] = None,
         InsertBlocked(k, p)
  PROVE  /\ AslInv'
         /\ \A q \in Pcbs \ {p} : p_semAdd'[q] = p_semAdd[q]
         /\ p_semAdd'[p] \in {k, None}
         /\ \A j \in Keys \ {k} : s_procq'[j] = s_procq[j]
<1> USE KeysType
<1>1. CASE k \in Range(semd_h) \/ Len(semd_h) < MAXPROC
  <2>1. /\ s_procq' = [s_procq EXCEPT ![k] = Append(@, p)]
        /\ p_semAdd' = [p_semAdd EXCEPT ![p] = k]
        /\ semd_h' = IF k \in Range(semd_h) THEN semd_h ELSE <<k>> \o semd_h
    <3>1. ~ (k \notin Range(semd_h) /\ Len(semd_h) >= MAXPROC)
      <4>1. Len(semd_h) \in Nat /\ MAXPROC \in Nat
        BY PcbsAssumption, FS_CardinalityType, LenProperties DEF AslInv, MAXPROC
      <4> QED  BY <1>1, <4>1
    <3> QED  BY <3>1 DEF InsertBlocked
  <2>2. s_procq[k] \in Seq(Pcbs) /\ p \notin Waiters(k) /\ IsInjective(s_procq[k])
    BY DEF AslInv
  <2>3. /\ Append(s_procq[k], p) \in Seq(Pcbs)
        /\ Append(s_procq[k], p) # <<>>
        /\ Range(Append(s_procq[k], p)) = Waiters(k) \cup {p}
        /\ IsInjective(Append(s_procq[k], p))
    BY <2>2, EnqueueLemma DEF Waiters
  <2>4. s_procq'[k] = Append(s_procq[k], p) /\ \A j \in Keys \ {k} : s_procq'[j] = s_procq[j]
    BY <2>1 DEF AslInv
  <2>5. p_semAdd'[p] = k /\ \A q \in Pcbs \ {p} : p_semAdd'[q] = p_semAdd[q]
    BY <2>1 DEF AslInv
  <2>6. p_semAdd' \in [Pcbs -> Keys \cup {None}] /\ s_procq' \in [Keys -> Seq(Pcbs)]
    BY <2>1, <2>3 DEF AslInv
  <2>7. \A j \in Keys : IsInjective(s_procq'[j])
    BY <2>3, <2>4 DEF AslInv
  <2>8. \A q \in Pcbs, j \in Keys : q \in Range(s_procq'[j]) <=> p_semAdd'[q] = j
    <3> TAKE q \in Pcbs, j \in Keys
    <3>1. q \in Range(s_procq[j]) <=> p_semAdd[q] = j
      BY DEF AslInv, Waiters
    <3>2. CASE j = k
      BY <2>3, <2>4, <2>5, <3>1, <3>2 DEF Waiters
    <3>3. CASE j # k
      BY <2>4, <2>5, <3>1, <3>3
    <3> QED  BY <3>2, <3>3
  <2>9. /\ semd_h' \in Seq(Keys)
        /\ IsInjective(semd_h')
        /\ Range(semd_h') = Range(semd_h) \cup {k}
    <3>1. semd_h \in Seq(Keys) /\ IsInjective(semd_h)
      BY DEF AslInv, DescriptorsInv
    <3>2. CASE k \in Range(semd_h)
      BY <2>1, <3>1, <3>2
    <3>3. CASE k \notin Range(semd_h)
      <4>1. semd_h' = <<k>> \o semd_h
        BY <2>1, <3>3
      <4> QED  BY <3>1, <3>3, <4>1, ConsLemma
    <3> QED  BY <3>2, <3>3
  <2>10. DescriptorsInv'
    <3>1. \A j \in Keys : j \in Range(semd_h) <=> s_procq[j] # <<>>
      BY DEF AslInv, DescriptorsInv
    <3>2. \A j \in Keys : j \in Range(semd_h') <=> s_procq'[j] # <<>>
      BY <2>3, <2>4, <2>9, <3>1
    <3> QED  BY <2>9, <3>2 DEF DescriptorsInv
  <2> QED
    BY <2>4, <2>5, <2>6, <2>7, <2>8, <2>9, <2>10 DEF AslInv, Waiters
<1>2. CASE ~ (k \in Range(semd_h) \/ Len(semd_h) < MAXPROC)
  <2>1. s_procq' = s_procq /\ p_semAdd' = p_semAdd /\ semd_h' = semd_h
    <3>1. k \notin Range(semd_h) /\ Len(semd_h) >= MAXPROC
      <4>1. Len(semd_h) \in Nat /\ MAXPROC \in Nat
        BY PcbsAssumption, FS_CardinalityType, LenProperties DEF AslInv, MAXPROC
      <4> QED  BY <1>2, <4>1
    <3> QED  BY <3>1 DEF InsertBlocked
  <2> QED  BY <2>1 DEF AslInv, Waiters, DescriptorsInv
<1> QED  BY <1>1, <1>2

(* Taking a set K of waiters off the semaphores: AslInv survives whenever  *)
(* the queues, the p_semAdd fields and the descriptors change together.    *)
LEMMA PurgeLemma ==
  ASSUME AslInv, NEW K \in SUBSET Pcbs,
         s_procq' = [k \in Keys |-> Without(s_procq[k], K)],
         p_semAdd' = [p \in Pcbs |-> IF p \in K THEN None ELSE p_semAdd[p]],
         semd_h' = Without(semd_h, {k \in Keys : Waiters(k) \subseteq K})
  PROVE  /\ AslInv'
         /\ \A k \in Keys : s_procq[k] = <<>> => s_procq'[k] = <<>>
<1> USE KeysType
<1>1. \A k \in Keys :
        /\ s_procq'[k] \in Seq(Pcbs)
        /\ Range(s_procq'[k]) = Waiters(k) \ K
        /\ IsInjective(s_procq'[k])
  <2> TAKE k \in Keys
  <2>1. s_procq[k] \in Seq(Pcbs) /\ IsInjective(s_procq[k])
    BY DEF AslInv
  <2>2. s_procq'[k] = Without(s_procq[k], K)
    OBVIOUS
  <2> QED  BY <2>1, <2>2, WithoutLemma DEF Waiters
<1>2. s_procq' \in [Keys -> Seq(Pcbs)] /\ p_semAdd' \in [Pcbs -> Keys \cup {None}]
  BY <1>1 DEF AslInv
<1>3. \A p \in Pcbs, k \in Keys : p \in Range(s_procq'[k]) <=> p_semAdd'[p] = k
  <2> TAKE p \in Pcbs, k \in Keys
  <2>1. p \in Waiters(k) <=> p_semAdd[p] = k
    BY DEF AslInv
  <2>2. p_semAdd'[p] = IF p \in K THEN None ELSE p_semAdd[p]
    OBVIOUS
  <2> QED  BY <1>1, <2>1, <2>2
<1>4. \A k \in Keys : s_procq'[k] = <<>> <=> Waiters(k) \subseteq K
  <2> TAKE k \in Keys
  <2>1. s_procq'[k] = <<>> <=> Range(s_procq'[k]) = {}
    BY <1>1, EmptyQueueLemma
  <2> QED  BY <1>1, <2>1
<1>5. /\ semd_h' \in Seq(Keys)
      /\ IsInjective(semd_h')
      /\ Range(semd_h') = Range(semd_h) \ {k \in Keys : Waiters(k) \subseteq K}
  BY WithoutLemma DEF AslInv, DescriptorsInv
<1>6. \A k \in Keys : k \in Range(semd_h') <=> s_procq'[k] # <<>>
  <2> TAKE k \in Keys
  <2>1. k \in Range(semd_h) <=> Waiters(k) # {}
    BY WaitersLemma DEF AslInv, DescriptorsInv
  <2> QED  BY <1>4, <1>5, <2>1
<1>7. \A k \in Keys : s_procq[k] = <<>> => s_procq'[k] = <<>>
  BY <1>4, WaitersLemma
<1> QED  BY <1>1, <1>2, <1>3, <1>5, <1>6, <1>7 DEF AslInv, Waiters, DescriptorsInv

(* removeBlocked: processes of one queue leave it.                         *)
LEMMA RemoveBlockedLemma ==
  ASSUME AslInv, NEW k \in Keys, NEW K \in SUBSET Pcbs, K \subseteq Waiters(k),
         RemoveBlocked(k, K)
  PROVE  /\ AslInv'
         /\ p_semAdd' = [p \in Pcbs |-> IF p \in K THEN None ELSE p_semAdd[p]]
         /\ \A j \in Keys : s_procq[j] = <<>> => s_procq'[j] = <<>>
<1> USE KeysType
<1>1. /\ s_procq' = [s_procq EXCEPT ![k] = Without(s_procq[k], K)]
      /\ p_semAdd' = [p \in Pcbs |-> IF p \in K THEN None ELSE p_semAdd[p]]
      /\ semd_h' = IF Waiters(k) \subseteq K THEN Without(semd_h, {k}) ELSE semd_h
  BY DEF RemoveBlocked, AslInv
<1>2. s_procq \in [Keys -> Seq(Pcbs)] /\ s_procq[k] \in Seq(Pcbs) /\ IsInjective(s_procq[k])
  BY DEF AslInv
<1>3. /\ s_procq'[k] \in Seq(Pcbs)
      /\ Range(s_procq'[k]) = Waiters(k) \ K
      /\ IsInjective(s_procq'[k])
  <2>1. s_procq'[k] = Without(s_procq[k], K)
    BY <1>1, <1>2
  <2> QED  BY <1>2, <2>1, WithoutLemma DEF Waiters
<1>4. \A j \in Keys \ {k} : s_procq'[j] = s_procq[j]
  BY <1>1, <1>2
<1>5. s_procq' \in [Keys -> Seq(Pcbs)] /\ p_semAdd' \in [Pcbs -> Keys \cup {None}]
  <2>1. Without(s_procq[k], K) \in Seq(Pcbs)
    BY <1>2, WithoutLemma
  <2> QED  BY <1>1, <1>2, <2>1 DEF AslInv
<1>6. \A j \in Keys : IsInjective(s_procq'[j])
  BY <1>3, <1>4 DEF AslInv
<1>7. \A p \in Pcbs, j \in Keys : p \in Range(s_procq'[j]) <=> p_semAdd'[p] = j
  <2> TAKE p \in Pcbs, j \in Keys
  <2>1. \A i \in Keys : p \in Range(s_procq[i]) <=> p_semAdd[p] = i
    BY DEF AslInv, Waiters
  <2>2. p_semAdd'[p] = IF p \in K THEN None ELSE p_semAdd[p]
    BY <1>1
  <2>3. p \in K => p_semAdd[p] = k
    BY <2>1 DEF Waiters
  <2>4. CASE j = k
    BY <1>3, <2>1, <2>2, <2>4 DEF Waiters
  <2>5. CASE j # k
    BY <1>4, <2>1, <2>2, <2>3, <2>5
  <2> QED  BY <2>4, <2>5
<1>8. s_procq'[k] = <<>> <=> Waiters(k) \subseteq K
  <2>1. s_procq'[k] = <<>> <=> Range(s_procq'[k]) = {}
    BY <1>3, EmptyQueueLemma
  <2> QED  BY <1>3, <2>1
<1>9. /\ semd_h' \in Seq(Keys)
      /\ IsInjective(semd_h')
      /\ Range(semd_h') = IF Waiters(k) \subseteq K
                          THEN Range(semd_h) \ {k} ELSE Range(semd_h)
  <2>1. /\ Without(semd_h, {k}) \in Seq(Keys)
        /\ IsInjective(Without(semd_h, {k}))
        /\ Range(Without(semd_h, {k})) = Range(semd_h) \ {k}
    BY WithoutLemma DEF AslInv, DescriptorsInv
  <2> QED  BY <1>1, <2>1 DEF AslInv, DescriptorsInv
<1>10. \A j \in Keys : j \in Range(semd_h') <=> s_procq'[j] # <<>>
  <2> TAKE j \in Keys
  <2>1. j \in Range(semd_h) <=> s_procq[j] # <<>>
    BY DEF AslInv, DescriptorsInv
  <2>2. s_procq[j] = <<>> <=> Waiters(j) = {}
    BY WaitersLemma
  <2>3. CASE j = k
    BY <1>8, <1>9, <2>1, <2>2, <2>3
  <2>4. CASE j # k
    BY <1>4, <1>9, <2>1, <2>4
  <2> QED  BY <2>3, <2>4
<1>11. \A j \in Keys : s_procq[j] = <<>> => s_procq'[j] = <<>>
  <2> TAKE j \in Keys
  <2>1. s_procq[j] = <<>> <=> Waiters(j) = {}
    BY WaitersLemma
  <2> QED  BY <1>4, <1>8, <2>1
<1> QED
  BY <1>1, <1>5, <1>6, <1>7, <1>9, <1>10, <1>11 DEF AslInv, Waiters, DescriptorsInv

(* What killProcess visits: the process and, all of them live, the ones    *)
(* below it.                                                               *)
LEMMA SubtreeLemma ==
  ASSUME TypeOK, ParentsInv, NEW t \in Live
  PROVE  /\ t \in Subtree(t)
         /\ Subtree(t) \subseteq Live
         /\ \A q \in Pcbs : p_parent[q] \in Subtree(t) => q \in Subtree(t)
<1>1. t \in Subtree(t)
  BY DEF Subtree, Live
<1>2. Subtree(t) \subseteq Live
  <2>1. Live \in SUBSET Pcbs /\ \A q \in Pcbs : p_parent[q] \in Live => q \in Live
    BY PcbsAssumption DEF ParentsInv, Live
  <2> QED  BY <2>1 DEF Subtree
<1>3. ASSUME NEW q \in Pcbs, p_parent[q] \in Subtree(t)
      PROVE  q \in Subtree(t)
  <2> SUFFICES ASSUME NEW S \in SUBSET Pcbs, t \in S,
                      \A p \in Pcbs : p_parent[p] \in S => p \in S
               PROVE  q \in S
    BY DEF Subtree
  <2>1. p_parent[q] \in S
    BY <1>3 DEF Subtree
  <2> QED  BY <2>1
<1> QED  BY <1>1, <1>2, <1>3

(* Sets of processes are finite, and their cardinalities follow the steps  *)
(* of the counters.                                                        *)
LEMMA CountLemma ==
  ASSUME NEW A \in SUBSET Pcbs, NEW B \in SUBSET Pcbs
  PROVE  /\ IsFiniteSet(A)
         /\ Cardinality(A) \in Nat
         /\ A \subseteq B => Cardinality(A) <= Cardinality(B)
         /\ Cardinality(A \cup B) <= Cardinality(A) + Cardinality(B)
         /\ B \subseteq A => Cardinality(A \ B) = Cardinality(A) - Cardinality(B)
<1>1. IsFiniteSet(A) /\ IsFiniteSet(B)
  BY PcbsAssumption, FS_Subset
<1>2. Cardinality(A) \in Nat /\ Cardinality(B) \in Nat
  BY <1>1, FS_CardinalityType
<1>3. A \subseteq B => Cardinality(A) <= Cardinality(B)
  BY <1>1, FS_Subset
<1>4. Cardinality(A \cup B) <= Cardinality(A) + Cardinality(B)
  <2>1. Cardinality(A \cup B) = Cardinality(A) + Cardinality(B) - Cardinality(A \cap B)
    BY <1>1, FS_Union
  <2>2. Cardinality(A \cap B) \in Nat
    BY <1>1, FS_Intersection, FS_CardinalityType
  <2> QED  BY <1>2, <2>1, <2>2
<1>5. B \subseteq A => Cardinality(A \ B) = Cardinality(A) - Cardinality(B)
  <2> SUFFICES ASSUME B \subseteq A
               PROVE  Cardinality(A \ B) = Cardinality(A) - Cardinality(B)
    OBVIOUS
  <2>1. A \cap B = B
    OBVIOUS
  <2>2. Cardinality(A \ B) = Cardinality(A) - Cardinality(A \cap B)
    BY <1>1, FS_Difference
  <2> QED  BY <2>1, <2>2
<1> QED  BY <1>1, <1>2, <1>3, <1>4, <1>5

LEMMA SoftBlockedType ==
  /\ SoftBlocked \in SUBSET Pcbs
  /\ (SoftBlocked)' \in SUBSET Pcbs
  BY DEF SoftBlocked

(* killProcess: the counters, the tree and the semaphore list after it.    *)
LEMMA KillLemma ==
  ASSUME IInv, NEW K \in SUBSET Live,
         \A q \in Pcbs : p_parent[q] \in K => q \in K,
         KillProcess(K)
  PROVE  /\ AslInv'
         /\ \A k \in Keys : s_procq[k] = <<>> => s_procq'[k] = <<>>
         /\ \A p \in Pcbs : p_semAdd'[p] = IF p \in K THEN None ELSE p_semAdd[p]
         /\ pcbFree' = pcbFree \cup K
         /\ pcbFree' \subseteq Pcbs
         /\ p_parent' \in [Pcbs -> Pcbs \cup {None}]
         /\ p_prio' = p_prio /\ p_supportStruct' = p_supportStruct
         /\ processCount' \in Nat /\ softBlockCount' \in Nat
         /\ ParentsInv'
         /\ ProcessCountInv'
         /\ SoftBlockCovers'
<1> USE KeysType
<1>1. K \in SUBSET Pcbs /\ Live \in SUBSET Pcbs
  BY DEF Live
<1>2. AslInv' /\ \A k \in Keys : s_procq[k] = <<>> => s_procq'[k] = <<>>
  BY <1>1, IInvAsl, PurgeLemma DEF KillProcess
<1>3. \A p \in Pcbs : p_semAdd'[p] = IF p \in K THEN None ELSE p_semAdd[p]
  BY DEF KillProcess
<1>4. /\ pcbFree' = pcbFree \cup K
      /\ pcbFree' \subseteq Pcbs
      /\ p_parent' \in [Pcbs -> Pcbs \cup {None}]
      /\ p_prio' = p_prio /\ p_supportStruct' = p_supportStruct
  BY <1>1 DEF KillProcess, IInv, TypeOK
<1>5. ParentsInv'
  <2> SUFFICES ASSUME NEW p \in Pcbs, p_parent'[p] # None
               PROVE  {p, p_parent'[p]} \subseteq (Live)'
    BY DEF ParentsInv
  <2>1. p \notin K /\ p_parent'[p] = p_parent[p]
    BY DEF KillProcess
  <2>2. {p, p_parent[p]} \subseteq Live /\ p_parent[p] \notin K
    BY <2>1 DEF IInv, ParentsInv
  <2> QED  BY <1>4, <2>1, <2>2 DEF Live
<1>6. processCount' \in Nat /\ ProcessCountInv'
  <2>1. (Live)' = Live \ K
    BY <1>4 DEF Live
  <2>2. Cardinality(Live \ K) = Cardinality(Live) - Cardinality(K)
    BY <1>1, CountLemma
  <2>3. Cardinality(Live \ K) \in Nat
    BY <1>1, CountLemma
  <2>4. processCount' = Cardinality(Live) - Cardinality(K)
    BY DEF KillProcess, IInv, ProcessCountInv
  <2> QED  BY <2>1, <2>2, <2>3, <2>4 DEF ProcessCountInv
<1>7. softBlockCount' \in Nat /\ SoftBlockCovers'
  <2> DEFINE C == {p \in K : p_semAdd[p] = PseudoClock}
  <2>1. C \in SUBSET Pcbs /\ C \subseteq SoftBlocked
    BY <1>1 DEF SoftBlocked, SoftKeys
  <2>2. (SoftBlocked)' \subseteq SoftBlocked \ C
    BY <1>3 DEF SoftBlocked, SoftKeys, Keys
  <2>3. Cardinality(SoftBlocked \ C) = Cardinality(SoftBlocked) - Cardinality(C)
    BY <2>1, SoftBlockedType, CountLemma
  <2>4. Cardinality((SoftBlocked)') <= Cardinality(SoftBlocked \ C)
    BY <2>1, <2>2, SoftBlockedType, CountLemma
  <2>5. Cardinality((SoftBlocked)') \in Nat /\ Cardinality(SoftBlocked) \in Nat
        /\ Cardinality(C) \in Nat
    BY <2>1, SoftBlockedType, CountLemma
  <2>6. softBlockCount' = softBlockCount - Cardinality(C)
    BY DEF KillProcess
  <2>7. softBlockCount \in Nat /\ softBlockCount >= Cardinality(SoftBlocked)
    BY DEF IInv, TypeOK, SoftBlockCovers
  <2> HIDE DEF C
  <2>8. softBlockCount' \in Nat /\ softBlockCount' >= Cardinality((SoftBlocked)')
    BY <2>3, <2>4, <2>5, <2>6, <2>7
  <2> QED  BY <2>8 DEF SoftBlockCovers
<1> QED  BY <1>2, <1>3, <1>4, <1>5, <1>6, <1>7

(* A step that leaves the queue q of ready processes to the scheduler, or  *)
(* goes on with the running process: nobody is in two places after it.     *)
LEMMA DispatchLemma ==
  ASSUME AslInv', NEW q \in Seq(Pcbs), IsInjective(q),
         \A p \in Range(q) : p \notin pcbFree' /\ p_semAdd'[p] = None,
         \A p \in Pcbs : p_semAdd'[p] # None => p \notin pcbFree',
         \/ \E count, soft \in Nat : /\ count = processCount'
                                     /\ soft = softBlockCount'
                                     /\ Scheduler(q, count, soft)
         \/ /\ readyQueue' = q /\ Continue
            /\ machine = "Running" /\ currentProcess \in Pcbs
            /\ currentProcess \notin Range(q) \cup pcbFree'
            /\ p_semAdd'[currentProcess] = None
  PROVE  /\ OneQueueAtATime'
         /\ CpuInv'
         /\ readyQueue' \in Seq(Pcbs)
         /\ currentProcess' \in Pcbs \cup {None}
         /\ machine' \in Outcomes
<1>1. Range(q) \subseteq Pcbs
  BY RangeOfSeq
<1>2. /\ readyQueue' \in Seq(Pcbs)
      /\ IsInjective(readyQueue')
      /\ currentProcess' \in Pcbs \cup {None}
      /\ Range(readyQueue') \subseteq Range(q)
      /\ currentProcess' # None =>
           /\ currentProcess' \notin Range(readyQueue') \cup pcbFree'
           /\ p_semAdd'[currentProcess'] = None
      /\ machine' \in Outcomes
      /\ machine' = "Running" => currentProcess' # None
      /\ machine' \in Outcomes \ {"Running"} =>
           currentProcess' = None /\ readyQueue' = <<>>
      /\ machine' = "Halted" => processCount' = 0
      /\ machine' = "Waiting" => processCount' > 0 /\ softBlockCount' > 0
      /\ machine' = "Panicked" => processCount' > 0 /\ softBlockCount' = 0
  <2>1. CASE \E count, soft \in Nat : /\ count = processCount'
                                      /\ soft = softBlockCount'
                                      /\ Scheduler(q, count, soft)
    <3>1. None \notin Range(q)
      BY <1>1, PcbsAssumption
    <3> QED  BY <2>1, <3>1, SchedulerLemma
  <2>2. CASE readyQueue' = q /\ Continue /\ machine = "Running"
             /\ currentProcess \in Pcbs
             /\ currentProcess \notin Range(q) \cup pcbFree'
             /\ p_semAdd'[currentProcess] = None
    BY <2>2, PcbsAssumption DEF Continue, Outcomes
  <2> QED  BY <2>1, <2>2
<1>3. CpuInv'
  BY <1>2 DEF CpuInv, Live
<1>4. OneQueueAtATime'
  <2>1. /\ \A k \in Keys : IsInjective(s_procq'[k])
        /\ \A p \in Pcbs, k \in Keys : p \in (Waiters(k))' <=> p_semAdd'[p] = k
    BY DEF AslInv
  <2>2. \A p \in Pcbs : p_semAdd'[p] # None => p \in (Live)' \ Range(readyQueue')
    BY <1>1, <1>2 DEF Live
  <2>3. Range(readyQueue') \subseteq (Live)'
    BY <1>1, <1>2 DEF Live
  <2> QED  BY <1>2, <2>1, <2>2, <2>3 DEF OneQueueAtATime, Ready
<1> QED  BY <1>2, <1>3, <1>4
-----------------------------------------------------------------------------
(* One lemma per handler: it preserves IInv.                               *)

LEMMA CreateProcessInv ==
  ASSUME IInv, NEW n \in Pcbs, NEW prio \in Prios, NEW support \in BOOLEAN,
         CreateProcess(n, prio, support)
  PROVE  IInv'
<1> DEFINE q == InsertProcQ(readyQueue, p_prio', n)
<1>1. /\ machine = "Running" /\ n \in pcbFree /\ currentProcess \in Live
      /\ currentProcess # None /\ n # currentProcess
  BY PcbsAssumption DEF CreateProcess, IInv, CpuInv, Live
<1>2. /\ pcbFree' = pcbFree \ {n}
      /\ p_prio' = [p_prio EXCEPT ![n] = prio]
      /\ p_supportStruct' = [p_supportStruct EXCEPT ![n] = support]
      /\ p_semAdd' = [p_semAdd EXCEPT ![n] = None]
      /\ p_parent' = [p_parent EXCEPT ![n] = currentProcess]
      /\ readyQueue' = q
      /\ processCount' = processCount + 1
      /\ Continue
      /\ UNCHANGED <<semd_h, s_procq, softBlockCount, semValue, busy>>
  BY DEF CreateProcess
<1>3. n \notin Ready /\ p_semAdd[n] = None /\ p_semAdd' = p_semAdd
  BY <1>1, <1>2 DEF IInv, TypeOK, OneQueueAtATime, Live
<1>4. AslInv'
  <2>1. AslInv
    BY IInvAsl
  <2> QED  BY <1>2, <1>3, <2>1 DEF AslInv, Waiters, DescriptorsInv
<1>5. p_prio' \in [Pcbs -> Prios] /\ \A p \in Pcbs : p_prio'[p] \in Int
  <2>1. p_prio' \in [Pcbs -> Prios]
    BY <1>2 DEF IInv, TypeOK
  <2> QED  BY <2>1, PriosAssumption
<1>6. q \in Seq(Pcbs) /\ IsInjective(q) /\ Range(q) = Ready \cup {n}
  BY <1>3, <1>5, IInvReady, InsertProcQLemma DEF Ready
<1> HIDE DEF q
<1>7. \A p \in Range(q) : p \notin pcbFree' /\ p_semAdd'[p] = None
  BY <1>2, <1>3, <1>6, IInvReady, RangeOfSeq
     DEF IInv, OneQueueAtATime, Live, Ready
<1>8. \A p \in Pcbs : p_semAdd'[p] # None => p \notin pcbFree'
  BY <1>2, <1>3 DEF IInv, OneQueueAtATime, Live
<1>9. /\ currentProcess \in Pcbs
      /\ currentProcess \notin Range(q) \cup pcbFree'
      /\ p_semAdd'[currentProcess] = None
  BY <1>1, <1>2, <1>3, <1>6 DEF IInv, OneQueueAtATime, Live
<1>10. /\ OneQueueAtATime' /\ CpuInv'
       /\ readyQueue' \in Seq(Pcbs)
       /\ currentProcess' \in Pcbs \cup {None}
       /\ machine' \in Outcomes
  BY <1>1, <1>2, <1>4, <1>6, <1>7, <1>8, <1>9, DispatchLemma
<1>11. TypeOK'
  BY <1>1, <1>2, <1>4, <1>5, <1>10 DEF IInv, TypeOK, AslInv, Live
<1>12. SemaphoreInv' /\ SoftBlockCovers'
  BY <1>2, <1>3 DEF IInv, SemaphoreInv, SoftBlockCovers, SoftBlocked
<1>13. ProcessCountInv'
  <2>1. (Live)' = Live \cup {n} /\ n \notin Live
    BY <1>1, <1>2 DEF Live, IInv, TypeOK
  <2>2. IsFiniteSet(Live)
    BY PcbsAssumption, FS_Subset DEF Live
  <2>3. Cardinality((Live)') = Cardinality(Live) + 1
    BY <2>1, <2>2, FS_AddElement
  <2> QED  BY <1>2, <2>3 DEF ProcessCountInv, IInv
<1>14. ParentsInv'
  <2> SUFFICES ASSUME NEW p \in Pcbs, p_parent'[p] # None
               PROVE  {p, p_parent'[p]} \subseteq (Live)'
    BY DEF ParentsInv
  <2>1. CASE p = n
    BY <1>1, <1>2, <2>1 DEF Live, IInv, TypeOK
  <2>2. CASE p # n
    BY <1>2, <2>2 DEF Live, IInv, TypeOK, ParentsInv
  <2> QED  BY <2>1, <2>2
<1> QED
  BY <1>4, <1>10, <1>11, <1>12, <1>13, <1>14 DEF IInv, AslInv

(* Both forms of TERMPROCESS: what remains when the subtree of t is gone.  *)
LEMMA KillSubtreeInv ==
  ASSUME IInv, NEW t \in Live, KillProcess(Subtree(t)),
         UNCHANGED <<semValue, busy>>
  PROVE  LET K == Subtree(t)
             q == Without(readyQueue, K)
         IN  /\ AslInv' /\ SemaphoreInv' /\ ProcessCountInv'
             /\ SoftBlockCovers' /\ ParentsInv'
             /\ pcbFree' = pcbFree \cup K /\ pcbFree' \subseteq Pcbs
             /\ p_parent' \in [Pcbs -> Pcbs \cup {None}]
             /\ p_prio' \in [Pcbs -> Prios]
             /\ p_supportStruct' \in [Pcbs -> BOOLEAN]
             /\ processCount' \in Nat /\ softBlockCount' \in Nat
             /\ semValue' \in [Keys -> Nat] /\ busy' \subseteq Devices
             /\ q \in Seq(Pcbs) /\ IsInjective(q) /\ Range(q) = Ready \ K
             /\ \A p \in Range(q) : p \notin pcbFree' /\ p_semAdd'[p] = None
             /\ \A p \in Pcbs : p_semAdd'[p] # None =>
                  p \notin pcbFree' /\ p_semAdd[p] # None
<1> DEFINE K == Subtree(t)
           q == Without(readyQueue, K)
<1>1. K \in SUBSET Live /\ \A p \in Pcbs : p_parent[p] \in K => p \in K
  BY SubtreeLemma DEF IInv
<1> HIDE DEF K
<1>2. KillProcess(K)
  BY DEF K
<1>3. /\ AslInv'
      /\ \A k \in Keys : s_procq[k] = <<>> => s_procq'[k] = <<>>
      /\ \A p \in Pcbs : p_semAdd'[p] = IF p \in K THEN None ELSE p_semAdd[p]
      /\ pcbFree' = pcbFree \cup K
      /\ pcbFree' \subseteq Pcbs
      /\ p_parent' \in [Pcbs -> Pcbs \cup {None}]
      /\ p_prio' = p_prio /\ p_supportStruct' = p_supportStruct
      /\ processCount' \in Nat /\ softBlockCount' \in Nat
      /\ ParentsInv' /\ ProcessCountInv' /\ SoftBlockCovers'
  BY <1>1, <1>2, KillLemma
<1>4. SemaphoreInv'
  BY <1>3 DEF IInv, SemaphoreInv
<1>5. q \in Seq(Pcbs) /\ IsInjective(q) /\ Range(q) = Ready \ K
  BY IInvReady, WithoutLemma DEF Ready
<1> HIDE DEF q
<1>6. \A p \in Range(q) : p \notin pcbFree' /\ p_semAdd'[p] = None
  BY <1>3, <1>5 DEF IInv, OneQueueAtATime, Live
<1>7. \A p \in Pcbs : p_semAdd'[p] # None => p \notin pcbFree' /\ p_semAdd[p] # None
  BY <1>3 DEF IInv, OneQueueAtATime, Live
<1>8. /\ p_prio' \in [Pcbs -> Prios]
      /\ p_supportStruct' \in [Pcbs -> BOOLEAN]
      /\ semValue' \in [Keys -> Nat] /\ busy' \subseteq Devices
  BY <1>3 DEF IInv, TypeOK
<1> QED  BY <1>3, <1>4, <1>5, <1>6, <1>7, <1>8 DEF q, K

LEMMA TermSelfInv == ASSUME IInv, TermSelf PROVE IInv'
<1> DEFINE K == Subtree(currentProcess)
           q == Without(readyQueue, K)
<1>1. currentProcess \in Live
  BY DEF TermSelf, IInv, CpuInv
<1>2. /\ KillProcess(Subtree(currentProcess))
      /\ Scheduler(q, processCount', softBlockCount')
      /\ UNCHANGED <<semValue, busy>>
  BY DEF TermSelf
<1>3. /\ AslInv' /\ SemaphoreInv' /\ ProcessCountInv'
      /\ SoftBlockCovers' /\ ParentsInv'
      /\ pcbFree' \subseteq Pcbs
      /\ p_parent' \in [Pcbs -> Pcbs \cup {None}]
      /\ p_prio' \in [Pcbs -> Prios]
      /\ p_supportStruct' \in [Pcbs -> BOOLEAN]
      /\ processCount' \in Nat /\ softBlockCount' \in Nat
      /\ semValue' \in [Keys -> Nat] /\ busy' \subseteq Devices
      /\ q \in Seq(Pcbs) /\ IsInjective(q)
      /\ \A p \in Range(q) : p \notin pcbFree' /\ p_semAdd'[p] = None
      /\ \A p \in Pcbs : p_semAdd'[p] # None => p \notin pcbFree'
  BY <1>1, <1>2, KillSubtreeInv
<1> HIDE DEF q
<1>4. /\ OneQueueAtATime' /\ CpuInv'
      /\ readyQueue' \in Seq(Pcbs)
      /\ currentProcess' \in Pcbs \cup {None}
      /\ machine' \in Outcomes
  BY <1>2, <1>3, DispatchLemma
<1>5. TypeOK'
  BY <1>3, <1>4 DEF TypeOK, AslInv
<1> QED  BY <1>3, <1>4, <1>5 DEF IInv, AslInv

LEMMA TermProcessInv ==
  ASSUME IInv, NEW t \in Pcbs, TermProcess(t) PROVE IInv'
<1> DEFINE K == Subtree(t)
           q == Without(readyQueue, K)
<1>1. t \in Live /\ currentProcess \in Live /\ currentProcess \in Pcbs
      /\ currentProcess # None /\ machine = "Running"
  BY PcbsAssumption DEF TermProcess, IInv, CpuInv, Live
<1>2. /\ KillProcess(Subtree(t))
      /\ readyQueue' = q
      /\ currentProcess' = currentProcess
      /\ machine' = IF currentProcess \in K THEN "Zombie" ELSE machine
      /\ UNCHANGED <<semValue, busy>>
  BY DEF TermProcess
<1>3. /\ AslInv' /\ SemaphoreInv' /\ ProcessCountInv'
      /\ SoftBlockCovers' /\ ParentsInv'
      /\ pcbFree' = pcbFree \cup K /\ pcbFree' \subseteq Pcbs
      /\ p_parent' \in [Pcbs -> Pcbs \cup {None}]
      /\ p_prio' \in [Pcbs -> Prios]
      /\ p_supportStruct' \in [Pcbs -> BOOLEAN]
      /\ processCount' \in Nat /\ softBlockCount' \in Nat
      /\ semValue' \in [Keys -> Nat] /\ busy' \subseteq Devices
      /\ q \in Seq(Pcbs) /\ IsInjective(q) /\ Range(q) = Ready \ K
      /\ \A p \in Range(q) : p \notin pcbFree' /\ p_semAdd'[p] = None
      /\ \A p \in Pcbs : p_semAdd'[p] # None =>
           p \notin pcbFree' /\ p_semAdd[p] # None
  BY <1>1, <1>2, KillSubtreeInv
<1> HIDE DEF q, K
<1>4. currentProcess \notin Range(q) /\ p_semAdd'[currentProcess] = None
  BY <1>1, <1>3 DEF IInv, OneQueueAtATime
<1>5. OneQueueAtATime'
  BY <1>1, <1>2, <1>3, <1>4, RangeOfSeq
     DEF OneQueueAtATime, AslInv, Ready, Live
<1>6. CpuInv'
  BY <1>1, <1>2, <1>3 DEF CpuInv, Live, Outcomes
<1>7. TypeOK'
  BY <1>1, <1>2, <1>3 DEF TypeOK, AslInv, Outcomes, Faults
<1> QED  BY <1>3, <1>5, <1>6, <1>7 DEF IInv, AslInv

LEMMA FaultInv ==
  ASSUME IInv, NEW f \in Faults, Fault(f) PROVE IInv'
<1>1. machine' \in Faults /\ machine' \notin Outcomes
  BY DEF Fault, Faults, Outcomes
<1>2. UNCHANGED <<pcbFree, p_parent, p_prio, p_supportStruct, semd_h, s_procq,
                  p_semAdd, readyQueue, currentProcess, processCount,
                  softBlockCount, semValue, busy>>
  BY DEF Fault, tree, asl
<1>3. TypeOK'
  BY <1>1, <1>2 DEF IInv, TypeOK
<1>4. CpuInv'
  BY <1>1 DEF CpuInv, Outcomes
<1>5. OneQueueAtATime' /\ DescriptorsInv'
  BY <1>2 DEF IInv, OneQueueAtATime, DescriptorsInv, Waiters, Ready, Live
<1>6. SemaphoreInv' /\ ProcessCountInv' /\ SoftBlockCovers' /\ ParentsInv'
  BY <1>2 DEF IInv, SemaphoreInv, ProcessCountInv, SoftBlockCovers, SoftBlocked,
              ParentsInv, Live
<1> QED  BY <1>3, <1>4, <1>5, <1>6 DEF IInv

(* The running process blocks on k: nothing of it remains on the CPU.      *)
LEMMA BlockLemma ==
  ASSUME IInv, machine = "Running", NEW k \in Keys, semValue[k] <= 0,
         InsertBlocked(k, currentProcess),
         UNCHANGED <<pcbFree, semValue>>
  PROVE  /\ currentProcess \in Pcbs
         /\ AslInv' /\ SemaphoreInv'
         /\ \A p \in Ready : p \notin pcbFree' /\ p_semAdd'[p] = None
         /\ \A p \in Pcbs : p_semAdd'[p] # None => p \notin pcbFree'
         /\ (SoftBlocked)' \subseteq SoftBlocked \cup {currentProcess}
         /\ k \notin SoftKeys => (SoftBlocked)' \subseteq SoftBlocked
<1> USE KeysType
<1>1. /\ currentProcess \in Live /\ currentProcess \in Pcbs
      /\ currentProcess # None
      /\ currentProcess \notin Ready
      /\ p_semAdd[currentProcess] = None
  BY PcbsAssumption DEF IInv, CpuInv, OneQueueAtATime, Live
<1>2. /\ AslInv'
      /\ \A p \in Pcbs \ {currentProcess} : p_semAdd'[p] = p_semAdd[p]
      /\ p_semAdd'[currentProcess] \in {k, None}
      /\ \A j \in Keys \ {k} : s_procq'[j] = s_procq[j]
  BY <1>1, IInvAsl, InsertBlockedLemma
<1>3. \A j \in Keys : semValue[j] > 0 => s_procq'[j] = <<>>
  <2> SUFFICES ASSUME NEW j \in Keys, semValue[j] > 0  PROVE s_procq'[j] = <<>>
    OBVIOUS
  <2>1. semValue[j] \in Nat /\ semValue[k] \in Nat
    BY DEF IInv, TypeOK
  <2>2. j # k
    BY <2>1
  <2> QED  BY <1>2, <2>2 DEF IInv, SemaphoreInv
<1>4. \A p \in Ready : p \notin pcbFree' /\ p_semAdd'[p] = None
  BY <1>1, <1>2, IInvReady, RangeOfSeq DEF IInv, OneQueueAtATime, Live, Ready
<1>5. \A p \in Pcbs : p_semAdd'[p] # None => p \notin pcbFree'
  BY <1>1, <1>2 DEF IInv, OneQueueAtATime, Live
<1>6. (SoftBlocked)' \subseteq SoftBlocked \cup {currentProcess}
  BY <1>2 DEF SoftBlocked
<1>7. k \notin SoftKeys => (SoftBlocked)' \subseteq SoftBlocked
  BY <1>2 DEF SoftBlocked
<1> QED
  BY <1>1, <1>2, <1>3, <1>4, <1>5, <1>6, <1>7 DEF SemaphoreInv

(* What a step keeps that touches neither the tree nor the free list.      *)
LEMMA KeptLemma ==
  ASSUME IInv, UNCHANGED <<pcbFree, tree, processCount>>
  PROVE  /\ pcbFree' \subseteq Pcbs
         /\ p_parent' \in [Pcbs -> Pcbs \cup {None}]
         /\ p_prio' \in [Pcbs -> Prios]
         /\ p_supportStruct' \in [Pcbs -> BOOLEAN]
         /\ processCount' \in Nat
         /\ ParentsInv' /\ ProcessCountInv'
  BY DEF IInv, TypeOK, tree, ParentsInv, ProcessCountInv, Live

LEMMA PasserenInv ==
  ASSUME IInv, NEW s \in UserSems, Passeren(s) PROVE IInv'
<1>0. /\ s \in Keys /\ s \notin SoftKeys
      /\ machine = "Running"
      /\ UNCHANGED <<pcbFree, tree, processCount>>
      /\ softBlockCount' = softBlockCount /\ busy' = busy
  BY KeysType, KeysAssumption DEF Passeren, SoftKeys
<1>1. /\ pcbFree' \subseteq Pcbs
      /\ p_parent' \in [Pcbs -> Pcbs \cup {None}]
      /\ p_prio' \in [Pcbs -> Prios]
      /\ p_supportStruct' \in [Pcbs -> BOOLEAN]
      /\ processCount' \in Nat
      /\ ParentsInv' /\ ProcessCountInv'
  BY <1>0, KeptLemma
<1>2. CASE /\ semValue[s] <= 0
           /\ InsertBlocked(s, currentProcess)
           /\ Scheduler(readyQueue, processCount, softBlockCount)
           /\ UNCHANGED semValue
  <2>1. /\ AslInv' /\ SemaphoreInv'
        /\ \A p \in Ready : p \notin pcbFree' /\ p_semAdd'[p] = None
        /\ \A p \in Pcbs : p_semAdd'[p] # None => p \notin pcbFree'
        /\ (SoftBlocked)' \subseteq SoftBlocked
    BY <1>0, <1>2, BlockLemma
  <2>2. processCount \in Nat /\ softBlockCount \in Nat
    BY DEF IInv, TypeOK
  <2>3. /\ OneQueueAtATime' /\ CpuInv'
        /\ readyQueue' \in Seq(Pcbs)
        /\ currentProcess' \in Pcbs \cup {None}
        /\ machine' \in Outcomes
    BY <1>0, <1>2, <2>1, <2>2, IInvReady, DispatchLemma DEF Ready
  <2>4. SoftBlockCovers'
    <3>1. Cardinality((SoftBlocked)') <= Cardinality(SoftBlocked)
          /\ Cardinality((SoftBlocked)') \in Nat
          /\ Cardinality(SoftBlocked) \in Nat
      BY <2>1, SoftBlockedType, CountLemma
    <3> QED  BY <1>0, <2>2, <3>1 DEF IInv, SoftBlockCovers
  <2>5. TypeOK'
    BY <1>0, <1>1, <1>2, <2>1, <2>3 DEF TypeOK, AslInv, IInv
  <2> QED  BY <1>1, <2>1, <2>3, <2>4, <2>5 DEF IInv, AslInv
<1>3. CASE /\ semValue[s] > 0
           /\ semValue' = [semValue EXCEPT ![s] = @ - 1]
           /\ Continue
           /\ UNCHANGED <<asl, readyQueue>>
  <2>1. semValue' \in [Keys -> Nat] /\ \A k \in Keys : semValue'[k] > 0 => semValue[k] > 0
    BY <1>0, <1>3 DEF IInv, TypeOK
  <2>2. UNCHANGED <<semd_h, s_procq, p_semAdd, readyQueue, currentProcess, machine>>
    BY <1>3 DEF asl, Continue
  <2>3. TypeOK'
    BY <1>0, <1>1, <2>1, <2>2 DEF IInv, TypeOK
  <2>4. OneQueueAtATime' /\ CpuInv' /\ DescriptorsInv' /\ SoftBlockCovers'
    BY <1>0, <2>2 DEF IInv, OneQueueAtATime, CpuInv, DescriptorsInv,
       SoftBlockCovers, SoftBlocked, Waiters, Ready, Live
  <2>5. SemaphoreInv'
    BY <2>1, <2>2 DEF IInv, SemaphoreInv
  <2> QED  BY <1>1, <2>3, <2>4, <2>5 DEF IInv
<1> QED  BY <1>2, <1>3 DEF Passeren

(* The first waiter of k becomes ready.                                    *)
LEMMA WakeLemma ==
  ASSUME IInv, NEW k \in Keys, s_procq[k] # <<>>,
         RemoveBlocked(k, {Head(s_procq[k])}),
         UNCHANGED <<pcbFree, semValue>>
  PROVE  LET p == Head(s_procq[k])
             q == InsertProcQ(readyQueue, p_prio, p)
         IN  /\ p \in Pcbs /\ p_semAdd[p] = k
             /\ AslInv' /\ SemaphoreInv'
             /\ q \in Seq(Pcbs) /\ IsInjective(q)
             /\ \A x \in Range(q) : x \notin pcbFree' /\ p_semAdd'[x] = None
             /\ \A x \in Pcbs : p_semAdd'[x] # None => x \notin pcbFree'
             /\ currentProcess # None =>
                  /\ currentProcess \notin Range(q)
                  /\ p_semAdd'[currentProcess] = None
             /\ (SoftBlocked)' = SoftBlocked \ {p}
<1> DEFINE p == Head(s_procq[k])
           q == InsertProcQ(readyQueue, p_prio, p)
<1>1. p \in Pcbs /\ p \in Waiters(k) /\ p_semAdd[p] = k
  <2>1. s_procq[k] \in Seq(Pcbs) /\ IsInjective(s_procq[k])
    BY DEF IInv, TypeOK, OneQueueAtATime
  <2>2. p \in Range(s_procq[k])
    BY <2>1, DequeueLemma
  <2>3. p \in Pcbs
    BY <2>1, <2>2, RangeOfSeq
  <2> QED  BY <2>2, <2>3 DEF Waiters, IInv, OneQueueAtATime
<1> HIDE DEF p
<1>2. /\ AslInv'
      /\ p_semAdd' = [x \in Pcbs |-> IF x \in {p} THEN None ELSE p_semAdd[x]]
      /\ \A j \in Keys : s_procq[j] = <<>> => s_procq'[j] = <<>>
  <2>1. {p} \in SUBSET Pcbs /\ {p} \subseteq Waiters(k)
    BY <1>1
  <2>2. RemoveBlocked(k, {p})
    BY DEF p
  <2> QED  BY <2>1, <2>2, IInvAsl, RemoveBlockedLemma
<1>3. SemaphoreInv'
  BY <1>2 DEF IInv, SemaphoreInv
<1>4. p \in Live /\ p \notin Ready /\ p # currentProcess
  BY <1>1, KeysType, PcbsAssumption DEF IInv, OneQueueAtATime
<1>5. q \in Seq(Pcbs) /\ IsInjective(q) /\ Range(q) = Ready \cup {p}
  <2>1. \A x \in Pcbs : p_prio[x] \in Int
    BY PrioType DEF IInv
  <2> QED  BY <1>1, <1>4, <2>1, IInvReady, InsertProcQLemma DEF Ready
<1> HIDE DEF q
<1>6. \A x \in Range(q) : x \notin pcbFree' /\ p_semAdd'[x] = None
  BY <1>1, <1>2, <1>4, <1>5, IInvReady, RangeOfSeq
     DEF IInv, OneQueueAtATime, Live, Ready
<1>7. \A x \in Pcbs : p_semAdd'[x] # None => x \notin pcbFree'
  BY <1>2 DEF IInv, OneQueueAtATime, Live
<1>8. currentProcess # None => /\ currentProcess \notin Range(q)
                               /\ p_semAdd'[currentProcess] = None
  BY <1>2, <1>4, <1>5 DEF IInv, TypeOK, OneQueueAtATime
<1>9. (SoftBlocked)' = SoftBlocked \ {p}
  <2>1. None \notin SoftKeys
    BY KeysType
  <2> QED  BY <1>2, <2>1 DEF SoftBlocked
<1> QED
  BY <1>1, <1>2, <1>3, <1>5, <1>6, <1>7, <1>8, <1>9 DEF p, q

LEMMA VerhogenInv ==
  ASSUME IInv, NEW s \in UserSems, Verhogen(s) PROVE IInv'
<1>0. /\ s \in Keys /\ s \notin SoftKeys
      /\ machine = "Running" /\ Continue
      /\ UNCHANGED <<pcbFree, tree, processCount>>
      /\ softBlockCount' = softBlockCount /\ busy' = busy
  BY KeysType, KeysAssumption DEF Verhogen, SoftKeys
<1>1. /\ pcbFree' \subseteq Pcbs
      /\ p_parent' \in [Pcbs -> Pcbs \cup {None}]
      /\ p_prio' \in [Pcbs -> Prios]
      /\ p_supportStruct' \in [Pcbs -> BOOLEAN]
      /\ processCount' \in Nat
      /\ ParentsInv' /\ ProcessCountInv'
  BY <1>0, KeptLemma
<1>2. CASE s_procq[s] # <<>>
  <2> DEFINE p == Head(s_procq[s])
             q == InsertProcQ(readyQueue, p_prio, p)
  <2>1. RemoveBlocked(s, {p}) /\ readyQueue' = q /\ UNCHANGED semValue
    BY <1>2 DEF Verhogen
  <2>2. /\ p \in Pcbs /\ p_semAdd[p] = s
        /\ AslInv' /\ SemaphoreInv'
        /\ q \in Seq(Pcbs) /\ IsInjective(q)
        /\ \A x \in Range(q) : x \notin pcbFree' /\ p_semAdd'[x] = None
        /\ \A x \in Pcbs : p_semAdd'[x] # None => x \notin pcbFree'
        /\ currentProcess # None =>
             /\ currentProcess \notin Range(q)
             /\ p_semAdd'[currentProcess] = None
        /\ (SoftBlocked)' = SoftBlocked \ {p}
    BY <1>0, <1>2, <2>1, WakeLemma
  <2> HIDE DEF p, q
  <2>3. /\ currentProcess \in Pcbs /\ currentProcess # None
        /\ currentProcess \notin pcbFree'
    BY <1>0, PcbsAssumption DEF IInv, CpuInv, Live
  <2>4. /\ OneQueueAtATime' /\ CpuInv'
        /\ readyQueue' \in Seq(Pcbs)
        /\ currentProcess' \in Pcbs \cup {None}
        /\ machine' \in Outcomes
    BY <1>0, <2>1, <2>2, <2>3, DispatchLemma
  <2>5. SoftBlockCovers'
    <3>1. (SoftBlocked)' = SoftBlocked
      BY <1>0, <2>2 DEF SoftBlocked
    <3> QED  BY <1>0, <3>1 DEF IInv, SoftBlockCovers
  <2>6. TypeOK'
    BY <1>0, <1>1, <2>1, <2>2, <2>4 DEF TypeOK, AslInv, IInv
  <2> QED  BY <1>1, <2>2, <2>4, <2>5, <2>6 DEF IInv, AslInv
<1>3. CASE s_procq[s] = <<>>
  <2>1. semValue' = [semValue EXCEPT ![s] = @ + 1] /\ UNCHANGED <<asl, readyQueue>>
    BY <1>3 DEF Verhogen
  <2>2. UNCHANGED <<semd_h, s_procq, p_semAdd, readyQueue, currentProcess, machine>>
    BY <1>0, <2>1 DEF asl, Continue
  <2>3. semValue' \in [Keys -> Nat]
    BY <1>0, <2>1 DEF IInv, TypeOK
  <2>4. TypeOK'
    BY <1>0, <1>1, <2>2, <2>3 DEF IInv, TypeOK
  <2>5. OneQueueAtATime' /\ CpuInv' /\ DescriptorsInv' /\ SoftBlockCovers'
    BY <1>0, <2>2 DEF IInv, OneQueueAtATime, CpuInv, DescriptorsInv,
       SoftBlockCovers, SoftBlocked, Waiters, Ready, Live
  <2>6. SemaphoreInv'
    BY <1>3, <2>1, <2>2 DEF IInv, TypeOK, SemaphoreInv
  <2> QED  BY <1>1, <2>4, <2>5, <2>6 DEF IInv
<1> QED  BY <1>2, <1>3

(* DOIO and CLOCKWAIT.                                                     *)
LEMMA SoftBlockInv ==
  ASSUME IInv, machine = "Running", NEW k \in SoftKeys, SoftBlock(k),
         busy' \subseteq Devices
  PROVE  IInv'
<1>0. /\ k \in Keys
      /\ UNCHANGED <<pcbFree, tree, processCount>>
      /\ softBlockCount' = softBlockCount + 1
      /\ Scheduler(readyQueue, processCount, softBlockCount')
  BY KeysType DEF SoftBlock
<1>1. /\ pcbFree' \subseteq Pcbs
      /\ p_parent' \in [Pcbs -> Pcbs \cup {None}]
      /\ p_prio' \in [Pcbs -> Prios]
      /\ p_supportStruct' \in [Pcbs -> BOOLEAN]
      /\ processCount' \in Nat
      /\ ParentsInv' /\ ProcessCountInv'
  BY <1>0, KeptLemma
<1>2. /\ processCount \in Nat /\ softBlockCount \in Nat /\ softBlockCount' \in Nat
  BY <1>0 DEF IInv, TypeOK
<1>3. /\ semValue' \in [Keys -> Nat]
      /\ AslInv' /\ SemaphoreInv'
      /\ \A p \in Ready : p \notin pcbFree' /\ p_semAdd'[p] = None
      /\ \A p \in Pcbs : p_semAdd'[p] # None => p \notin pcbFree'
      /\ currentProcess \in Pcbs
      /\ (SoftBlocked)' \subseteq SoftBlocked \cup {currentProcess}
  <2>1. CASE semValue[k] <= 0 /\ InsertBlocked(k, currentProcess) /\ UNCHANGED semValue
    <3>1. semValue' \in [Keys -> Nat]
      BY <2>1 DEF IInv, TypeOK
    <3> QED  BY <1>0, <2>1, <3>1, BlockLemma
  <2>2. CASE /\ semValue[k] > 0
             /\ semValue' = [semValue EXCEPT ![k] = @ - 1]
             /\ UNCHANGED asl
    <3>1. UNCHANGED <<semd_h, s_procq, p_semAdd>>
      BY <2>2 DEF asl
    <3>2. semValue' \in [Keys -> Nat]
          /\ \A j \in Keys : semValue'[j] > 0 => semValue[j] > 0
      BY <1>0, <2>2 DEF IInv, TypeOK
    <3>3. AslInv'
      BY <3>1, IInvAsl DEF AslInv, Waiters, DescriptorsInv
    <3>4. SemaphoreInv'
      BY <3>1, <3>2 DEF IInv, SemaphoreInv
    <3>5. \A p \in Ready : p \notin pcbFree' /\ p_semAdd'[p] = None
      BY <1>0, <3>1, IInvReady, RangeOfSeq DEF IInv, OneQueueAtATime, Live, Ready
    <3>6. \A p \in Pcbs : p_semAdd'[p] # None => p \notin pcbFree'
      BY <1>0, <3>1 DEF IInv, OneQueueAtATime, Live
    <3>7. (SoftBlocked)' = SoftBlocked
      BY <3>1 DEF SoftBlocked
    <3>8. currentProcess \in Pcbs
      BY DEF IInv, CpuInv, Live
    <3> QED  BY <3>2, <3>3, <3>4, <3>5, <3>6, <3>7, <3>8
  <2> QED  BY <2>1, <2>2 DEF SoftBlock
<1>4. /\ OneQueueAtATime' /\ CpuInv'
      /\ readyQueue' \in Seq(Pcbs)
      /\ currentProcess' \in Pcbs \cup {None}
      /\ machine' \in Outcomes
  BY <1>0, <1>2, <1>3, IInvReady, DispatchLemma DEF Ready
<1>5. SoftBlockCovers'
  <2>1. {currentProcess} \in SUBSET Pcbs /\ Cardinality({currentProcess}) = 1
    BY <1>3, FS_Singleton
  <2>2. SoftBlocked \cup {currentProcess} \in SUBSET Pcbs
    BY <2>1, SoftBlockedType
  <2>3. Cardinality(SoftBlocked \cup {currentProcess})
          <= Cardinality(SoftBlocked) + Cardinality({currentProcess})
    BY <2>1, SoftBlockedType, CountLemma
  <2>4. Cardinality((SoftBlocked)') <= Cardinality(SoftBlocked \cup {currentProcess})
    BY <1>3, <2>2, SoftBlockedType, CountLemma
  <2>5. /\ Cardinality((SoftBlocked)') \in Nat
        /\ Cardinality(SoftBlocked) \in Nat
        /\ Cardinality(SoftBlocked \cup {currentProcess}) \in Nat
    BY <2>2, SoftBlockedType, CountLemma
  <2>6. softBlockCount >= Cardinality(SoftBlocked)
    BY DEF IInv, SoftBlockCovers
  <2>7. softBlockCount' >= Cardinality((SoftBlocked)')
    BY <1>0, <1>2, <2>1, <2>3, <2>4, <2>5, <2>6
  <2> QED  BY <2>7 DEF SoftBlockCovers
<1>6. TypeOK'
  BY <1>1, <1>2, <1>3, <1>4 DEF TypeOK, AslInv
<1> QED  BY <1>1, <1>3, <1>4, <1>5, <1>6 DEF IInv, AslInv

(* YIELD and the local timer: the running process returns to the ready     *)
(* queue, at its tail or at its slot.                                      *)
LEMMA RequeueInv ==
  ASSUME IInv, Yield \/ HandlePLT PROVE IInv'
<1> DEFINE q == IF Yield THEN Append(readyQueue, currentProcess)
                ELSE InsertProcQ(readyQueue, p_prio, currentProcess)
<1>0. /\ machine = "Running"
      /\ UNCHANGED <<pcbFree, tree, asl, processCount, softBlockCount, semValue,
                     busy>>
      /\ Scheduler(q, processCount, softBlockCount)
  BY DEF Yield, HandlePLT
<1>1. /\ pcbFree' \subseteq Pcbs
      /\ p_parent' \in [Pcbs -> Pcbs \cup {None}]
      /\ p_prio' \in [Pcbs -> Prios]
      /\ p_supportStruct' \in [Pcbs -> BOOLEAN]
      /\ processCount' \in Nat
      /\ ParentsInv' /\ ProcessCountInv'
  BY <1>0, KeptLemma
<1>2. /\ currentProcess \in Pcbs /\ currentProcess \notin Ready
      /\ currentProcess \notin pcbFree
      /\ p_semAdd[currentProcess] = None
  BY <1>0, PcbsAssumption DEF IInv, CpuInv, OneQueueAtATime, Live
<1>3. q \in Seq(Pcbs) /\ IsInjective(q) /\ Range(q) = Ready \cup {currentProcess}
  <2>1. CASE Yield
    BY <1>2, <2>1, IInvReady, EnqueueLemma DEF Ready
  <2>2. CASE ~ Yield
    <3>1. \A x \in Pcbs : p_prio[x] \in Int
      BY PrioType DEF IInv
    <3> QED  BY <1>2, <2>2, <3>1, IInvReady, InsertProcQLemma DEF Ready
  <2> QED  BY <2>1, <2>2
<1> HIDE DEF q
<1>4. UNCHANGED <<pcbFree, semd_h, s_procq, p_semAdd, softBlockCount, semValue, busy>>
  BY <1>0 DEF asl
<1>5. AslInv' /\ SemaphoreInv' /\ SoftBlockCovers'
  BY <1>4, IInvAsl DEF IInv, AslInv, Waiters, DescriptorsInv, SemaphoreInv,
                       SoftBlockCovers, SoftBlocked
<1>6. \A p \in Range(q) : p \notin pcbFree' /\ p_semAdd'[p] = None
  BY <1>2, <1>3, <1>4, IInvReady, RangeOfSeq
     DEF IInv, OneQueueAtATime, Live, Ready
<1>7. \A p \in Pcbs : p_semAdd'[p] # None => p \notin pcbFree'
  BY <1>4 DEF IInv, OneQueueAtATime, Live
<1>8. processCount \in Nat /\ softBlockCount \in Nat
  BY DEF IInv, TypeOK
<1>9. /\ OneQueueAtATime' /\ CpuInv'
      /\ readyQueue' \in Seq(Pcbs)
      /\ currentProcess' \in Pcbs \cup {None}
      /\ machine' \in Outcomes
  BY <1>0, <1>3, <1>5, <1>6, <1>7, <1>8, DispatchLemma
<1>10. TypeOK'
  BY <1>1, <1>4, <1>9 DEF TypeOK, IInv
<1> QED  BY <1>1, <1>5, <1>9, <1>10 DEF IInv, AslInv

(* The end of an interrupt handler, as DispatchLemma takes it.             *)
LEMMA ResumeLemma ==
  ASSUME IInv, Interruptible, NEW q, NEW soft \in Nat, Resume(q, soft),
         processCount' = processCount, softBlockCount' = soft
  PROVE  \/ \E count, s \in Nat : /\ count = processCount'
                                  /\ s = softBlockCount'
                                  /\ Scheduler(q, count, s)
         \/ /\ readyQueue' = q /\ Continue
            /\ machine = "Running" /\ currentProcess \in Pcbs
            /\ currentProcess \notin pcbFree /\ currentProcess # None
<1>1. CASE currentProcess # None
  <2>1. machine = "Running"
    BY <1>1 DEF IInv, CpuInv, Interruptible, Outcomes
  <2> QED  BY <1>1, <2>1 DEF Resume, IInv, CpuInv, Live
<1>2. CASE currentProcess = None
  <2>1. processCount \in Nat /\ Scheduler(q, processCount, soft)
    BY <1>2 DEF Resume, IInv, TypeOK
  <2> QED  BY <2>1
<1> QED  BY <1>1, <1>2

LEMMA HandleDeviceInv ==
  ASSUME IInv, NEW d \in Devices, HandleDevice(d) PROVE IInv'
<1>0. /\ d \in Keys /\ d \in SoftKeys
      /\ Interruptible
      /\ UNCHANGED <<pcbFree, tree, processCount>>
      /\ busy' \subseteq Devices
  BY KeysType DEF HandleDevice, SoftKeys, IInv, TypeOK
<1>1. /\ pcbFree' \subseteq Pcbs
      /\ p_parent' \in [Pcbs -> Pcbs \cup {None}]
      /\ p_prio' \in [Pcbs -> Prios]
      /\ p_supportStruct' \in [Pcbs -> BOOLEAN]
      /\ processCount' \in Nat
      /\ ParentsInv' /\ ProcessCountInv'
  BY <1>0, KeptLemma
<1>2. softBlockCount \in Nat /\ softBlockCount >= Cardinality(SoftBlocked)
  BY DEF IInv, TypeOK, SoftBlockCovers
<1>3. CASE s_procq[d] # <<>>
  <2> DEFINE p == Head(s_procq[d])
             q == InsertProcQ(readyQueue, p_prio, p)
  <2>1. /\ RemoveBlocked(d, {p}) /\ UNCHANGED semValue
        /\ softBlockCount' = softBlockCount - 1
        /\ Resume(q, softBlockCount')
    BY <1>3 DEF HandleDevice
  <2>2. /\ p \in Pcbs /\ p_semAdd[p] = d
        /\ AslInv' /\ SemaphoreInv'
        /\ q \in Seq(Pcbs) /\ IsInjective(q)
        /\ \A x \in Range(q) : x \notin pcbFree' /\ p_semAdd'[x] = None
        /\ \A x \in Pcbs : p_semAdd'[x] # None => x \notin pcbFree'
        /\ currentProcess # None =>
             /\ currentProcess \notin Range(q)
             /\ p_semAdd'[currentProcess] = None
        /\ (SoftBlocked)' = SoftBlocked \ {p}
    BY <1>0, <1>3, <2>1, WakeLemma
  <2> HIDE DEF p, q
  <2>3. softBlockCount' \in Nat /\ SoftBlockCovers'
    <3>1. {p} \in SUBSET Pcbs /\ {p} \subseteq SoftBlocked /\ Cardinality({p}) = 1
      BY <1>0, <2>2, FS_Singleton DEF SoftBlocked
    <3>2. Cardinality(SoftBlocked \ {p}) = Cardinality(SoftBlocked) - 1
      BY <3>1, SoftBlockedType, CountLemma
    <3>3. Cardinality((SoftBlocked)') \in Nat /\ Cardinality(SoftBlocked) \in Nat
      BY SoftBlockedType, CountLemma
    <3>4. softBlockCount' \in Nat /\ softBlockCount' >= Cardinality((SoftBlocked)')
      BY <1>2, <2>1, <2>2, <3>2, <3>3
    <3> QED  BY <3>4 DEF SoftBlockCovers
  <2>4. \/ \E count, s \in Nat : /\ count = processCount'
                                 /\ s = softBlockCount'
                                 /\ Scheduler(q, count, s)
        \/ /\ readyQueue' = q /\ Continue
           /\ machine = "Running" /\ currentProcess \in Pcbs
           /\ currentProcess \notin pcbFree /\ currentProcess # None
    BY <1>0, <2>1, <2>3, ResumeLemma
  <2>5. /\ OneQueueAtATime' /\ CpuInv'
        /\ readyQueue' \in Seq(Pcbs)
        /\ currentProcess' \in Pcbs \cup {None}
        /\ machine' \in Outcomes
    <3>1. pcbFree' = pcbFree
      BY <1>0
    <3> QED  BY <2>2, <2>4, <3>1, DispatchLemma
  <2>6. TypeOK'
    BY <1>0, <1>1, <2>1, <2>2, <2>3, <2>5 DEF TypeOK, AslInv, IInv
  <2> QED  BY <1>1, <2>2, <2>3, <2>5, <2>6 DEF IInv, AslInv
<1>4. CASE s_procq[d] = <<>>
  <2>1. /\ semValue' = [semValue EXCEPT ![d] = @ + 1]
        /\ Resume(readyQueue, softBlockCount)
        /\ UNCHANGED <<asl, softBlockCount>>
    BY <1>4 DEF HandleDevice
  <2>2. UNCHANGED <<semd_h, s_procq, p_semAdd, softBlockCount>>
    BY <2>1 DEF asl
  <2>3. semValue' \in [Keys -> Nat]
        /\ \A k \in Keys : semValue'[k] > 0 => semValue[k] > 0 \/ k = d
    BY <1>0, <2>1 DEF IInv, TypeOK
  <2>4. AslInv' /\ SoftBlockCovers'
    BY <2>2, IInvAsl DEF AslInv, Waiters, DescriptorsInv, IInv,
                         SoftBlockCovers, SoftBlocked
  <2>5. SemaphoreInv'
    BY <1>4, <2>2, <2>3 DEF IInv, SemaphoreInv
  <2>6. \/ \E count, s \in Nat : /\ count = processCount'
                                 /\ s = softBlockCount'
                                 /\ Scheduler(readyQueue, count, s)
        \/ /\ readyQueue' = readyQueue /\ Continue
           /\ machine = "Running" /\ currentProcess \in Pcbs
           /\ currentProcess \notin pcbFree /\ currentProcess # None
    BY <1>0, <1>2, <2>1, ResumeLemma
  <2>7. /\ \A p \in Ready : p \notin pcbFree' /\ p_semAdd'[p] = None
        /\ \A p \in Pcbs : p_semAdd'[p] # None => p \notin pcbFree'
        /\ currentProcess # None => /\ currentProcess \notin Ready
                                    /\ p_semAdd'[currentProcess] = None
    BY <1>0, <2>2, IInvReady, RangeOfSeq DEF IInv, OneQueueAtATime, Live, Ready
  <2>8. /\ OneQueueAtATime' /\ CpuInv'
        /\ readyQueue' \in Seq(Pcbs)
        /\ currentProcess' \in Pcbs \cup {None}
        /\ machine' \in Outcomes
    <3>1. pcbFree' = pcbFree
      BY <1>0
    <3> QED  BY <2>4, <2>6, <2>7, <3>1, IInvReady, DispatchLemma DEF Ready
  <2>9. TypeOK'
    BY <1>0, <1>1, <1>2, <2>2, <2>3, <2>4, <2>8 DEF TypeOK, AslInv
  <2> QED  BY <1>1, <2>4, <2>5, <2>8, <2>9 DEF IInv, AslInv
<1> QED  BY <1>3, <1>4

LEMMA HandleIntervalClockInv ==
  ASSUME IInv, HandleIntervalClock PROVE IInv'
<1> DEFINE w == s_procq[PseudoClock]
           K == Waiters(PseudoClock)
<1>0. /\ PseudoClock \in Keys /\ PseudoClock \in SoftKeys
      /\ Interruptible
      /\ RemoveBlocked(PseudoClock, K)
      /\ softBlockCount' = softBlockCount - Len(w)
      /\ UNCHANGED <<pcbFree, tree, processCount, semValue, busy>>
  BY KeysType DEF HandleIntervalClock, SoftKeys, Waiters
<1>1. PICK q \in Wakeups(readyQueue, p_prio, w) : Resume(q, softBlockCount')
  BY DEF HandleIntervalClock
<1>2. /\ pcbFree' \subseteq Pcbs
      /\ p_parent' \in [Pcbs -> Pcbs \cup {None}]
      /\ p_prio' \in [Pcbs -> Prios]
      /\ p_supportStruct' \in [Pcbs -> BOOLEAN]
      /\ processCount' \in Nat
      /\ ParentsInv' /\ ProcessCountInv'
  BY <1>0, KeptLemma
<1>3. w \in Seq(Pcbs) /\ IsInjective(w) /\ K \in SUBSET Pcbs
  BY <1>0, IInvAsl, WaitersLemma DEF AslInv
<1>4. \A p \in Pcbs : p \in K <=> p_semAdd[p] = PseudoClock
  BY <1>0 DEF IInv, OneQueueAtATime
<1>5. q \in Seq(Pcbs) /\ IsInjective(q) /\ Range(q) = Ready \cup K
  BY <1>1, <1>3, IInvReady, PcbsAssumption, WakeupsLemma DEF Ready, Waiters
<1>6. /\ AslInv'
      /\ p_semAdd' = [p \in Pcbs |-> IF p \in K THEN None ELSE p_semAdd[p]]
      /\ \A j \in Keys : s_procq[j] = <<>> => s_procq'[j] = <<>>
  BY <1>0, <1>3, IInvAsl, RemoveBlockedLemma
<1>7. Len(w) = Cardinality(K)
  <2>1. Len(w) \in Nat /\ DOMAIN w = 1..Len(w)
    BY <1>3, LenProperties
  <2>2. w \in Surjection(1..Len(w), K)
    <3>1. K = Range(w) /\ w \in [1..Len(w) -> Pcbs]
      BY <1>3, LenProperties DEF Waiters
    <3> HIDE DEF w, K
    <3>2. K = {w[i] : i \in 1..Len(w)}
      BY <2>1, <3>1 DEF Range
    <3>3. w \in [1..Len(w) -> K] /\ \A p \in K : \E i \in 1..Len(w) : w[i] = p
      BY <3>1, <3>2
    <3> QED  BY <3>3 DEF Surjection
  <2>3. w \in Injection(1..Len(w), K)
    BY <1>3, <2>1, <2>2 DEF Surjection, Injection
  <2>4. IsFiniteSet(1..Len(w)) /\ Cardinality(1..Len(w)) = Len(w)
    BY <2>1, FS_Interval
  <2> HIDE DEF w, K
  <2> QED  BY <2>2, <2>3, <2>4, FS_Surjection
<1> HIDE DEF w, K
<1>8. softBlockCount' \in Nat /\ SoftBlockCovers'
  <2>1. K \subseteq SoftBlocked /\ (SoftBlocked)' = SoftBlocked \ K
    <3>1. None \notin SoftKeys
      BY KeysType
    <3> QED  BY <1>0, <1>3, <1>4, <1>6, <3>1 DEF SoftBlocked
  <2>2. Cardinality(SoftBlocked \ K) = Cardinality(SoftBlocked) - Cardinality(K)
    BY <1>3, <2>1, SoftBlockedType, CountLemma
  <2>3. Cardinality((SoftBlocked)') \in Nat /\ Cardinality(SoftBlocked) \in Nat
        /\ Cardinality(K) \in Nat
    BY <1>3, SoftBlockedType, CountLemma
  <2>4. softBlockCount \in Nat /\ softBlockCount >= Cardinality(SoftBlocked)
    BY DEF IInv, TypeOK, SoftBlockCovers
  <2>5. softBlockCount' \in Nat /\ softBlockCount' >= Cardinality((SoftBlocked)')
    BY <1>0, <1>7, <2>1, <2>2, <2>3, <2>4
  <2> QED  BY <2>5 DEF SoftBlockCovers
<1>9. SemaphoreInv'
  BY <1>0, <1>6 DEF IInv, SemaphoreInv
<1>10. \A p \in Range(q) : p \notin pcbFree' /\ p_semAdd'[p] = None
  BY <1>0, <1>3, <1>4, <1>5, <1>6, KeysType, IInvReady, RangeOfSeq
     DEF IInv, OneQueueAtATime, Live, Ready
<1>11. \A p \in Pcbs : p_semAdd'[p] # None => p \notin pcbFree'
  BY <1>0, <1>6 DEF IInv, OneQueueAtATime, Live
<1>12. currentProcess # None => /\ currentProcess \notin Range(q)
                                /\ p_semAdd'[currentProcess] = None
  <2> SUFFICES ASSUME currentProcess # None
               PROVE  /\ currentProcess \notin Range(q)
                      /\ p_semAdd'[currentProcess] = None
    OBVIOUS
  <2>1. currentProcess \in Pcbs /\ currentProcess \notin Ready
        /\ p_semAdd[currentProcess] = None
    BY DEF IInv, TypeOK, OneQueueAtATime
  <2>2. currentProcess \notin K
    BY <1>0, <1>4, <2>1, KeysType
  <2> QED  BY <1>5, <1>6, <2>1, <2>2
<1>13. \/ \E count, s \in Nat : /\ count = processCount'
                                /\ s = softBlockCount'
                                /\ Scheduler(q, count, s)
       \/ /\ readyQueue' = q /\ Continue
          /\ machine = "Running" /\ currentProcess \in Pcbs
          /\ currentProcess \notin pcbFree /\ currentProcess # None
  BY <1>0, <1>1, <1>8, ResumeLemma
<1>14. /\ OneQueueAtATime' /\ CpuInv'
       /\ readyQueue' \in Seq(Pcbs)
       /\ currentProcess' \in Pcbs \cup {None}
       /\ machine' \in Outcomes
  <2>1. pcbFree' = pcbFree
    BY <1>0
  <2> QED  BY <1>5, <1>6, <1>10, <1>11, <1>12, <1>13, <2>1, DispatchLemma
<1>15. TypeOK'
  BY <1>0, <1>2, <1>6, <1>8, <1>14 DEF TypeOK, AslInv, IInv
<1> QED  BY <1>2, <1>6, <1>8, <1>9, <1>14, <1>15 DEF IInv, AslInv
-----------------------------------------------------------------------------
(* The inductive invariant and what follows from it.                       *)

LEMMA InitInv == ASSUME Init PROVE IInv
<1> USE KeysType
<1>1. PICK p \in Pcbs :
        /\ pcbFree = Pcbs \ {p}
        /\ currentProcess = p
        /\ p_parent = [x \in Pcbs |-> None]
        /\ p_semAdd = [x \in Pcbs |-> None]
        /\ p_prio = [x \in Pcbs |-> 0]
        /\ p_supportStruct = [x \in Pcbs |-> FALSE]
        /\ semd_h = <<>>
        /\ s_procq = [k \in Keys |-> <<>>]
        /\ readyQueue = <<>>
        /\ processCount = 1
        /\ softBlockCount = 0
        /\ semValue \in [Keys -> {0, 1}]
        /\ busy = {}
        /\ machine = "Running"
  BY DEF Init
<1>2. Live = {p}
  BY <1>1 DEF Live
<1>3. /\ readyQueue \in Seq(Pcbs) /\ Ready = {}
      /\ semd_h \in Seq(Keys) /\ Range(semd_h) = {}
      /\ IsInjective(readyQueue) /\ IsInjective(semd_h)
  <2>1. \A S : <<>> \in Seq(S) /\ Range(<<>>) = {} /\ DOMAIN <<>> = {}
    BY EmptySeq, EmptyQueueLemma, LenProperties
  <2> QED  BY <1>1, <2>1 DEF Ready, IsInjective
<1>4. \A k \in Keys : s_procq[k] = <<>> /\ Waiters(k) = {} /\ IsInjective(s_procq[k])
  BY <1>1, <1>3 DEF Waiters, Ready
<1>5. TypeOK
  <2>1. \A k \in Keys : s_procq[k] \in Seq(Pcbs)
    BY <1>1, <1>3
  <2>2. s_procq \in [Keys -> Seq(Pcbs)]
    BY <1>1, <2>1
  <2> QED  BY <1>1, <1>3, <2>2, PriosAssumption DEF TypeOK, Outcomes
<1>6. OneQueueAtATime /\ CpuInv
  BY <1>1, <1>2, <1>3, <1>4, PcbsAssumption DEF OneQueueAtATime, CpuInv
<1>7. DescriptorsInv /\ SemaphoreInv
  BY <1>3, <1>4 DEF DescriptorsInv, SemaphoreInv
<1>8. ProcessCountInv /\ SoftBlockCovers
  <2>1. SoftBlocked = {}
    BY <1>1 DEF SoftBlocked
  <2>2. Cardinality(Live) = 1 /\ Cardinality(SoftBlocked) = 0
    BY <1>2, <2>1, FS_Singleton, FS_EmptySet
  <2> QED  BY <1>1, <2>2 DEF ProcessCountInv, SoftBlockCovers
<1>9. ParentsInv
  BY <1>1 DEF ParentsInv
<1> QED  BY <1>5, <1>6, <1>7, <1>8, <1>9 DEF IInv

LEMMA NextInv == ASSUME IInv, [Next]_vars PROVE IInv'
<1>1. CASE SystemCall
  <2>1. ASSUME NEW n \in Pcbs, NEW prio \in Prios, NEW support \in BOOLEAN,
               CreateProcess(n, prio, support)
        PROVE  IInv'
    BY <2>1, CreateProcessInv
  <2>2. CASE TermSelf
    BY <2>2, TermSelfInv
  <2>3. ASSUME NEW t \in Pcbs, TermProcess(t) PROVE IInv'
    BY <2>3, TermProcessInv
  <2>4. CASE TermProcessLost
    BY <2>4, FaultInv DEF TermProcessLost, Faults
  <2>5. ASSUME NEW s \in UserSems, Passeren(s) \/ Verhogen(s) PROVE IInv'
    BY <2>5, PasserenInv, VerhogenInv
  <2>6. ASSUME NEW d \in Devices, DoIO(d) PROVE IInv'
    <3>1. busy' \subseteq Devices /\ d \in SoftKeys
      BY <2>6 DEF DoIO, SoftKeys, IInv, TypeOK
    <3> QED  BY <2>6, <3>1, SoftBlockInv DEF DoIO
  <2>7. CASE ClockWait
    <3>1. busy' \subseteq Devices /\ PseudoClock \in SoftKeys
      BY <2>7 DEF ClockWait, SoftKeys, IInv, TypeOK
    <3> QED  BY <2>7, <3>1, SoftBlockInv DEF ClockWait
  <2>8. CASE GetTime
    BY <2>8, FaultInv DEF GetTime, Faults
  <2>9. CASE Yield
    BY <2>9, RequeueInv
  <2> QED
    BY <1>1, <2>1, <2>2, <2>3, <2>4, <2>5, <2>6, <2>7, <2>8, <2>9 DEF SystemCall
<1>2. CASE PassUpOrDie
  BY <1>2, TermSelfInv DEF PassUpOrDie
<1>3. CASE Interrupt
  <2>1. CASE HandlePLT
    BY <2>1, RequeueInv
  <2>2. ASSUME NEW d \in Devices, HandleDevice(d) PROVE IInv'
    BY <2>2, HandleDeviceInv
  <2>3. ASSUME NEW d \in Devices, HandleTerminalError(d) PROVE IInv'
    BY <2>3, FaultInv DEF HandleTerminalError, Faults
  <2>4. CASE HandleIntervalClock
    BY <2>4, HandleIntervalClockInv
  <2> QED  BY <1>3, <2>1, <2>2, <2>3, <2>4 DEF Interrupt
<1>4. CASE UNCHANGED vars
  <2>1. UNCHANGED <<pcbFree, p_parent, p_prio, p_supportStruct, semd_h, s_procq,
                    p_semAdd, readyQueue, currentProcess, processCount,
                    softBlockCount, semValue, busy, machine>>
    BY <1>4 DEF vars, tree, asl
  <2> QED
    BY <2>1 DEF IInv, TypeOK, OneQueueAtATime, CpuInv, DescriptorsInv,
       SemaphoreInv, ProcessCountInv, SoftBlockCovers, ParentsInv, SoftBlocked,
       Waiters, Ready, Live
<1> QED  BY <1>1, <1>2, <1>3, <1>4 DEF Next

(* For any programs, whatever they terminate and whichever devices they    *)
(* share, the nucleus keeps IInv up to the point where a fault stops it.   *)
THEOREM NucleusInvariant == Spec => []IInv
<1>1. Init => IInv
  BY InitInv
<1>2. IInv /\ [Next]_vars => IInv'
  BY NextInv
<1> QED  BY <1>1, <1>2, PTL DEF Spec

(* Type correctness; neither unsigned counter ever wraps below zero.       *)
THEOREM TypeCorrect == Spec => []TypeOK
<1>1. IInv => TypeOK
  BY DEF IInv
<1> QED  BY <1>1, NucleusInvariant, PTL

(* Every active descriptor has a waiter of its own, and the running        *)
(* process waits for nothing: so a descriptor is left for it, and the      *)
(* result of insertBlocked that syscallHandler ignores is never TRUE.      *)
LEMMA IInvSemdAvailable == ASSUME IInv PROVE SemdAvailable
<1> SUFFICES ASSUME machine = "Running"  PROVE Len(semd_h) < MAXPROC
  BY DEF SemdAvailable
<1> DEFINE n == Len(semd_h)
           W == Pcbs \ {currentProcess}
           first == [i \in 1..n |-> Head(s_procq[semd_h[i]])]
<1>1. currentProcess \in Pcbs /\ p_semAdd[currentProcess] = None
  BY PcbsAssumption DEF IInv, CpuInv, OneQueueAtATime, Live
<1>2. n \in Nat /\ DOMAIN semd_h = 1..n /\ \A i \in 1..n : semd_h[i] \in Keys
  BY LenProperties, ElementOfSeq DEF IInv, TypeOK
<1>3. \A i \in 1..n : first[i] \in Pcbs /\ p_semAdd[first[i]] = semd_h[i]
  <2> TAKE i \in 1..n
  <2>1. semd_h[i] \in Keys /\ s_procq[semd_h[i]] # <<>>
    BY <1>2 DEF IInv, DescriptorsInv, Range
  <2>2. s_procq[semd_h[i]] \in Seq(Pcbs) /\ IsInjective(s_procq[semd_h[i]])
    BY <2>1 DEF IInv, TypeOK, OneQueueAtATime
  <2>3. first[i] \in Range(s_procq[semd_h[i]])
    BY <2>1, <2>2, DequeueLemma
  <2>4. first[i] \in Pcbs
    BY <2>2, <2>3, RangeOfSeq
  <2> QED  BY <2>1, <2>3, <2>4 DEF IInv, OneQueueAtATime, Waiters
<1> HIDE DEF first
<1>4. first \in Injection(1..n, W)
  <2>1. \A i \in 1..n : first[i] \in W
    BY <1>1, <1>2, <1>3, KeysType
  <2>2. \A i, j \in 1..n : first[i] = first[j] => i = j
    BY <1>2, <1>3 DEF IInv, DescriptorsInv, IsInjective
  <2>3. first = [i \in 1..n |-> Head(s_procq[semd_h[i]])]
    BY DEF first
  <2>4. DOMAIN first = 1..n /\ first \in [1..n -> W]
    BY <2>1, <2>3
  <2> QED  BY <2>2, <2>4 DEF Injection, IsInjective
<1>5. IsFiniteSet(W) /\ Cardinality(W) = MAXPROC - 1 /\ MAXPROC \in Nat
  BY <1>1, PcbsAssumption, FS_RemoveElement, FS_CardinalityType DEF MAXPROC
<1>6. Cardinality(1..n) = n
  BY <1>2, FS_Interval
<1> HIDE DEF W
<1>7. Cardinality(1..n) <= Cardinality(W)
  BY <1>4, <1>5, FS_Injection
<1> QED  BY <1>2, <1>5, <1>6, <1>7

(* insertBlocked never fails.                                              *)
THEOREM SemdAlwaysAvailable == Spec => []SemdAvailable
<1>1. IInv => SemdAvailable
  BY IInvSemdAvailable
<1> QED  BY <1>1, NucleusInvariant, PTL

(* HALT and PANIC mean what they say.                                      *)
LEMMA IInvStops == ASSUME IInv PROVE HaltWhenAllDead /\ PanicOnlyInDeadlock
<1>1. IsFiniteSet(Live) /\ IsFiniteSet(SoftBlocked)
  BY PcbsAssumption, FS_Subset DEF Live, SoftBlocked
<1>2. Cardinality(Live) = 0 <=> Live = {}
  BY <1>1, FS_EmptySet
<1>3. Cardinality(SoftBlocked) = 0 <=> SoftBlocked = {}
  BY <1>1, FS_EmptySet
<1>4. HaltWhenAllDead
  BY <1>2 DEF HaltWhenAllDead, IInv, CpuInv, ProcessCountInv
<1>5. PanicOnlyInDeadlock
  <2> SUFFICES ASSUME machine = "Panicked"
               PROVE  SoftBlocked = {} /\ Ready = {} /\ Live # {}
    BY DEF PanicOnlyInDeadlock
  <2>1. processCount > 0 /\ softBlockCount = 0 /\ readyQueue = <<>>
    BY DEF IInv, CpuInv, Outcomes
  <2>2. Cardinality(SoftBlocked) = 0
    <3>1. Cardinality(SoftBlocked) \in Nat
      BY <1>1, FS_CardinalityType
    <3> QED  BY <2>1, <3>1 DEF IInv, SoftBlockCovers
  <2>3. Live # {}
    BY <1>2, <2>1 DEF IInv, ProcessCountInv
  <2>4. Ready = {}
    BY <2>1, IInvReady, EmptyQueueLemma DEF Ready
  <2> QED  BY <1>3, <2>2, <2>3, <2>4
<1> QED  BY <1>4, <1>5

(* The system halts only when every process has terminated ...             *)
THEOREM HaltSound == Spec => []HaltWhenAllDead
<1>1. IInv => HaltWhenAllDead
  BY IInvStops
<1> QED  BY <1>1, NucleusInvariant, PTL

(* ... and panics only in a deadlock.                                      *)
THEOREM PanicSound == Spec => []PanicOnlyInDeadlock
<1>1. IInv => PanicOnlyInDeadlock
  BY IInvStops
<1> QED  BY <1>1, NucleusInvariant, PTL
-----------------------------------------------------------------------------
(* The live processes are one tree, for any programs: creation adds a      *)
(* leaf, termination cuts off a branch or fells the whole tree.            *)

(* Every live process descends from r, which has no parent.                *)
Root(r) == p_parent[r] = None /\ Subtree(r) = Live

(* A set that holds r and, with a process, its children.                   *)
Closed(r, S) == r \in S /\ \A q \in Pcbs : p_parent[q] \in S => q \in S

LEMMA SubtreeInClosed ==
  ASSUME NEW r, NEW S \in SUBSET Pcbs, Closed(r, S) PROVE Subtree(r) \subseteq S
  BY DEF Subtree, Closed

LEMMA RootFromClosed ==
  ASSUME ParentsInv, NEW r \in Live, p_parent[r] = None,
         \A S \in SUBSET Pcbs : Closed(r, S) => Live \subseteq S
  PROVE  Root(r)
<1>1. Closed(r, Live) /\ Live \in SUBSET Pcbs
  BY PcbsAssumption DEF ParentsInv, Closed, Live
<1>2. Subtree(r) \subseteq Live
  BY <1>1, SubtreeInClosed
<1>3. Live \subseteq Subtree(r)
  BY DEF Subtree, Closed, Live
<1> QED  BY <1>2, <1>3 DEF Root

(* The same of the next state, which a lemma about this one cannot give.   *)
LEMMA RootFromClosedNext ==
  ASSUME ParentsInv', NEW r \in Live', p_parent'[r] = None,
         \A S \in SUBSET Pcbs : Closed(r, S)' => Live' \subseteq S
  PROVE  Root(r)'
<1>1. Closed(r, Live)' /\ Live' \in SUBSET Pcbs
  BY PcbsAssumption DEF ParentsInv, Closed, Live
<1>2. Subtree(r)' \subseteq Live'
  BY <1>1 DEF Subtree, Closed
<1>3. Live' \subseteq Subtree(r)'
  BY DEF Subtree, Closed, Live
<1> QED  BY <1>2, <1>3 DEF Root

(* A new process is a leaf under the running one.                          *)
LEMMA CreateProcessTree ==
  ASSUME IInv, IInv', OneTree, NEW n \in Pcbs, NEW prio \in Prios,
         NEW support \in BOOLEAN, CreateProcess(n, prio, support)
  PROVE  OneTree'
<1>1. /\ currentProcess \in Live /\ n \in pcbFree /\ p_parent[n] = None
      /\ Live' = Live \cup {n}
      /\ p_parent' = [p_parent EXCEPT ![n] = currentProcess]
      /\ p_parent \in [Pcbs -> Pcbs \cup {None}]
  BY DEF CreateProcess, IInv, CpuInv, ParentsInv, TypeOK, Live
<1>2. PICK r \in Live : Root(r)
  BY <1>1 DEF OneTree, Root
<1>3. r \in Live' /\ p_parent'[r] = None
  BY <1>1, <1>2 DEF Root, Live
<1>4. ASSUME NEW S \in SUBSET Pcbs, Closed(r, S)'
      PROVE  Live' \subseteq S
  <2>1. Closed(r, S)
    BY <1>1, <1>4, PcbsAssumption DEF Closed
  <2>2. Live \subseteq S
    BY <1>2, <2>1, SubtreeInClosed DEF Root
  <2>3. p_parent'[n] \in S
    BY <1>1, <2>2
  <2>4. n \in S
    BY <1>4, <2>3 DEF Closed
  <2> QED  BY <1>1, <2>2, <2>4
<1>5. Root(r)'
  BY <1>3, <1>4, RootFromClosedNext DEF IInv
<1> QED  BY <1>3, <1>5 DEF OneTree, Root

(* Killing t takes its branch, or everything when t is the root.           *)
LEMMA KillTree ==
  ASSUME IInv, IInv', OneTree, NEW t \in Live, KillProcess(Subtree(t))
  PROVE  OneTree'
<1> DEFINE K == Subtree(t)
<1>1. /\ t \in K /\ K \subseteq Live
      /\ \A q \in Pcbs : p_parent[q] \in K => q \in K
  BY SubtreeLemma DEF IInv
<1>2. /\ Live' = Live \ K
      /\ p_parent' = [p \in Pcbs |-> IF p \in K THEN None ELSE p_parent[p]]
      /\ p_parent \in [Pcbs -> Pcbs \cup {None}]
  BY <1>1 DEF KillProcess, Live, IInv, TypeOK
<1>3. PICK r \in Live : Root(r)
  BY DEF OneTree, Root
<1>4. CASE t = r
  BY <1>2, <1>3, <1>4 DEF OneTree, Root
<1>5. CASE t # r
  <2>1. r \notin K
    <3>1. K \ {r} \in SUBSET Pcbs /\ Closed(t, K \ {r})
      BY <1>1, <1>2, <1>3, <1>5, PcbsAssumption DEF Closed, Live, Root
    <3> QED  BY <3>1, SubtreeInClosed
  <2>2. r \in Live' /\ p_parent'[r] = None
    BY <1>2, <1>3, <2>1 DEF Root, Live
  <2>3. ASSUME NEW S \in SUBSET Pcbs, Closed(r, S)'
        PROVE  Live' \subseteq S
    <3>1. S \cup K \in SUBSET Pcbs
      BY <1>1 DEF Live
    <3>2. Closed(r, S \cup K)
      BY <1>1, <1>2, <2>3 DEF Closed
    <3>3. Live \subseteq S \cup K
      BY <1>3, <3>1, <3>2, SubtreeInClosed DEF Root
    <3> QED  BY <1>2, <3>3
  <2>4. Root(r)'
    BY <2>2, <2>3, RootFromClosedNext DEF IInv
  <2> QED  BY <2>2, <2>4 DEF OneTree, Root
<1> QED  BY <1>4, <1>5

LEMMA SameTree ==
  ASSUME OneTree, UNCHANGED <<pcbFree, p_parent>> PROVE OneTree'
  BY DEF OneTree, Subtree, Live

LEMMA InitTree == ASSUME Init, IInv PROVE OneTree
<1>1. PICK r \in Pcbs : Live = {r} /\ p_parent = [q \in Pcbs |-> None]
  BY DEF Init, Live
<1>2. \A S \in SUBSET Pcbs : Closed(r, S) => Live \subseteq S
  BY <1>1 DEF Closed
<1>3. Root(r)
  BY <1>1, <1>2, RootFromClosed DEF IInv
<1> QED  BY <1>1, <1>3 DEF OneTree, Root

LEMMA NextTree == ASSUME IInv, IInv', OneTree, [Next]_vars PROVE OneTree'
<1>1. ASSUME NEW n \in Pcbs, NEW prio \in Prios, NEW support \in BOOLEAN,
             CreateProcess(n, prio, support)
      PROVE  OneTree'
  BY <1>1, CreateProcessTree
<1>2. CASE TermSelf \/ PassUpOrDie
  <2>1. currentProcess \in Live /\ KillProcess(Subtree(currentProcess))
    BY <1>2 DEF PassUpOrDie, TermSelf, IInv, CpuInv
  <2> QED  BY <2>1, KillTree
<1>3. ASSUME NEW t \in Pcbs, TermProcess(t) PROVE OneTree'
  BY <1>3, KillTree DEF TermProcess
<1>4. CASE \/ TermProcessLost \/ GetTime \/ Yield \/ HandlePLT \/ ClockWait
           \/ \E s \in UserSems : Passeren(s) \/ Verhogen(s)
           \/ \E d \in Devices : DoIO(d) \/ HandleDevice(d) \/ HandleTerminalError(d)
           \/ HandleIntervalClock \/ UNCHANGED vars
  <2>1. UNCHANGED <<pcbFree, p_parent>>
    BY <1>4 DEF TermProcessLost, GetTime, Yield, HandlePLT, ClockWait, Passeren,
       Verhogen, DoIO, HandleDevice, HandleTerminalError, HandleIntervalClock,
       SoftBlock, Fault, tree, vars
  <2> QED  BY <2>1, SameTree
<1> QED  BY <1>1, <1>2, <1>3, <1>4 DEF Next, SystemCall, Interrupt

(* Terminating the root ends the system, whatever was created and          *)
(* terminated before: no process is ever outside the tree.                 *)
THEOREM OneTreeAlways == Spec => []OneTree
<1>1. Init => IInv /\ OneTree
  BY InitInv, InitTree
<1>2. IInv /\ IInv' /\ OneTree /\ [Next]_vars => OneTree'
  BY NextTree
<1> QED  BY <1>1, <1>2, NucleusInvariant, PTL DEF Spec

-----------------------------------------------------------------------------
(* What holds when programs keep the contract: a device does one operation *)
(* at a time, and nobody terminates the process that waits for it.  Then   *)
(* nobody is lost, and softBlockCount is exact.                            *)

(* Programs that keep the contract.                                        *)
Contract == ~IoKills /\ ExclusiveIo

(* No interrupt has been counted up on a device or pseudo-clock semaphore. *)
SoftValuesZero == \A k \in SoftKeys : semValue[k] = 0

(* A device is busy for exactly one process, which waits for it.           *)
OneOperation ==
  \A d \in Devices :
    /\ d \in busy <=> \E p \in Pcbs : p_semAdd[p] = d
    /\ \A p, q \in Pcbs : p_semAdd[p] = d /\ p_semAdd[q] = d => p = q

(* The inductive invariant under the contract.                             *)
ContractInv == SoftValuesZero /\ OneOperation /\ SoftBlockExact /\ NobodyLost

LEMMA SoftKeysType ==
  /\ SoftKeys \subseteq Keys /\ None \notin SoftKeys
  /\ UserSems \cap SoftKeys = {}
  /\ \A d \in Devices : d \in SoftKeys /\ d # PseudoClock
  BY KeysType, KeysAssumption DEF SoftKeys

(* The scheduler, or the end of a handler, leaves nobody of queue q behind. *)
LEMMA PlacedLemma ==
  ASSUME NEW q \in Seq(Pcbs), IsInjective(q),
         \A p \in Live' : \/ p \in Range(q) \/ p_semAdd'[p] # None
                          \/ p = currentProcess /\ Continue,
         \/ \E count, soft \in Nat : Scheduler(q, count, soft)
         \/ readyQueue' = q /\ Continue
  PROVE  NobodyLost'
<1>1. CASE \E count, soft \in Nat : Scheduler(q, count, soft)
  <2>1. Range(q) \subseteq Range(readyQueue') \cup {currentProcess'}
    BY <1>1, SchedulerLemma
  <2> QED  BY <2>1 DEF NobodyLost, Ready, Continue
<1>2. CASE readyQueue' = q /\ Continue
  BY <1>2 DEF NobodyLost, Ready, Continue
<1> QED  BY <1>1, <1>2

(* What a step keeps that changes neither waiters nor devices.             *)
LEMMA SameWaits ==
  ASSUME ContractInv, UNCHANGED <<p_semAdd, busy, softBlockCount>>,
         \A k \in SoftKeys : semValue'[k] = semValue[k]
  PROVE  SoftValuesZero' /\ OneOperation' /\ SoftBlockExact'
  BY DEF ContractInv, SoftValuesZero, OneOperation, SoftBlockExact, SoftBlocked

(* The running process blocks on k, and a descriptor is there for it.      *)
LEMMA BlockExact ==
  ASSUME IInv, machine = "Running", NEW k \in Keys,
         InsertBlocked(k, currentProcess)
  PROVE  /\ currentProcess \in Live /\ p_semAdd[currentProcess] = None
         /\ p_semAdd' = [p_semAdd EXCEPT ![currentProcess] = k]
         /\ p_semAdd'[currentProcess] = k
<1>1. currentProcess \in Live /\ p_semAdd[currentProcess] = None
  BY PcbsAssumption DEF IInv, CpuInv, OneQueueAtATime, Live
<1>2. ~(Len(semd_h) >= MAXPROC)
  <2>1. Len(semd_h) \in Nat /\ MAXPROC \in Int
    BY PcbsAssumption, FS_CardinalityType, LenProperties DEF IInv, TypeOK, MAXPROC
  <2>2. Len(semd_h) < MAXPROC
    BY IInvSemdAvailable DEF SemdAvailable
  <2> QED  BY <2>1, <2>2
<1> QED  BY <1>1, <1>2 DEF InsertBlocked, IInv, TypeOK, Live

(* Everybody but the caller keeps its place when the caller blocks.        *)
LEMMA BlockPlaces ==
  ASSUME IInv, ContractInv, machine = "Running", NEW k \in Keys,
         InsertBlocked(k, currentProcess), UNCHANGED pcbFree,
         NEW count \in Nat, NEW soft \in Nat, Scheduler(readyQueue, count, soft)
  PROVE  NobodyLost'
<1>1. /\ p_semAdd' = [p_semAdd EXCEPT ![currentProcess] = k]
      /\ currentProcess \in Live
  BY BlockExact
<1>2. \A p \in Live' : p \in Range(readyQueue) \/ p_semAdd'[p] # None
  <2> TAKE p \in Live'
  <2>1. p \in Live /\ p \in Pcbs
    BY DEF Live
  <2>2. p = currentProcess \/ p \in Ready \/ p_semAdd[p] # None
    BY <2>1 DEF ContractInv, NobodyLost
  <2> QED  BY <1>1, <2>1, <2>2, KeysType DEF Ready, IInv, TypeOK
<1> QED  BY <1>2, IInvReady, PlacedLemma
-----------------------------------------------------------------------------
(* One lemma per handler: it preserves ContractInv.                        *)

LEMMA CreateProcessContract ==
  ASSUME IInv, ContractInv, NEW n \in Pcbs, NEW prio \in Prios,
         NEW support \in BOOLEAN, CreateProcess(n, prio, support)
  PROVE  ContractInv'
<1>1. p_semAdd[n] = None
  BY DEF CreateProcess, IInv, OneQueueAtATime, Live
<1>2. p_semAdd' = p_semAdd
  BY <1>1 DEF CreateProcess, IInv, TypeOK
<1>3. SoftValuesZero' /\ OneOperation' /\ SoftBlockExact'
  BY <1>2, SameWaits DEF CreateProcess
<1>4. NobodyLost'
  <2>1. n \notin Ready
    BY DEF CreateProcess, IInv, OneQueueAtATime, Live
  <2>2. \A x \in Pcbs : p_prio'[x] \in Int
    BY PrioType, PriosAssumption DEF CreateProcess, IInv, TypeOK
  <2>3. /\ readyQueue' = InsertProcQ(readyQueue, p_prio', n)
        /\ Live' = Live \cup {n} /\ Continue
    BY DEF CreateProcess, Live
  <2>4. Range(readyQueue') = Ready \cup {n}
    BY <2>2, <2>3, IInvReady, InsertProcQLemma DEF Ready
  <2> QED  BY <1>2, <2>3, <2>4 DEF ContractInv, NobodyLost, Ready, Continue
<1> QED  BY <1>3, <1>4 DEF ContractInv

(* killProcess under the contract: no operation loses its waiter, and the  *)
(* count follows the waiters of the pseudo-clock.                          *)
LEMMA KillContract ==
  ASSUME IInv, ContractInv, Contract, NEW t \in Live, MayKill(Subtree(t)),
         KillProcess(Subtree(t)), UNCHANGED <<semValue, busy>>
  PROVE  /\ SoftValuesZero' /\ OneOperation' /\ SoftBlockExact'
         /\ Live' = Live \ Subtree(t)
         /\ \A p \in Live' : p_semAdd'[p] = p_semAdd[p]
<1> DEFINE K == Subtree(t)
           C == {p \in K : p_semAdd[p] = PseudoClock}
<1>1. /\ p_semAdd' = [p \in Pcbs |-> IF p \in K THEN None ELSE p_semAdd[p]]
      /\ softBlockCount' = softBlockCount - Cardinality(C)
      /\ Live' = Live \ K
  BY DEF KillProcess, Live
<1>2. K \subseteq Pcbs /\ \A p \in K : p_semAdd[p] \notin Devices
  BY DEF MayKill, Contract, Subtree
<1>3. SoftValuesZero'
  BY DEF ContractInv, SoftValuesZero
<1>4. OneOperation'
  <2>1. \A p \in Pcbs, d \in Devices : p_semAdd'[p] = d <=> p_semAdd[p] = d
    BY <1>1, <1>2, SoftKeysType
  <2> QED  BY <2>1 DEF ContractInv, OneOperation
<1>5. SoftBlockExact'
  <2>1. C \in SUBSET Pcbs /\ C \subseteq SoftBlocked
    BY <1>2 DEF SoftBlocked, SoftKeys
  <2>2. (SoftBlocked)' = SoftBlocked \ C
    BY <1>1, <1>2, SoftKeysType DEF SoftBlocked, SoftKeys
  <2>3. Cardinality(SoftBlocked \ C) = Cardinality(SoftBlocked) - Cardinality(C)
    BY <2>1, SoftBlockedType, CountLemma
  <2> QED  BY <1>1, <2>2, <2>3 DEF ContractInv, SoftBlockExact
<1>6. \A p \in Live' : p_semAdd'[p] = p_semAdd[p]
  BY <1>1 DEF Live
<1> QED  BY <1>1, <1>3, <1>4, <1>5, <1>6

LEMMA TermSelfContract ==
  ASSUME IInv, IInv', ContractInv, Contract, TermSelf PROVE ContractInv'
<1> DEFINE K == Subtree(currentProcess)
           q == Without(readyQueue, K)
<1>1. /\ currentProcess \in Live /\ MayKill(K) /\ KillProcess(K)
      /\ UNCHANGED <<semValue, busy>>
      /\ Scheduler(q, processCount', softBlockCount')
  BY DEF TermSelf, IInv, CpuInv
<1>2. /\ SoftValuesZero' /\ OneOperation' /\ SoftBlockExact'
      /\ Live' = Live \ K
      /\ \A p \in Live' : p_semAdd'[p] = p_semAdd[p]
  BY <1>1, KillContract
<1>3. NobodyLost'
  <2>1. currentProcess \in K
    BY <1>1, SubtreeLemma DEF IInv
  <2>2. q \in Seq(Pcbs) /\ IsInjective(q) /\ Range(q) = Ready \ K
    BY IInvReady, WithoutLemma DEF Ready
  <2> HIDE DEF q, K
  <2>3. \A p \in Live' : p \in Range(q) \/ p_semAdd'[p] # None
    BY <1>2, <2>1, <2>2 DEF ContractInv, NobodyLost
  <2>4. processCount' \in Nat /\ softBlockCount' \in Nat
    BY DEF IInv, TypeOK
  <2> QED  BY <1>1, <2>2, <2>3, <2>4, PlacedLemma
<1> QED  BY <1>2, <1>3 DEF ContractInv

LEMMA TermProcessContract ==
  ASSUME IInv, ContractInv, Contract, NEW t \in Pcbs, TermProcess(t)
  PROVE  ContractInv'
<1> DEFINE K == Subtree(t)
<1>1. /\ t \in Live /\ MayKill(K) /\ KillProcess(K)
      /\ UNCHANGED <<semValue, busy, currentProcess>>
      /\ readyQueue' = Without(readyQueue, K)
  BY DEF TermProcess
<1>2. /\ SoftValuesZero' /\ OneOperation' /\ SoftBlockExact'
      /\ Live' = Live \ K
      /\ \A p \in Live' : p_semAdd'[p] = p_semAdd[p]
  BY <1>1, KillContract
<1>3. NobodyLost'
  <2>1. Range(readyQueue') = Ready \ K
    BY <1>1, IInvReady, WithoutLemma DEF Ready
  <2> QED  BY <1>1, <1>2, <2>1 DEF ContractInv, NobodyLost, Ready
<1> QED  BY <1>2, <1>3 DEF ContractInv

LEMMA FaultContract ==
  ASSUME ContractInv, NEW f, Fault(f) PROVE ContractInv'
<1>1. UNCHANGED <<p_semAdd, busy, softBlockCount, semValue, pcbFree, readyQueue,
                  currentProcess>>
  BY DEF Fault, asl
<1>2. SoftValuesZero' /\ OneOperation' /\ SoftBlockExact'
  BY <1>1, SameWaits
<1> QED  BY <1>1, <1>2 DEF ContractInv, NobodyLost, Live, Ready

LEMMA PasserenContract ==
  ASSUME IInv, ContractInv, NEW s \in UserSems, Passeren(s) PROVE ContractInv'
<1>0. /\ s \in Keys /\ s \notin SoftKeys /\ machine = "Running"
      /\ UNCHANGED <<pcbFree, softBlockCount, busy>>
  BY SoftKeysType DEF Passeren, Keys
<1>1. CASE /\ InsertBlocked(s, currentProcess)
           /\ Scheduler(readyQueue, processCount, softBlockCount)
           /\ UNCHANGED semValue
  <2>1. NobodyLost'
    BY <1>0, <1>1, BlockPlaces DEF IInv, TypeOK
  <2>2. /\ p_semAdd' = [p_semAdd EXCEPT ![currentProcess] = s]
        /\ p_semAdd[currentProcess] = None
    BY <1>0, <1>1, BlockExact
  <2>3. \A p \in Pcbs, k \in SoftKeys : p_semAdd'[p] = k <=> p_semAdd[p] = k
    BY <1>0, <2>2, SoftKeysType DEF IInv, TypeOK
  <2>4. SoftValuesZero'
    BY <1>1 DEF ContractInv, SoftValuesZero
  <2>5. OneOperation'
    <3>1. \A p \in Pcbs, d \in Devices : p_semAdd'[p] = d <=> p_semAdd[p] = d
      BY <2>3, SoftKeysType
    <3> QED  BY <1>0, <3>1 DEF ContractInv, OneOperation
  <2>6. SoftBlockExact'
    <3>1. (SoftBlocked)' = SoftBlocked
      BY <2>3 DEF SoftBlocked
    <3> QED  BY <1>0, <3>1 DEF ContractInv, SoftBlockExact
  <2> QED  BY <2>1, <2>4, <2>5, <2>6 DEF ContractInv
<1>2. CASE /\ semValue' = [semValue EXCEPT ![s] = @ - 1]
           /\ Continue
           /\ UNCHANGED <<asl, readyQueue>>
  <2>1. \A k \in SoftKeys : semValue'[k] = semValue[k]
    BY <1>0, <1>2, SoftKeysType DEF IInv, TypeOK
  <2>2. UNCHANGED <<p_semAdd, busy, softBlockCount, pcbFree, readyQueue,
                    currentProcess>>
    BY <1>0, <1>2 DEF asl, Continue
  <2>3. SoftValuesZero' /\ OneOperation' /\ SoftBlockExact'
    BY <2>1, <2>2, SameWaits
  <2> QED  BY <2>2, <2>3 DEF ContractInv, NobodyLost, Live, Ready
<1> QED  BY <1>1, <1>2 DEF Passeren

(* The first waiter of k is made ready, and waits for nothing any more.    *)
LEMMA WakeExact ==
  ASSUME IInv, NEW k \in Keys, s_procq[k] # <<>>,
         RemoveBlocked(k, {Head(s_procq[k])})
  PROVE  LET p == Head(s_procq[k])
             q == InsertProcQ(readyQueue, p_prio, p)
         IN  /\ p \in Pcbs /\ p_semAdd[p] = k
             /\ p_semAdd' = [p_semAdd EXCEPT ![p] = None]
             /\ q \in Seq(Pcbs) /\ IsInjective(q) /\ Range(q) = Ready \cup {p}
<1> DEFINE p == Head(s_procq[k])
           q == InsertProcQ(readyQueue, p_prio, p)
<1>1. p \in Pcbs /\ p_semAdd[p] = k
  <2>1. s_procq[k] \in Seq(Pcbs) /\ IsInjective(s_procq[k])
    BY DEF IInv, TypeOK, OneQueueAtATime
  <2>2. p \in Waiters(k)
    BY <2>1, DequeueLemma DEF Waiters
  <2>3. p \in Pcbs
    BY <2>1, <2>2, RangeOfSeq DEF Waiters
  <2> QED  BY <2>2, <2>3 DEF IInv, OneQueueAtATime
<1>2. p_semAdd' = [p_semAdd EXCEPT ![p] = None]
  BY <1>1 DEF RemoveBlocked, IInv, TypeOK
<1>3. p \notin Ready /\ \A x \in Pcbs : p_prio[x] \in Int
  BY <1>1, KeysType, PrioType DEF IInv, OneQueueAtATime
<1> HIDE DEF p
<1>4. q \in Seq(Pcbs) /\ IsInjective(q) /\ Range(q) = Ready \cup {p}
  BY <1>1, <1>3, IInvReady, InsertProcQLemma DEF Ready
<1> QED  BY <1>1, <1>2, <1>4 DEF p

LEMMA VerhogenContract ==
  ASSUME IInv, ContractInv, NEW s \in UserSems, Verhogen(s) PROVE ContractInv'
<1>0. /\ s \in Keys /\ s \notin SoftKeys /\ Continue
      /\ UNCHANGED <<pcbFree, softBlockCount, busy>>
  BY SoftKeysType DEF Verhogen, Keys
<1>1. CASE s_procq[s] # <<>>
  <2> DEFINE p == Head(s_procq[s])
             q == InsertProcQ(readyQueue, p_prio, p)
  <2>1. RemoveBlocked(s, {p}) /\ readyQueue' = q /\ UNCHANGED semValue
    BY <1>1 DEF Verhogen
  <2>2. /\ p \in Pcbs /\ p_semAdd[p] = s
        /\ p_semAdd' = [p_semAdd EXCEPT ![p] = None]
        /\ q \in Seq(Pcbs) /\ IsInjective(q) /\ Range(q) = Ready \cup {p}
    BY <1>0, <1>1, <2>1, WakeExact
  <2> HIDE DEF p, q
  <2>3. \A x \in Pcbs, k \in SoftKeys : p_semAdd'[x] = k <=> p_semAdd[x] = k
    BY <1>0, <2>2, SoftKeysType DEF IInv, TypeOK
  <2>4. SoftValuesZero'
    BY <2>1 DEF ContractInv, SoftValuesZero
  <2>5. OneOperation'
    <3>1. \A x \in Pcbs, d \in Devices : p_semAdd'[x] = d <=> p_semAdd[x] = d
      BY <2>3, SoftKeysType
    <3> QED  BY <1>0, <3>1 DEF ContractInv, OneOperation
  <2>6. SoftBlockExact'
    <3>1. (SoftBlocked)' = SoftBlocked
      BY <2>3 DEF SoftBlocked
    <3> QED  BY <1>0, <3>1 DEF ContractInv, SoftBlockExact
  <2>7. NobodyLost'
    BY <1>0, <2>1, <2>2 DEF ContractInv, NobodyLost, Ready, Live, Continue,
       IInv, TypeOK
  <2> QED  BY <2>4, <2>5, <2>6, <2>7 DEF ContractInv
<1>2. CASE s_procq[s] = <<>>
  <2>1. semValue' = [semValue EXCEPT ![s] = @ + 1] /\ UNCHANGED <<asl, readyQueue>>
    BY <1>2 DEF Verhogen
  <2>2. \A k \in SoftKeys : semValue'[k] = semValue[k]
    BY <1>0, <2>1, SoftKeysType DEF IInv, TypeOK
  <2>3. UNCHANGED <<p_semAdd, busy, softBlockCount, pcbFree, readyQueue,
                    currentProcess>>
    BY <1>0, <2>1 DEF asl, Continue
  <2>4. SoftValuesZero' /\ OneOperation' /\ SoftBlockExact'
    BY <2>2, <2>3, SameWaits
  <2> QED  BY <2>3, <2>4 DEF ContractInv, NobodyLost, Live, Ready
<1> QED  BY <1>1, <1>2

(* DOIO and CLOCKWAIT: the caller is one more process that waits for k.    *)
LEMMA SoftBlockContract ==
  ASSUME IInv, ContractInv, machine = "Running", NEW k \in SoftKeys, SoftBlock(k)
  PROVE  /\ SoftValuesZero' /\ SoftBlockExact' /\ NobodyLost'
         /\ currentProcess \in Pcbs
         /\ p_semAdd[currentProcess] = None
         /\ p_semAdd' = [p_semAdd EXCEPT ![currentProcess] = k]
<1>1. semValue[k] = 0 /\ k \in Keys
  BY SoftKeysType DEF ContractInv, SoftValuesZero
<1>2. /\ InsertBlocked(k, currentProcess)
      /\ UNCHANGED <<semValue, pcbFree>>
      /\ softBlockCount' = softBlockCount + 1
      /\ Scheduler(readyQueue, processCount, softBlockCount')
  BY <1>1 DEF SoftBlock
<1>3. processCount \in Nat /\ softBlockCount \in Nat /\ softBlockCount' \in Nat
  BY <1>2 DEF IInv, TypeOK
<1>4. NobodyLost'
  BY <1>1, <1>2, <1>3, BlockPlaces
<1>5. /\ currentProcess \in Pcbs
      /\ p_semAdd[currentProcess] = None
      /\ p_semAdd' = [p_semAdd EXCEPT ![currentProcess] = k]
  BY <1>1, <1>2, BlockExact DEF Live
<1>6. SoftBlockExact'
  <2>1. currentProcess \notin SoftBlocked /\ IsFiniteSet(SoftBlocked)
    BY <1>5, SoftKeysType, SoftBlockedType, CountLemma DEF SoftBlocked
  <2>2. (SoftBlocked)' = SoftBlocked \cup {currentProcess}
    BY <1>5 DEF SoftBlocked, IInv, TypeOK
  <2>3. Cardinality((SoftBlocked)') = Cardinality(SoftBlocked) + 1
    BY <2>1, <2>2, FS_AddElement
  <2> QED  BY <1>2, <2>3 DEF ContractInv, SoftBlockExact
<1>7. SoftValuesZero'
  BY <1>2 DEF ContractInv, SoftValuesZero
<1> QED  BY <1>4, <1>5, <1>6, <1>7

LEMMA DoIOContract ==
  ASSUME IInv, ContractInv, Contract, NEW d \in Devices, DoIO(d)
  PROVE  ContractInv'
<1>1. d \in SoftKeys /\ d \in Keys
  BY SoftKeysType
<1>2. /\ SoftValuesZero' /\ SoftBlockExact' /\ NobodyLost'
      /\ currentProcess \in Pcbs
      /\ p_semAdd[currentProcess] = None
      /\ p_semAdd' = [p_semAdd EXCEPT ![currentProcess] = d]
  BY <1>1, SoftBlockContract DEF DoIO
<1>3. d \notin busy /\ busy' = busy \cup {d}
  BY DEF DoIO, Contract
<1>4. \A p \in Pcbs : p_semAdd[p] # d
  BY <1>3 DEF ContractInv, OneOperation
<1>5. p_semAdd \in [Pcbs -> Keys \cup {None}]
  BY DEF IInv, TypeOK
<1>6. OneOperation'
  <2> SUFFICES ASSUME NEW e \in Devices
               PROVE  /\ e \in busy' <=> \E p \in Pcbs : p_semAdd'[p] = e
                      /\ \A p, q \in Pcbs : p_semAdd'[p] = e /\ p_semAdd'[q] = e => p = q
    BY DEF OneOperation
  <2>1. CASE e = d
    BY <1>2, <1>3, <1>4, <1>5, <2>1
  <2>2. CASE e # d
    <3>1. \A p \in Pcbs : p_semAdd'[p] = e <=> p_semAdd[p] = e
      BY <1>2, <1>5, <2>2, SoftKeysType
    <3> QED  BY <1>3, <2>2, <3>1 DEF ContractInv, OneOperation
  <2> QED  BY <2>1, <2>2
<1> QED  BY <1>2, <1>6 DEF ContractInv

LEMMA ClockWaitContract ==
  ASSUME IInv, ContractInv, ClockWait PROVE ContractInv'
<1>1. PseudoClock \in SoftKeys
  BY DEF SoftKeys
<1>2. /\ SoftValuesZero' /\ SoftBlockExact' /\ NobodyLost'
      /\ p_semAdd[currentProcess] = None
      /\ p_semAdd' = [p_semAdd EXCEPT ![currentProcess] = PseudoClock]
  BY <1>1, SoftBlockContract DEF ClockWait
<1>3. \A p \in Pcbs, d \in Devices : p_semAdd'[p] = d <=> p_semAdd[p] = d
  BY <1>2, SoftKeysType DEF IInv, TypeOK
<1>4. OneOperation'
  BY <1>3 DEF ContractInv, OneOperation, ClockWait
<1> QED  BY <1>2, <1>4 DEF ContractInv

LEMMA RequeueContract ==
  ASSUME IInv, ContractInv, Yield \/ HandlePLT PROVE ContractInv'
<1> DEFINE q == IF Yield THEN Append(readyQueue, currentProcess)
                ELSE InsertProcQ(readyQueue, p_prio, currentProcess)
<1>1. /\ machine = "Running"
      /\ UNCHANGED <<pcbFree, asl, softBlockCount, semValue, busy>>
      /\ Scheduler(q, processCount, softBlockCount)
      /\ processCount \in Nat /\ softBlockCount \in Nat
  BY DEF Yield, HandlePLT, IInv, TypeOK
<1>2. currentProcess \in Pcbs /\ currentProcess \notin Ready
  BY <1>1, PcbsAssumption DEF IInv, CpuInv, OneQueueAtATime, Live
<1>3. q \in Seq(Pcbs) /\ IsInjective(q) /\ Range(q) = Ready \cup {currentProcess}
  <2>1. CASE Yield
    BY <1>2, <2>1, IInvReady, EnqueueLemma DEF Ready
  <2>2. CASE ~Yield
    <3>1. \A x \in Pcbs : p_prio[x] \in Int
      BY PrioType DEF IInv
    <3> QED  BY <1>2, <2>2, <3>1, IInvReady, InsertProcQLemma DEF Ready
  <2> QED  BY <2>1, <2>2
<1> HIDE DEF q
<1>4. p_semAdd' = p_semAdd /\ Live' = Live
  BY <1>1 DEF asl, Live
<1>5. SoftValuesZero' /\ OneOperation' /\ SoftBlockExact'
  BY <1>1, <1>4, SameWaits
<1>6. \A p \in Live' : p \in Range(q) \/ p_semAdd'[p] # None
  BY <1>3, <1>4 DEF ContractInv, NobodyLost
<1>7. NobodyLost'
  BY <1>1, <1>3, <1>6, PlacedLemma
<1> QED  BY <1>5, <1>7 DEF ContractInv

(* The end of an interrupt handler: the interrupted process goes on, or    *)
(* the scheduler takes over; those of q are not left behind.               *)
LEMMA ResumePlaces ==
  ASSUME IInv, Interruptible, NEW q \in Seq(Pcbs), IsInjective(q),
         NEW soft \in Nat, Resume(q, soft),
         \A p \in Live' : \/ p \in Range(q) \/ p_semAdd'[p] # None
                          \/ p = currentProcess
  PROVE  NobodyLost'
<1>1. CASE currentProcess # None
  <2>1. readyQueue' = q /\ Continue
    BY <1>1 DEF Resume
  <2> QED  BY <2>1, PlacedLemma
<1>2. CASE currentProcess = None
  <2>1. processCount \in Nat /\ Scheduler(q, processCount, soft)
    BY <1>2 DEF Resume, IInv, TypeOK
  <2>2. None \notin Live'
    BY PcbsAssumption DEF Live
  <2> QED  BY <1>2, <2>1, <2>2, PlacedLemma
<1> QED  BY <1>1, <1>2

(* A completion finds the one process that waits for it.                   *)
LEMMA HandleDeviceContract ==
  ASSUME IInv, IInv', ContractInv, NEW d \in Devices, HandleDevice(d)
  PROVE  ContractInv'
<1> DEFINE p == Head(s_procq[d])
           q == InsertProcQ(readyQueue, p_prio, p)
<1>1. d \in SoftKeys /\ d \in Keys /\ d \in busy /\ Interruptible
      /\ busy' = busy \ {d} /\ UNCHANGED pcbFree
  BY SoftKeysType DEF HandleDevice
<1>2. s_procq[d] # <<>>
  <2>1. PICK x \in Pcbs : p_semAdd[x] = d
    BY <1>1 DEF ContractInv, OneOperation
  <2>2. x \in Range(s_procq[d])
    BY <1>1, <2>1 DEF IInv, OneQueueAtATime, Waiters
  <2> QED  BY <1>1, <2>2, EmptyQueueLemma DEF IInv, TypeOK
<1>3. /\ RemoveBlocked(d, {p}) /\ UNCHANGED semValue
      /\ softBlockCount' = softBlockCount - 1
      /\ Resume(q, softBlockCount')
  BY <1>2 DEF HandleDevice
<1>4. /\ p \in Pcbs /\ p_semAdd[p] = d
      /\ p_semAdd' = [p_semAdd EXCEPT ![p] = None]
      /\ q \in Seq(Pcbs) /\ IsInjective(q) /\ Range(q) = Ready \cup {p}
  BY <1>1, <1>2, <1>3, WakeExact
<1> HIDE DEF p, q
<1>5. p_semAdd \in [Pcbs -> Keys \cup {None}]
  BY DEF IInv, TypeOK
<1>6. SoftValuesZero'
  BY <1>3 DEF ContractInv, SoftValuesZero
<1>7. OneOperation'
  <2> SUFFICES ASSUME NEW e \in Devices
               PROVE  /\ e \in busy' <=> \E x \in Pcbs : p_semAdd'[x] = e
                      /\ \A x, y \in Pcbs : p_semAdd'[x] = e /\ p_semAdd'[y] = e => x = y
    BY DEF OneOperation
  <2>1. CASE e = d
    <3>1. \A x \in Pcbs : p_semAdd[x] = d => x = p
      BY <1>4 DEF ContractInv, OneOperation
    <3>2. \A x \in Pcbs : p_semAdd'[x] # d
      BY <1>1, <1>4, <1>5, <3>1, SoftKeysType
    <3> QED  BY <1>1, <2>1, <3>2
  <2>2. CASE e # d
    <3>1. \A x \in Pcbs : p_semAdd'[x] = e <=> p_semAdd[x] = e
      BY <1>4, <1>5, <2>2, SoftKeysType
    <3> QED  BY <1>1, <2>2, <3>1 DEF ContractInv, OneOperation
  <2> QED  BY <2>1, <2>2
<1>8. SoftBlockExact'
  <2>1. p \in SoftBlocked /\ IsFiniteSet(SoftBlocked)
    BY <1>1, <1>4, SoftBlockedType, CountLemma DEF SoftBlocked
  <2>2. (SoftBlocked)' = SoftBlocked \ {p}
    BY <1>4, <1>5, SoftKeysType DEF SoftBlocked
  <2>3. Cardinality((SoftBlocked)') = Cardinality(SoftBlocked) - 1
    BY <2>1, <2>2, FS_RemoveElement
  <2> QED  BY <1>3, <2>3 DEF ContractInv, SoftBlockExact
<1>9. NobodyLost'
  <2>1. \A x \in Live' : x \in Range(q) \/ p_semAdd'[x] # None \/ x = currentProcess
    <3> TAKE x \in Live'
    <3>1. x \in Live /\ x \in Pcbs
      BY <1>1 DEF Live
    <3> QED  BY <1>4, <1>5, <3>1 DEF ContractInv, NobodyLost
  <2>2. softBlockCount' \in Nat
    BY DEF IInv, TypeOK
  <2> QED  BY <1>1, <1>3, <1>4, <2>1, <2>2, ResumePlaces
<1> QED  BY <1>6, <1>7, <1>8, <1>9 DEF ContractInv

(* A tick wakes every process it has counted.                              *)
LEMMA HandleIntervalClockContract ==
  ASSUME IInv, IInv', ContractInv, HandleIntervalClock PROVE ContractInv'
<1> DEFINE w == s_procq[PseudoClock]
           K == Waiters(PseudoClock)
<1>1. /\ PseudoClock \in Keys /\ Interruptible
      /\ RemoveBlocked(PseudoClock, K)
      /\ UNCHANGED <<pcbFree, semValue, busy>>
      /\ softBlockCount' = softBlockCount - Len(w)
  BY KeysType DEF HandleIntervalClock, Waiters
<1>2. PICK q \in Wakeups(readyQueue, p_prio, w) : Resume(q, softBlockCount')
  BY DEF HandleIntervalClock
<1>3. w \in Seq(Pcbs) /\ IsInjective(w) /\ K \in SUBSET Pcbs
  BY <1>1, IInvAsl, WaitersLemma DEF AslInv
<1>4. q \in Seq(Pcbs) /\ IsInjective(q) /\ Range(q) = Ready \cup K
  BY <1>2, <1>3, IInvReady, PcbsAssumption, WakeupsLemma DEF Ready, Waiters
<1>5. \A p \in Pcbs : p \in K <=> p_semAdd[p] = PseudoClock
  BY <1>1 DEF IInv, OneQueueAtATime
<1>6. p_semAdd' = [p \in Pcbs |-> IF p \in K THEN None ELSE p_semAdd[p]]
  BY <1>1 DEF RemoveBlocked
<1>7. Len(w) = Cardinality(K)
  BY <1>3, QueueLength DEF Waiters
<1> HIDE DEF w, K
<1>8. SoftValuesZero'
  BY <1>1 DEF ContractInv, SoftValuesZero
<1>9. OneOperation'
  <2>1. \A p \in Pcbs, d \in Devices : p_semAdd'[p] = d <=> p_semAdd[p] = d
    BY <1>5, <1>6, SoftKeysType
  <2> QED  BY <1>1, <2>1 DEF ContractInv, OneOperation
<1>10. SoftBlockExact'
  <2>1. K \subseteq SoftBlocked /\ (SoftBlocked)' = SoftBlocked \ K
    BY <1>3, <1>5, <1>6, SoftKeysType DEF SoftBlocked, SoftKeys
  <2>2. Cardinality(SoftBlocked \ K) = Cardinality(SoftBlocked) - Cardinality(K)
    BY <1>3, <2>1, SoftBlockedType, CountLemma
  <2> QED  BY <1>1, <1>7, <2>1, <2>2 DEF ContractInv, SoftBlockExact
<1>11. NobodyLost'
  <2>1. \A x \in Live' : x \in Range(q) \/ p_semAdd'[x] # None \/ x = currentProcess
    <3> TAKE x \in Live'
    <3>1. x \in Live /\ x \in Pcbs
      BY <1>1 DEF Live
    <3> QED  BY <1>4, <1>6, <3>1 DEF ContractInv, NobodyLost
  <2>2. softBlockCount' \in Nat
    BY DEF IInv, TypeOK
  <2> QED  BY <1>1, <1>2, <1>4, <2>1, <2>2, ResumePlaces
<1> QED  BY <1>8, <1>9, <1>10, <1>11 DEF ContractInv
-----------------------------------------------------------------------------
LEMMA InitContract == ASSUME Init PROVE ContractInv
<1>1. /\ p_semAdd = [q \in Pcbs |-> None]
      /\ busy = {} /\ softBlockCount = 0
      /\ \A k \in SoftKeys : semValue[k] = 0
      /\ Live = {currentProcess}
  BY DEF Init, Live
<1>2. SoftValuesZero
  BY <1>1 DEF SoftValuesZero
<1>3. OneOperation
  BY <1>1, SoftKeysType DEF OneOperation
<1>4. SoftBlocked = {}
  BY <1>1, SoftKeysType DEF SoftBlocked
<1>5. SoftBlockExact
  BY <1>1, <1>4, FS_EmptySet DEF SoftBlockExact
<1>6. NobodyLost
  BY <1>1 DEF NobodyLost
<1> QED  BY <1>2, <1>3, <1>5, <1>6 DEF ContractInv

LEMMA NextContract ==
  ASSUME Contract, IInv, IInv', ContractInv, [Next]_vars PROVE ContractInv'
<1>1. CASE SystemCall
  <2>1. ASSUME NEW n \in Pcbs, NEW prio \in Prios, NEW support \in BOOLEAN,
               CreateProcess(n, prio, support)
        PROVE  ContractInv'
    BY <2>1, CreateProcessContract
  <2>2. CASE TermSelf
    BY <2>2, TermSelfContract
  <2>3. ASSUME NEW t \in Pcbs, TermProcess(t) PROVE ContractInv'
    BY <2>3, TermProcessContract
  <2>4. CASE TermProcessLost \/ GetTime
    BY <2>4, FaultContract DEF TermProcessLost, GetTime
  <2>5. ASSUME NEW s \in UserSems, Passeren(s) \/ Verhogen(s) PROVE ContractInv'
    BY <2>5, PasserenContract, VerhogenContract
  <2>6. ASSUME NEW d \in Devices, DoIO(d) PROVE ContractInv'
    BY <2>6, DoIOContract
  <2>7. CASE ClockWait
    BY <2>7, ClockWaitContract
  <2>8. CASE Yield
    BY <2>8, RequeueContract
  <2> QED
    BY <1>1, <2>1, <2>2, <2>3, <2>4, <2>5, <2>6, <2>7, <2>8 DEF SystemCall
<1>2. CASE PassUpOrDie
  BY <1>2, TermSelfContract DEF PassUpOrDie
<1>3. CASE Interrupt
  <2>1. CASE HandlePLT
    BY <2>1, RequeueContract
  <2>2. ASSUME NEW d \in Devices, HandleDevice(d) PROVE ContractInv'
    BY <2>2, HandleDeviceContract
  <2>3. ASSUME NEW d \in Devices, HandleTerminalError(d) PROVE ContractInv'
    BY <2>3, FaultContract DEF HandleTerminalError
  <2>4. CASE HandleIntervalClock
    BY <2>4, HandleIntervalClockContract
  <2> QED  BY <1>3, <2>1, <2>2, <2>3, <2>4 DEF Interrupt
<1>4. CASE UNCHANGED vars
  <2>1. UNCHANGED <<p_semAdd, busy, softBlockCount, semValue, pcbFree, readyQueue,
                    currentProcess>>
    BY <1>4 DEF vars, asl
  <2>2. SoftValuesZero' /\ OneOperation' /\ SoftBlockExact'
    BY <2>1, SameWaits
  <2> QED  BY <2>1, <2>2 DEF ContractInv, NobodyLost, Live, Ready
<1> QED  BY <1>1, <1>2, <1>3, <1>4 DEF Next

(* WAIT under the contract: the count is positive and exact, so somebody   *)
(* waits for an interrupt, and for a device only if it is at work.         *)
LEMMA ContractWakeup ==
  ASSUME IInv, ContractInv PROVE WaitHasWakeup
<1> SUFFICES ASSUME machine = "Waiting"
             PROVE  \/ Waiters(PseudoClock) # {}
                    \/ \E d \in busy : Waiters(d) # {}
  BY DEF WaitHasWakeup
<1>1. softBlockCount > 0
  BY DEF IInv, CpuInv
<1>2. SoftBlocked # {}
  <2>1. Cardinality(SoftBlocked) > 0
    BY <1>1 DEF ContractInv, SoftBlockExact
  <2> QED  BY <2>1, FS_EmptySet
<1>3. PICK p \in Pcbs : p_semAdd[p] \in SoftKeys
  BY <1>2 DEF SoftBlocked
<1>4. p \in Waiters(p_semAdd[p])
  BY <1>3, SoftKeysType DEF IInv, OneQueueAtATime
<1>5. CASE p_semAdd[p] \in Devices
  <2>1. p_semAdd[p] \in busy
    BY <1>5 DEF ContractInv, OneOperation
  <2> QED  BY <1>4, <2>1
<1>6. CASE p_semAdd[p] = PseudoClock
  BY <1>4, <1>6
<1> QED  BY <1>3, <1>5, <1>6 DEF SoftKeys

LEMMA ContractInvariant ==
  ASSUME Contract PROVE Spec => [](IInv /\ ContractInv)
<1>1. Init => ContractInv
  BY InitContract
<1>2. IInv /\ IInv' /\ ContractInv /\ [Next]_vars => ContractInv'
  BY NextContract
<1> QED  BY <1>1, <1>2, NucleusInvariant, PTL DEF Spec

(* No live process drops out of every queue.                               *)
THEOREM NobodyIsLost == ASSUME Contract PROVE Spec => []NobodyLost
<1>1. ContractInv => NobodyLost
  BY DEF ContractInv
<1> QED  BY <1>1, ContractInvariant, PTL

(* softBlockCount is the number of processes that wait for an interrupt.   *)
THEOREM SoftBlockCountExact == ASSUME Contract PROVE Spec => []SoftBlockExact
<1>1. ContractInv => SoftBlockExact
  BY DEF ContractInv
<1> QED  BY <1>1, ContractInvariant, PTL

(* The CPU waits only for an interrupt that will come and wake somebody.   *)
THEOREM WaitIsAnswered == ASSUME Contract PROVE Spec => []WaitHasWakeup
<1>1. IInv /\ ContractInv => WaitHasWakeup
  BY ContractWakeup
<1> QED  BY <1>1, ContractInvariant, PTL
-----------------------------------------------------------------------------
(* The promise, kept by any programs.                                      *)

(* A process with p_semAdd = NULL is on no queue, and on a queue it finds  *)
(* room: the two ways in which PASSEREN, DOIO and CLOCKWAIT block.         *)
LEMMA RunningWaitsNowhere ==
  ASSUME IInv, machine = "Running"
  PROVE  currentProcess \in Live /\ ~Promise!Waits(currentProcess)
<1>1. currentProcess \in Live /\ p_semAdd[currentProcess] = None
  BY PcbsAssumption DEF IInv, CpuInv, OneQueueAtATime, Live
<1> QED  BY <1>1, KeysType DEF Promise!Waits, Promise!Range, Range, IInv,
                                 OneQueueAtATime, Waiters, Live

LEMMA BlockIsP ==
  ASSUME IInv, machine = "Running", NEW k \in Keys,
         \/ semValue[k] <= 0 /\ InsertBlocked(k, currentProcess)
                             /\ UNCHANGED semValue
         \/ /\ semValue[k] > 0
            /\ semValue' = [semValue EXCEPT ![k] = @ - 1]
            /\ UNCHANGED asl,
         UNCHANGED pcbFree
  PROVE  Promise!P(currentProcess, k)
<1>1. Len(semd_h) \in Nat /\ MAXPROC \in Int
  BY PcbsAssumption, FS_CardinalityType, LenProperties DEF IInv, TypeOK, MAXPROC
<1>2. Len(semd_h) < MAXPROC
  BY IInvSemdAvailable DEF SemdAvailable
<1>3. ~(Len(semd_h) >= MAXPROC)
  BY <1>1, <1>2
<1>4. UNCHANGED Live
  BY DEF Live
<1> QED  BY <1>3, <1>4, RunningWaitsNowhere DEF Promise!P, InsertBlocked, asl

(* Taking the first waiter off its semaphore is a V.                       *)
LEMMA WakeIsV ==
  ASSUME IInv, NEW k \in Keys, UNCHANGED pcbFree,
         \/ /\ s_procq[k] # <<>>
            /\ RemoveBlocked(k, {Head(s_procq[k])})
            /\ UNCHANGED semValue
         \/ /\ s_procq[k] = <<>>
            /\ semValue' = [semValue EXCEPT ![k] = @ + 1]
            /\ UNCHANGED asl
  PROVE  Promise!V(k)
<1>1. s_procq[k] \in Seq(Pcbs) /\ IsInjective(s_procq[k])
  BY DEF IInv, TypeOK, OneQueueAtATime
<1>2. s_procq[k] # <<>> => Without(s_procq[k], {Head(s_procq[k])}) = Tail(s_procq[k])
  BY <1>1, WithoutHead
<1>3. UNCHANGED Live
  BY DEF Live
<1> QED  BY <1>2, <1>3 DEF Promise!V, RemoveBlocked, asl

(* The operators of ProcQueue are the same in Semaphores.                  *)
LEMMA PromisedWithout == \A q, K : Promise!Without(q, K) = Without(q, K)
<1>1. \A T : Promise!Cardinality(T) = Cardinality(T)
  BY DEF Promise!Cardinality, Cardinality
<1>2. \A q, K : Promise!Kept(q, K) = Kept(q, K)
  BY DEF Promise!Kept, Kept
<1>3. \A I, i : Promise!Rank(I, i) = Rank(I, i)
  BY <1>1 DEF Promise!Rank, Rank
<1> DEFINE old(I, j) == CHOOSE i \in I : Rank(I, i) = j - 1
           new(I, j) == CHOOSE i \in I : Promise!Rank(I, i) = j - 1
<1>4. \A I, j : new(I, j) = old(I, j)
  BY <1>3, Zenon
<1>5. \A q, K : Without(q, K) =
                  [j \in 1..Cardinality(Kept(q, K)) |-> q[old(Kept(q, K), j)]]
  BY DEF Without
<1>6. \A q, K : Promise!Without(q, K) =
        [j \in 1..Cardinality(Promise!Kept(q, K)) |-> q[new(Promise!Kept(q, K), j)]]
  BY <1>1 DEF Promise!Without
<1> HIDE DEF old, new
<1> QED
  BY <1>2, <1>4, <1>5, <1>6

(* Terminating a subtree is the death of its processes.                    *)
LEMMA KillIsDie ==
  ASSUME IInv, NEW t \in Live, KillProcess(Subtree(t)), UNCHANGED semValue
  PROVE  Promise!Die(Subtree(t))
<1>1. t \in Subtree(t) /\ Subtree(t) \subseteq Live
  BY SubtreeLemma DEF IInv
<1>2. Live' = Live \ Subtree(t)
  BY <1>1 DEF KillProcess, Live
<1> QED  BY <1>1, <1>2, PromisedWithout DEF Promise!Die, KillProcess

(* Every step of the nucleus is a step of its promise, or none.            *)
LEMMA StepIsPromised ==
  ASSUME IInv, [Next]_vars PROVE [Promise!Next]_(Promise!vars)
<1> USE KeysType
<1>1. ASSUME NEW n \in Pcbs, NEW prio \in Prios, NEW support \in BOOLEAN,
             CreateProcess(n, prio, support)
      PROVE  Promise!Next
  <2>1. n \in Pcbs \ Live /\ Live' = Live \cup {n}
    BY <1>1 DEF CreateProcess, Live
  <2>2. Promise!Create(n)
    BY <1>1, <2>1 DEF Promise!Create, CreateProcess
  <2> QED  BY <2>2 DEF Promise!Next
<1>2. ASSUME NEW t \in Live, KillProcess(Subtree(t)), UNCHANGED semValue
      PROVE  Promise!Next
  <2>1. Subtree(t) \in SUBSET Pcbs
    BY DEF Subtree
  <2> QED  BY <1>2, <2>1, KillIsDie DEF Promise!Next
<1>3. CASE TermSelf
  <2>1. currentProcess \in Live
    BY <1>3 DEF TermSelf, IInv, CpuInv
  <2> QED  BY <1>2, <1>3, <2>1 DEF TermSelf
<1>4. ASSUME NEW t \in Pcbs, TermProcess(t) PROVE Promise!Next
  BY <1>2, <1>4 DEF TermProcess
<1>5. ASSUME NEW k \in Keys, machine = "Running", Promise!P(currentProcess, k)
      PROVE  Promise!Next
  <2>1. currentProcess \in Pcbs
    BY <1>5 DEF IInv, CpuInv, Live
  <2> QED  BY <1>5, <2>1 DEF Promise!Next
<1>6. ASSUME NEW s \in UserSems, Passeren(s) PROVE Promise!Next
  <2>1. s \in Keys /\ machine = "Running" /\ UNCHANGED pcbFree
    BY <1>6 DEF Passeren
  <2>2. Promise!P(currentProcess, s)
    BY <1>6, <2>1, BlockIsP DEF Passeren
  <2> QED  BY <1>5, <2>1, <2>2
<1>7. ASSUME NEW s \in UserSems, Verhogen(s) PROVE Promise!Next
  <2>1. s \in Keys /\ UNCHANGED pcbFree
    BY <1>7 DEF Verhogen
  <2>2. Promise!V(s)
    BY <1>7, <2>1, WakeIsV DEF Verhogen
  <2> QED  BY <2>1, <2>2 DEF Promise!Next
<1>8. ASSUME NEW k \in SoftKeys, machine = "Running", SoftBlock(k)
      PROVE  Promise!Next
  <2>1. k \in Keys /\ UNCHANGED pcbFree
    BY <1>8 DEF SoftBlock
  <2>2. Promise!P(currentProcess, k)
    BY <1>8, <2>1, BlockIsP DEF SoftBlock
  <2> QED  BY <1>5, <1>8, <2>1, <2>2
<1>9. ASSUME NEW d \in Devices, HandleDevice(d) PROVE Promise!Next
  <2>1. d \in Keys /\ UNCHANGED pcbFree
    BY <1>9 DEF HandleDevice
  <2>2. Promise!V(d)
    BY <1>9, <2>1, WakeIsV DEF HandleDevice
  <2> QED  BY <2>1, <2>2 DEF Promise!Next
<1>10. CASE HandleIntervalClock
  <2>1. s_procq[PseudoClock] \in Seq(Pcbs)
    BY DEF IInv, TypeOK
  <2>2. s_procq' = [s_procq EXCEPT ![PseudoClock] = <<>>]
    BY <1>10, <2>1, WithoutAll DEF HandleIntervalClock, RemoveBlocked
  <2>3. UNCHANGED <<Live, semValue>>
    BY <1>10 DEF HandleIntervalClock, Live
  <2>4. Promise!ReleaseAll(PseudoClock)
    BY <2>2, <2>3 DEF Promise!ReleaseAll
  <2> QED  BY <2>4 DEF Promise!Next
<1>11. ASSUME UNCHANGED <<pcbFree, semValue, s_procq>>
       PROVE  UNCHANGED Promise!vars
  BY <1>11 DEF Promise!vars, Live
<1>12. CASE \/ TermProcessLost \/ GetTime \/ Yield \/ HandlePLT
            \/ \E d \in Devices : HandleTerminalError(d)
            \/ UNCHANGED vars
  BY <1>11, <1>12 DEF TermProcessLost, GetTime, Yield, HandlePLT,
     HandleTerminalError, Fault, vars, asl
<1>13. ASSUME NEW d \in Devices, DoIO(d) PROVE Promise!Next
  BY <1>8, <1>13 DEF DoIO, SoftKeys
<1>14. CASE ClockWait
  BY <1>8, <1>14 DEF ClockWait, SoftKeys
<1>15. CASE PassUpOrDie
  BY <1>3, <1>15 DEF PassUpOrDie
<1> QED
  BY <1>1, <1>3, <1>4, <1>6, <1>7, <1>9, <1>10, <1>12, <1>13, <1>14, <1>15
     DEF Next, SystemCall, Interrupt

(* The nucleus keeps its promise: for any programs, every step it takes is *)
(* a P, a V, a tick, a birth or a death on first-come-first-served         *)
(* semaphores.  A full semaphore table, a waiter on two queues or a wake   *)
(* out of turn would be none of these.                                     *)
THEOREM NucleusKeepsPromise == Spec => KeepsPromise
<1>1. Init => Promise!Init
  <2> SUFFICES ASSUME Init PROVE Promise!Init
    OBVIOUS
  <2>1. Live \subseteq Pcbs /\ semValue \in [Keys -> Nat]
    BY DEF Init, Live
  <2> QED  BY <2>1 DEF Init, Promise!Init
<1>2. IInv /\ [Next]_vars => [Promise!Next]_(Promise!vars)
  BY StepIsPromised
<1> QED  BY <1>1, <1>2, NucleusInvariant, PTL DEF Spec, KeepsPromise, Promise!Spec
-----------------------------------------------------------------------------
(* Order of arrival, which the promise keeps.                             *)

(* Two items of q that stay in r, in their order: nobody overtakes.        *)
KeepsOrder(q, r) ==
  \A p, x : Ahead(q, p, x) /\ p # x /\ p \in Range(r) => Ahead(r, p, x)

LEMMA AppendKeepsOrder ==
  ASSUME NEW S, NEW q \in Seq(S), IsInjective(q), NEW y \in S, y \notin Range(q)
  PROVE  KeepsOrder(q, Append(q, y))
<1> DEFINE n == Len(q)
           r == Append(q, y)
<1>1. /\ n \in Nat /\ DOMAIN q = 1..n /\ DOMAIN r = 1..(n + 1)
      /\ \A i \in 1..n : r[i] = q[i]
      /\ r[n + 1] = y
  BY LenProperties
<1>2. Range(r) = Range(q) \cup {y} /\ IsInjective(r)
  BY EnqueueLemma
<1> HIDE DEF r, n
<1>3. \A i \in 1..n : Pos(q, q[i]) = i /\ Pos(r, q[i]) = i
  <2> TAKE i \in 1..n
  <2>1. Pos(q, q[i]) = i
    BY <1>1, PosLemma
  <2>2. Pos(r, r[i]) = i
    BY <1>1, <1>2, PosLemma
  <2> QED  BY <2>1, <2>2, <1>1
<1>4. Pos(r, y) = n + 1
  BY <1>1, <1>2, PosLemma
<1>5. SUFFICES ASSUME NEW p, NEW x, Ahead(q, p, x), p # x
               PROVE  Ahead(r, p, x)
  BY DEF KeepsOrder, r
<1>6. PICK i \in 1..n : p = q[i]
  BY <1>1, <1>5 DEF Ahead, Range
<1>7. p \in Range(r)
  BY <1>2, <1>5 DEF Ahead
<1>8. CASE x \in Range(q)
  <2>1. PICK j \in 1..n : x = q[j]
    BY <1>1, <1>8 DEF Range
  <2> QED  BY <1>3, <1>5, <1>6, <1>7, <1>8, <2>1 DEF Ahead
<1>9. CASE x = y
  BY <1>1, <1>3, <1>4, <1>6, <1>7, <1>9 DEF Ahead
<1>10. CASE x \notin Range(r)
  BY <1>7, <1>10 DEF Ahead
<1> QED  BY <1>2, <1>8, <1>9, <1>10

LEMMA WithoutKeepsOrder ==
  ASSUME NEW S, NEW q \in Seq(S), IsInjective(q), NEW K
  PROVE  KeepsOrder(q, Without(q, K))
<1>1. Range(Without(q, K)) = Range(q) \ K
  BY WithoutLemma
<1>2. \A p, x \in Range(q) \ K :
        Pos(Without(q, K), p) < Pos(Without(q, K), x) <=> Pos(q, p) < Pos(q, x)
  BY WithoutOrder
<1> QED  BY <1>1, <1>2 DEF KeepsOrder, Ahead

(* A step of the promise lets nobody overtake.                             *)
InOrder(k) ==
  \A p, r \in Pcbs :
    p # r /\ Ahead(s_procq[k], p, r) /\ p \in Range(s_procq'[k])
      => /\ Ahead(s_procq'[k], p, r)
         /\ r \in Waiters(k) \ Range(s_procq'[k]) => r \in pcbFree'

LEMMA PromiseKeepsOrder ==
  ASSUME IInv, Promise!Next, NEW k \in Keys PROVE InOrder(k)
<1> DEFINE q == s_procq[k]
<1>1. q \in Seq(Pcbs) /\ IsInjective(q) /\ s_procq \in [Keys -> Seq(Pcbs)]
  BY DEF IInv, TypeOK, OneQueueAtATime
<1>2. ASSUME s_procq'[k] = q PROVE InOrder(k)
  BY <1>2 DEF InOrder, Waiters
<1>3. ASSUME NEW y \in Pcbs, y \notin Range(q), s_procq'[k] = Append(q, y)
      PROVE  InOrder(k)
  <2>1. KeepsOrder(q, s_procq'[k]) /\ Range(q) \subseteq Range(s_procq'[k])
    BY <1>1, <1>3, AppendKeepsOrder, EnqueueLemma
  <2> QED  BY <2>1 DEF InOrder, KeepsOrder, Waiters
<1>4. ASSUME q # <<>>, s_procq'[k] = Tail(q) PROVE InOrder(k)
  <2>1. Tail(q) = Without(q, {Head(q)})
    BY <1>1, <1>4, WithoutHead
  <2>2. KeepsOrder(q, Tail(q)) /\ Range(Tail(q)) = Range(q) \ {Head(q)}
    <3>1. KeepsOrder(q, Without(q, {Head(q)}))
      BY <1>1, WithoutKeepsOrder
    <3> QED  BY <1>1, <1>4, <2>1, <3>1, DequeueLemma
  <2>3. ASSUME NEW p, Ahead(q, p, Head(q)) PROVE FALSE
    <3>1. 1 \in DOMAIN q /\ DOMAIN q = 1..Len(q) /\ Head(q) = q[1] /\ Len(q) \in Nat
      BY <1>1, <1>4, EmptySeq, LenProperties
    <3>2. Pos(q, Head(q)) = 1 /\ Head(q) \in Range(q)
      BY <1>1, <3>1, PosLemma DEF Range
    <3>3. PICK i \in 1..Len(q) : p = q[i]
      BY <2>3, <3>1 DEF Ahead, Range
    <3>4. Pos(q, p) = i
      BY <1>1, <3>1, <3>3, PosLemma
    <3> QED  BY <2>3, <3>2, <3>3, <3>4 DEF Ahead
  <2> QED  BY <1>4, <2>2, <2>3 DEF InOrder, KeepsOrder, Waiters
<1>5. ASSUME s_procq'[k] = <<>> PROVE InOrder(k)
  BY <1>5 DEF InOrder, Range
<1>6. ASSUME NEW K \in SUBSET Pcbs, s_procq'[k] = Without(q, K), Live' = Live \ K
      PROVE  InOrder(k)
  <2>1. KeepsOrder(q, s_procq'[k]) /\ Range(s_procq'[k]) = Range(q) \ K
    BY <1>1, <1>6, WithoutKeepsOrder, WithoutLemma
  <2>2. \A r \in Pcbs : r \in K => r \in pcbFree'
    BY <1>6 DEF Live
  <2> QED  BY <2>1, <2>2 DEF InOrder, KeepsOrder, Waiters
<1>7. ASSUME NEW p \in Pcbs, NEW j \in Keys, Promise!P(p, j) PROVE InOrder(k)
  <2>1. p \notin Range(q)
    BY <1>7 DEF Promise!P, Promise!Waits, Promise!Range, Range
  <2> QED  BY <1>1, <1>2, <1>3, <1>7, <2>1 DEF Promise!P
<1>8. ASSUME NEW j \in Keys, Promise!V(j) PROVE InOrder(k)
  BY <1>1, <1>2, <1>4, <1>8 DEF Promise!V
<1>9. ASSUME NEW j \in Keys, Promise!ReleaseAll(j) PROVE InOrder(k)
  BY <1>1, <1>2, <1>5, <1>9 DEF Promise!ReleaseAll
<1>10. ASSUME NEW K \in SUBSET Pcbs, Promise!Die(K) PROVE InOrder(k)
  BY <1>6, <1>10, PromisedWithout DEF Promise!Die
<1>11. ASSUME NEW p \in Pcbs, Promise!Create(p) PROVE InOrder(k)
  BY <1>2, <1>11 DEF Promise!Create
<1> QED
  BY <1>7, <1>8, <1>9, <1>10, <1>11 DEF Promise!Next

(* First come, first served, for any programs and any number of waiters:   *)
(* no insertion, wakeup, tick or termination lets a process get past one   *)
(* that came before it, except by dying.                                   *)
THEOREM NobodyOvertakes == Spec => NoOvertaking
<1>1. ASSUME IInv, [Next]_vars
      PROVE  \A k \in Keys : InOrder(k)
  <2>1. CASE Promise!Next
    BY <1>1, <2>1, PromiseKeepsOrder
  <2>2. CASE UNCHANGED Promise!vars
    <3>1. s_procq' = s_procq
      BY <2>2 DEF Promise!vars
    <3> QED  BY <3>1 DEF InOrder, Waiters
  <2>3. [Promise!Next]_(Promise!vars)
    BY <1>1, StepIsPromised
  <2> QED  BY <2>1, <2>2, <2>3
<1>2. IInv /\ [Next]_vars =>
        [\A k \in Keys, p, r \in Pcbs :
           p # r /\ Ahead(s_procq[k], p, r) /\ p \in Range(s_procq'[k])
             => /\ Ahead(s_procq'[k], p, r)
                /\ r \in Waiters(k) \ Range(s_procq'[k]) => r \in pcbFree']_vars
  BY <1>1 DEF InOrder
<1> QED  BY <1>2, NucleusInvariant, PTL DEF Spec, NoOvertaking
=============================================================================
