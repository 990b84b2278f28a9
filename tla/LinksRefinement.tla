--------------------------- MODULE LinksRefinement ---------------------------
(***************************************************************************)
(* The pointers of Links are well linked, and every handler's walk through *)
(* them is one step of Nucleus: all that NucleusProofs proves of its       *)
(* sequences, sets and functions holds of the lists.                       *)
(***************************************************************************)
EXTENDS LinksProofs

(* Nucleus and its theorems, on what the pointers stand for.               *)
P == INSTANCE NucleusProofs WITH
  Devices <- {}, Terminals <- {}, IoKills <- FALSE, ExclusiveIo <- TRUE,
  pcbFree <- FreeOf(mem), readyQueue <- ReadyOf(mem), semd_h <- ActiveOf(mem),
  s_procq <- WaitersOf(mem), p_parent <- mem.p_parent, p_semAdd <- mem.p_semAdd,
  p_prio <- mem.p_prio, p_supportStruct <- [p \in Pcbs |-> FALSE], busy <- {}

(* The assumptions of Nucleus hold of this instance.                       *)
LEMMA NucleusAssumptions ==
  P!PcbsAssumption /\ P!KeysAssumption /\ P!PriosAssumption /\ P!BoundsAssumption
<1>1. IsFiniteSet(Pcbs) /\ Pcbs # {} /\ None \notin Pcbs
  BY AddressesAssumption, DeadFinite, TableAssumption DEF Pcbs
<1>2. P!PcbsAssumption
  <2>1. P!IsFiniteSet(Pcbs)
    BY <1>1 DEF P!IsFiniteSet, IsFiniteSet
  <2> QED  BY <1>1, <2>1 DEF P!PcbsAssumption
<1>3. P!KeysAssumption
  BY AddressesAssumption DEF P!KeysAssumption, P!Keys, Keys
<1>4. P!PriosAssumption
  BY PrioritiesAssumption DEF P!PriosAssumption
<1>5. P!BoundsAssumption
  BY LimitsAssumption DEF P!BoundsAssumption
<1> QED  BY <1>2, <1>3, <1>4, <1>5

(* The operators on queues are the same in both.                           *)
LEMMA SameOperators ==
  /\ \A q : P!Range(q) = Range(q)
  /\ \A q, K : P!Without(q, K) = Without(q, K)
  /\ \A q, f, p : P!InsertProcQ(q, f, p) = InsertProcQ(q, f, p)
  /\ \A q, f, w : P!Wakeups(q, f, w) = Wakeups(q, f, w)
  /\ \A T : P!Cardinality(T) = Cardinality(T)
  /\ P!Keys = Keys /\ P!MAXPROC = MaxProc
<1>1. \A q : P!Range(q) = Range(q)
  BY DEF P!Range, Range
<1>0. \A T : P!Cardinality(T) = Cardinality(T)
  BY DEF P!Cardinality, Cardinality
<1>2. \A q, K : P!Without(q, K) = Without(q, K)
  <2>1. \A q, K : P!Kept(q, K) = Kept(q, K)
    BY DEF P!Kept, Kept
  <2>2. \A I, i : P!Rank(I, i) = Rank(I, i)
    BY <1>0 DEF P!Rank, Rank
  <2> DEFINE old(I, j) == CHOOSE i \in I : Rank(I, i) = j - 1
             new(I, j) == CHOOSE i \in I : P!Rank(I, i) = j - 1
  <2>3. \A I, j : new(I, j) = old(I, j)
    BY <2>2, Zenon
  <2>4. \A q, K : Without(q, K) = [j \in 1..Cardinality(Kept(q, K)) |-> q[old(Kept(q, K), j)]]
    BY DEF Without
  <2>5. \A q, K : P!Without(q, K) =
                    [j \in 1..Cardinality(P!Kept(q, K)) |-> q[new(P!Kept(q, K), j)]]
    BY <1>0 DEF P!Without
  <2> HIDE DEF old, new
  <2> QED  BY <2>1, <2>3, <2>4, <2>5
<1>3. ASSUME NEW q, NEW f, NEW p
      PROVE  P!Slot(q, f, p) = Slot(q, f, p) /\ P!InsertProcQ(q, f, p) = InsertProcQ(q, f, p)
  <2>1. \A i : P!IsSlot(q, f, p, i) = IsSlot(q, f, p, i)
    BY DEF P!IsSlot, IsSlot
  <2>2. P!Slot(q, f, p) = Slot(q, f, p)
    BY <2>1 DEF P!Slot, Slot
  <2>3. \A i : P!InsertAt(q, i, p) = InsertAt(q, i, p)
    BY DEF P!InsertAt, InsertAt
  <2> QED  BY <2>2, <2>3 DEF P!InsertProcQ, InsertProcQ
<1>4. ASSUME NEW q, NEW f, NEW w PROVE P!Wakeups(q, f, w) = Wakeups(q, f, w)
  <2>1. \A r, x : P!Pos(r, x) = Pos(r, x)
    BY DEF P!Pos, Pos
  <2>2. \A S : P!SetToSeqs(S) = SetToSeqs(S)
    BY <1>0 DEF P!SetToSeqs, SetToSeqs
  <2> DEFINE A(r) == \A i \in DOMAIN q, p \in Range(w) :
                       Pos(r, q[i]) < Pos(r, p) <=> i < Slot(q, f, p)
             B(r) == \A i, j \in DOMAIN w :
                       Pos(r, w[i]) < Pos(r, w[j])
                         <=> \/ f[w[i]] > f[w[j]]
                             \/ f[w[i]] = f[w[j]] /\ i < j
             a(r) == \A i \in DOMAIN q, p \in Range(w) :
                       P!Pos(r, q[i]) < P!Pos(r, p) <=> i < P!Slot(q, f, p)
             b(r) == \A i, j \in DOMAIN w :
                       P!Pos(r, w[i]) < P!Pos(r, w[j])
                         <=> \/ f[w[i]] > f[w[j]]
                             \/ f[w[i]] = f[w[j]] /\ i < j
  <2>3. \A r : (A(r) <=> a(r)) /\ (B(r) <=> b(r))
    BY <1>3, <2>1
  <2>4. Wakeups(q, f, w) = {r \in SetToSeqs(Range(q) \cup Range(w)) :
                              Without(r, Range(w)) = q /\ A(r) /\ B(r)}
    BY DEF Wakeups
  <2>5. P!Wakeups(q, f, w) = {r \in SetToSeqs(Range(q) \cup Range(w)) :
                                P!Without(r, Range(w)) = q /\ a(r) /\ b(r)}
    BY <1>1, <2>2 DEF P!Wakeups
  <2> HIDE DEF A, B, a, b
  <2> QED  BY <1>2, <2>3, <2>4, <2>5
<1>5. P!Keys = Keys
  BY DEF P!Keys, Keys
<1>6. P!MAXPROC = MaxProc
  <2>1. Cardinality(1..MaxProc) = MaxProc
    BY TableAssumption, FS_Interval
  <2> QED  BY <1>0, <2>1 DEF P!MAXPROC, Pcbs
<1> QED  BY <1>0, <1>1, <1>2, <1>3, <1>4, <1>5, <1>6
-----------------------------------------------------------------------------
(* The invariant: the lists are good, they stand for a state of Nucleus in *)
(* its own invariants, and a freed PCB runs exactly when a zombie does.    *)
LInv ==
  /\ Good(mem)
  /\ machine = "Zombie" <=> currentProcess \in FreeOf(mem)
  /\ P!IInv /\ P!OneTree /\ P!ContractInv

(* What the invariant says without Nucleus' names.                         *)
LEMMA InvFacts ==
  ASSUME LInv
  PROVE  /\ Good(mem) /\ OneQueue(mem)
         /\ processCount \in Nat /\ softBlockCount \in Nat /\ semValue \in [Keys -> Nat]
         /\ semValue[PseudoClock] = 0 /\ currentProcess \in Pcbs \cup {None}
         /\ \A p \in FreeOf(mem), q \in Pcbs : mem.p_parent[p] = None /\ mem.p_parent[q] # p
         /\ Running => /\ currentProcess \in Pcbs \ FreeOf(mem)
                       /\ Unqueued(mem, currentProcess) /\ Len(ActiveOf(mem)) < MaxProc
<1>1. /\ Good(mem) /\ P!IInv /\ P!ContractInv
      /\ FreeOf(mem) \subseteq Pcbs /\ None \notin Pcbs \cup Keys
  BY ViewFacts, AddressesAssumption DEF LInv
<1>2. /\ processCount \in Nat /\ softBlockCount \in Nat /\ semValue \in [Keys -> Nat]
      /\ currentProcess \in Pcbs \cup {None}
  BY <1>1, SameOperators DEF P!IInv, P!TypeOK
<1>3. OneQueue(mem)
  <2>1. \A p \in Pcbs, k \in Keys : p \in Range(WaitersOf(mem)[k]) <=> mem.p_semAdd[p] = k
    BY <1>1, SameOperators DEF P!IInv, P!OneQueueAtATime, P!Waiters
  <2>2. \A p \in Pcbs : mem.p_semAdd[p] # None =>
          p \notin FreeOf(mem) /\ p \notin Range(ReadyOf(mem))
    BY <1>1, SameOperators DEF P!IInv, P!OneQueueAtATime, P!Live, P!Ready
  <2>3. Range(ReadyOf(mem)) \cap FreeOf(mem) = {}
    BY <1>1, SameOperators DEF P!IInv, P!OneQueueAtATime, P!Live, P!Ready
  <2> QED  BY <2>1, <2>2, <2>3 DEF OneQueue
<1>4. semValue[PseudoClock] = 0
  BY <1>1 DEF P!ContractInv, P!SoftValuesZero, P!SoftKeys
<1>5. \A p \in FreeOf(mem), q \in Pcbs : mem.p_parent[p] = None /\ mem.p_parent[q] # p
  BY <1>1 DEF P!IInv, P!ParentsInv, P!Live
<1>6. ASSUME Running
      PROVE  /\ currentProcess \in Pcbs \ FreeOf(mem)
             /\ Unqueued(mem, currentProcess) /\ Len(ActiveOf(mem)) < MaxProc
  <2>1. currentProcess \in Pcbs \ FreeOf(mem)
    BY <1>1, <1>6 DEF Running, P!IInv, P!CpuInv, P!Live
  <2>2. currentProcess \notin Range(ReadyOf(mem)) /\ mem.p_semAdd[currentProcess] = None
    BY <1>1, <2>1, SameOperators DEF P!IInv, P!OneQueueAtATime, P!Ready
  <2>3. Unqueued(mem, currentProcess)
    BY <1>1, <1>3, <2>1, <2>2 DEF Unqueued, OneQueue
  <2>4. P!SemdAvailable
    BY <1>1, NucleusAssumptions, P!IInvSemdAvailable
  <2>5. Len(ActiveOf(mem)) < MaxProc
    BY <1>6, <2>4, SameOperators DEF P!SemdAvailable, Running
  <2> QED  BY <2>1, <2>3, <2>5
<1> QED  BY <1>1, <1>2, <1>3, <1>4, <1>5, <1>6

(* No handler but TERMPROCESS of another process goes wrong.               *)
Fine == {"Running", "Waiting", "Halted", "Panicked"}
Faultless == machine' \in Fine

(* scheduler(): the head of the ready queue gets the CPU, or the machine   *)
(* waits, stops or panics.                                                 *)
LEMMA SchedulerStep ==
  ASSUME NEW m, Good(m), NEW count \in Nat, NEW soft \in Nat, Scheduler(m, count, soft)
  PROVE  /\ Good(mem') /\ FreeOf(mem') = FreeOf(m) /\ SameAsl(m, mem') /\ SameTree(m, mem')
         /\ P!Scheduler(ReadyOf(m), count, soft)
         /\ Faultless
<1>1. PICK n : n = removeProcQ(m, readyQueue)
  OBVIOUS
<1>2. /\ mem' = n /\ currentProcess' = headProcQ(m, readyQueue)
      /\ machine' = CASE ~list_empty(m, readyQueue) -> "Running"
                      [] OTHER -> IF count = 0 THEN "Halted"
                                  ELSE IF soft > 0 THEN "Waiting" ELSE "Panicked"
  BY <1>1 DEF Scheduler
<1>3. /\ list_empty(m, readyQueue) <=> ReadyOf(m) = <<>>
      /\ ReadyOf(m) = <<>> => n = m /\ headProcQ(m, readyQueue) = None
      /\ ReadyOf(m) # <<>> =>
           headProcQ(m, readyQueue) = Head(ReadyOf(m)) /\ ReadyOf(n) = Tail(ReadyOf(m))
      /\ Good(n) /\ FreeOf(n) = FreeOf(m) /\ SameAsl(m, n) /\ SameTree(m, n)
  BY <1>1, ReadyRemove
<1>4. CASE ReadyOf(m) # <<>>
  <2>1. machine' = "Running"
    BY <1>2, <1>3, <1>4
  <2>2. currentProcess' = Head(ReadyOf(m)) /\ ReadyOf(mem') = Tail(ReadyOf(m))
    BY <1>2, <1>3, <1>4
  <2> QED  BY <1>2, <1>3, <1>4, <2>1, <2>2 DEF P!Scheduler, Faultless, Fine
<1>5. CASE ReadyOf(m) = <<>>
  <2>1. machine' = IF count = 0 THEN "Halted" ELSE IF soft > 0 THEN "Waiting" ELSE "Panicked"
    BY <1>2, <1>3, <1>5
  <2>2. machine' = CASE count = 0             -> "Halted"
                     [] count > 0 /\ soft > 0 -> "Waiting"
                     [] count > 0 /\ soft = 0 -> "Panicked"
    BY <2>1
  <2>3. currentProcess' = None /\ ReadyOf(mem') = ReadyOf(m)
    BY <1>2, <1>3, <1>5
  <2>4. P!Scheduler(ReadyOf(m), count, soft)
    BY <1>5, <2>2, <2>3 DEF P!Scheduler
  <2> QED  BY <1>2, <1>3, <2>1, <2>4 DEF Faultless, Fine
<1> QED  BY <1>4, <1>5
-----------------------------------------------------------------------------
(* insertBlocked finds a descriptor.                                       *)
LEMMA Insert ==
  ASSUME NEW m, Good(m), NEW k \in Keys, NEW p \in Pcbs, Unqueued(m, p),
         Len(ActiveOf(m)) < MaxProc, NEW n, n = insertBlocked(m, k, p)
  PROVE  /\ Good(n) /\ FreeOf(n) = FreeOf(m) /\ ReadyOf(n) = ReadyOf(m)
         /\ SameTree(m, n) /\ Becomes(n.p_semAdd, m.p_semAdd, p, k)
         /\ WaitersBecome(m, n, k, Append(WaitersOf(m)[k], p))
         /\ k \in Range(ActiveOf(m)) => ActiveOf(n) = ActiveOf(m)
         /\ k \notin Range(ActiveOf(m)) => ActiveOf(n) = <<k>> \o ActiveOf(m)
<1>1. CASE k \in Range(ActiveOf(m))
  BY <1>1, InsertActive
<1>2. CASE k \notin Range(ActiveOf(m))
  BY <1>2, InsertFree
<1> QED  BY <1>1, <1>2

(* The new queue of one key, as an assignment.                             *)
LEMMA WaitersAssigned ==
  ASSUME NEW m, Good(m), NEW n, Good(n), NEW k \in Keys, NEW r, WaitersBecome(m, n, k, r)
  PROVE  Becomes(WaitersOf(n), WaitersOf(m), k, r)
<1>1. WaitersOf(m) \in [Keys -> Seq(Pcbs)] /\ WaitersOf(n) \in [Keys -> Seq(Pcbs)]
  BY AslFacts
<1> QED  BY <1>1 DEF WaitersBecome, Becomes

(* The running process blocks on k, and another one is dispatched.         *)
LEMMA BlockStep ==
  ASSUME LInv, Running, NEW k \in Keys, NEW soft \in Nat,
         Scheduler(insertBlocked(mem, k, currentProcess), processCount, soft)
  PROVE  /\ Good(mem') /\ FreeOf(mem') = FreeOf(mem) /\ SameTree(mem, mem')
         /\ P!InsertBlocked(k, currentProcess)
         /\ P!Scheduler(ReadyOf(mem), processCount, soft) /\ Faultless
<1>1. PICK n, p : n = insertBlocked(mem, k, p) /\ p = currentProcess
  OBVIOUS
<1>2. /\ Good(mem) /\ processCount \in Nat /\ p \in Pcbs /\ Unqueued(mem, p)
      /\ Len(ActiveOf(mem)) < MaxProc
  BY <1>1, InvFacts
<1>3. Scheduler(n, processCount, soft)
  BY <1>1
<1>4. /\ Good(n) /\ FreeOf(n) = FreeOf(mem) /\ ReadyOf(n) = ReadyOf(mem)
      /\ SameTree(mem, n) /\ Becomes(n.p_semAdd, mem.p_semAdd, p, k)
      /\ WaitersBecome(mem, n, k, Append(WaitersOf(mem)[k], p))
      /\ k \in Range(ActiveOf(mem)) => ActiveOf(n) = ActiveOf(mem)
      /\ k \notin Range(ActiveOf(mem)) => ActiveOf(n) = <<k>> \o ActiveOf(mem)
  BY <1>1, <1>2, Insert
<1>5. /\ Good(mem') /\ FreeOf(mem') = FreeOf(n) /\ SameAsl(n, mem') /\ SameTree(n, mem')
      /\ P!Scheduler(ReadyOf(n), processCount, soft)
      /\ Faultless
  BY <1>2, <1>3, <1>4, SchedulerStep
<1>6. SameTree(mem, mem')
  BY <1>4, <1>5 DEF SameTree
<1>7. P!InsertBlocked(k, p)
  <2>1. WaitersOf(n) = [WaitersOf(mem) EXCEPT ![k] = Append(@, p)]
    <3>1. PICK r : r = Append(WaitersOf(mem)[k], p)
      OBVIOUS
    <3>2. Becomes(WaitersOf(n), WaitersOf(mem), k, r)
      BY <1>2, <1>4, <3>1, WaitersAssigned
    <3> QED  BY <3>1, <3>2 DEF Becomes
  <2>2. WaitersOf(mem') = WaitersOf(n) /\ ActiveOf(mem') = ActiveOf(n) /\ mem'.p_semAdd = n.p_semAdd
    BY <1>5 DEF SameAsl
  <2>3. n.p_semAdd = [mem.p_semAdd EXCEPT ![p] = k]
    BY <1>4 DEF Becomes
  <2>4. ~ (k \notin P!Range(ActiveOf(mem)) /\ Len(ActiveOf(mem)) >= P!MAXPROC)
    <3>1. Len(ActiveOf(mem)) \in Nat
      BY <1>2, ViewFacts, LenProperties
    <3> QED  BY <1>2, <3>1, SameOperators, TableAssumption
  <2>5. ActiveOf(n) = IF k \in P!Range(ActiveOf(mem)) THEN ActiveOf(mem)
                      ELSE <<k>> \o ActiveOf(mem)
    BY <1>4, SameOperators
  <2> QED  BY <2>1, <2>2, <2>3, <2>4, <2>5 DEF P!InsertBlocked
<1> QED  BY <1>1, <1>4, <1>5, <1>6, <1>7 DEF Faultless, Fine

(* PASSEREN.                                                               *)
LEMMA PasserenStep ==
  ASSUME LInv, NEW k \in UserSems, Passeren(k)
  PROVE  Good(mem') /\ P!Passeren(k) /\ Faultless
<1>1. machine = "Running" /\ Running /\ k \in Keys /\ softBlockCount \in Nat /\ Good(mem)
  BY InvFacts DEF Passeren, Running, Keys
<1>2. CASE semValue[k] <= 0 /\ UNCHANGED semValue
           /\ Scheduler(insertBlocked(mem, k, currentProcess), processCount, softBlockCount)
  <2>1. /\ Good(mem') /\ FreeOf(mem') = FreeOf(mem) /\ SameTree(mem, mem')
        /\ P!InsertBlocked(k, currentProcess)
        /\ P!Scheduler(ReadyOf(mem), processCount, softBlockCount) /\ Faultless
    BY <1>1, <1>2, BlockStep
  <2>2. UNCHANGED <<processCount, softBlockCount>>
    BY DEF Passeren
  <2>3. mem'.p_parent = mem.p_parent /\ mem'.p_prio = mem.p_prio
    BY <2>1 DEF SameTree
  <2> QED  BY <1>1, <1>2, <2>1, <2>2, <2>3 DEF P!Passeren, P!tree
<1>3. CASE semValue[k] > 0 /\ semValue' = [semValue EXCEPT ![k] = @ - 1] /\ Continue
           /\ UNCHANGED mem
  <2>1. UNCHANGED <<processCount, softBlockCount>>
    BY DEF Passeren
  <2> QED  BY <1>1, <1>3, <2>1 DEF P!Passeren, P!tree, P!asl, P!Continue, Continue, Faultless, Fine
<1> QED  BY <1>2, <1>3 DEF Passeren

(* CLOCKWAIT.                                                              *)
LEMMA ClockWaitStep ==
  ASSUME LInv, ClockWait
  PROVE  Good(mem') /\ P!ClockWait /\ Faultless
<1>1. /\ semValue[PseudoClock] <= 0 /\ semValue \in [Keys -> Nat] /\ PseudoClock \in Keys
      /\ softBlockCount \in Nat
  BY InvFacts DEF Keys
<1>2. /\ machine = "Running" /\ Running
      /\ softBlockCount' = softBlockCount + 1 /\ softBlockCount < MaxSoftBlock
      /\ softBlockCount' \in Nat
      /\ Scheduler(insertBlocked(mem, PseudoClock, currentProcess), processCount, softBlockCount')
      /\ UNCHANGED <<processCount, semValue>>
  BY <1>1 DEF ClockWait, Running
<1>3. PICK soft : soft = softBlockCount'
  OBVIOUS
<1>4. /\ Good(mem') /\ FreeOf(mem') = FreeOf(mem) /\ SameTree(mem, mem')
      /\ P!InsertBlocked(PseudoClock, currentProcess)
      /\ P!Scheduler(ReadyOf(mem), processCount, soft) /\ Faultless
  BY <1>1, <1>2, <1>3, BlockStep
<1>5. mem'.p_parent = mem.p_parent /\ mem'.p_prio = mem.p_prio
  BY <1>4 DEF SameTree
<1>6. P!SoftBlock(PseudoClock)
  BY <1>1, <1>2, <1>3, <1>4, <1>5 DEF P!SoftBlock, P!tree
<1> QED  BY <1>2, <1>4, <1>6 DEF P!ClockWait

(* YIELD: the running process becomes ready, behind all others.            *)
LEMMA YieldStep ==
  ASSUME LInv, Yield
  PROVE  Good(mem') /\ P!Yield /\ Faultless
<1>1. PICK p, n : p = currentProcess /\ n = list_add_tail(mem, p_list(p), readyQueue)
  OBVIOUS
<1>2. /\ machine = "Running" /\ Running /\ Scheduler(n, processCount, softBlockCount)
      /\ UNCHANGED <<processCount, softBlockCount, semValue>>
  BY <1>1 DEF Yield, Running
<1>3. /\ Good(mem) /\ processCount \in Nat /\ softBlockCount \in Nat
      /\ p \in Pcbs /\ Unqueued(mem, p)
  BY <1>1, <1>2, InvFacts
<1>4. /\ Good(n) /\ ReadyOf(n) = Append(ReadyOf(mem), p)
      /\ FreeOf(n) = FreeOf(mem) /\ SameAsl(mem, n) /\ SameTree(mem, n)
  BY <1>1, <1>3, ReadyAppend
<1>5. /\ Good(mem') /\ FreeOf(mem') = FreeOf(n) /\ SameAsl(n, mem') /\ SameTree(n, mem')
      /\ P!Scheduler(ReadyOf(n), processCount, softBlockCount)
      /\ Faultless
  BY <1>2, <1>3, <1>4, SchedulerStep
<1>6. P!Scheduler(Append(ReadyOf(mem), currentProcess), processCount, softBlockCount)
  BY <1>1, <1>4, <1>5
<1>7. /\ FreeOf(mem') = FreeOf(mem)
      /\ ActiveOf(mem') = ActiveOf(mem) /\ WaitersOf(mem') = WaitersOf(mem)
      /\ mem'.p_semAdd = mem.p_semAdd /\ mem'.p_parent = mem.p_parent
      /\ mem'.p_prio = mem.p_prio
  BY <1>4, <1>5 DEF SameAsl, SameTree
<1> QED  BY <1>2, <1>5, <1>6, <1>7 DEF P!Yield, P!tree, P!asl, Faultless, Fine

(* The local timer.                                                        *)
LEMMA HandlePLTStep ==
  ASSUME LInv, HandlePLT
  PROVE  Good(mem') /\ P!HandlePLT /\ Faultless
<1>1. PICK p, n : p = currentProcess /\ n = insertProcQ(mem, readyQueue, p)
  OBVIOUS
<1>2. /\ machine = "Running" /\ Running /\ Scheduler(n, processCount, softBlockCount)
      /\ UNCHANGED <<processCount, softBlockCount, semValue>>
  BY <1>1 DEF HandlePLT, Running
<1>3. /\ Good(mem) /\ processCount \in Nat /\ softBlockCount \in Nat
      /\ p \in Pcbs /\ Unqueued(mem, p)
  BY <1>1, <1>2, InvFacts
<1>4. /\ Good(n) /\ ReadyOf(n) = InsertProcQ(ReadyOf(mem), mem.p_prio, p)
      /\ FreeOf(n) = FreeOf(mem) /\ SameAsl(mem, n) /\ SameTree(mem, n)
  BY <1>1, <1>3, ReadyInsert
<1>5. /\ Good(mem') /\ FreeOf(mem') = FreeOf(n) /\ SameAsl(n, mem') /\ SameTree(n, mem')
      /\ P!Scheduler(ReadyOf(n), processCount, softBlockCount)
      /\ Faultless
  BY <1>2, <1>3, <1>4, SchedulerStep
<1>6. P!InsertProcQ(ReadyOf(mem), mem.p_prio, currentProcess) = ReadyOf(n)
  BY <1>1, <1>4, SameOperators
<1>7. /\ FreeOf(mem') = FreeOf(mem)
      /\ ActiveOf(mem') = ActiveOf(mem) /\ WaitersOf(mem') = WaitersOf(mem)
      /\ mem'.p_semAdd = mem.p_semAdd /\ mem'.p_parent = mem.p_parent
      /\ mem'.p_prio = mem.p_prio
  BY <1>4, <1>5 DEF SameAsl, SameTree
<1> QED  BY <1>2, <1>5, <1>6, <1>7 DEF P!HandlePLT, P!tree, P!asl, Faultless, Fine

(* A PCB that waits for k is in that queue and in no other.                *)
LEMMA WaitsHere ==
  ASSUME NEW m, Good(m), OneQueue(m), NEW k \in Keys, NEW p \in Range(WaitersOf(m)[k])
  PROVE  /\ p \in Pcbs /\ m.p_semAdd[p] = k /\ p \notin FreeOf(m) /\ p \notin Range(ReadyOf(m))
         /\ \A j \in Keys \ {k} : p \notin Range(WaitersOf(m)[j])
<1>1. p \in Pcbs
  <2>1. PICK q : q = WaitersOf(m)[k]
    OBVIOUS
  <2>2. q \in Seq(Pcbs)
    BY <2>1, ViewFacts
  <2>3. Range(q) \subseteq Pcbs
    BY <2>2, ElementOfSeq, LenProperties DEF Range
  <2> QED  BY <2>1, <2>3
<1>2. None \notin Keys
  BY AddressesAssumption
<1> QED  BY <1>1, <1>2 DEF OneQueue

(* A queue without its only item is empty.                                 *)
LEMMA OnlyOne ==
  ASSUME NEW q \in Seq(Pcbs), NEW K
  PROVE  Without(q, K) = <<>> <=> Range(q) \subseteq K
<1>1. Without(q, K) \in Seq(Pcbs) /\ Range(Without(q, K)) = Range(q) \ K
  BY WithoutLemma
<1>2. Without(q, K) = <<>> <=> Range(Without(q, K)) = {}
  BY <1>1, EmptyQueueLemma
<1> QED  BY <1>1, <1>2

(* VERHOGEN.                                                               *)
LEMMA VerhogenStep ==
  ASSUME LInv, NEW k \in UserSems, Verhogen(k)
  PROVE  Good(mem') /\ P!Verhogen(k) /\ Faultless
<1>1. PICK p, n, w : p = headBlocked(mem, k) /\ n = removeBlocked(mem, k) /\ w = WaitersOf(mem)[k]
  OBVIOUS
<1>2. /\ machine = "Running" /\ k \in Keys /\ Good(mem) /\ OneQueue(mem)
      /\ UNCHANGED <<processCount, softBlockCount, currentProcess, machine>>
  BY InvFacts DEF Verhogen, Running, Keys, Continue
<1>3. Faultless
  BY <1>2 DEF Faultless, Fine
<1>4. /\ w = <<>> => p = None /\ n = mem
      /\ w # <<>> =>
           /\ p = Head(w) /\ p \in Range(w) /\ p \in Pcbs /\ p # None
           /\ Good(n) /\ FreeOf(n) = FreeOf(mem) /\ ReadyOf(n) = ReadyOf(mem)
           /\ SameTree(mem, n) /\ Becomes(n.p_semAdd, mem.p_semAdd, p, None)
           /\ WaitersBecome(mem, n, k, Without(w, {p}))
           /\ ActiveBecomes(mem, n, k, Without(w, {p}))
  BY <1>1, <1>2, RemoveHead
<1>5. w \in Seq(Pcbs)
  BY <1>1, <1>2, ViewFacts
<1>6. CASE p # None
  <2>1. /\ mem' = insertProcQ(n, readyQueue, p) /\ UNCHANGED semValue
    BY <1>1, <1>6 DEF Verhogen
  <2>2. PICK r : r = Without(w, {p})
    OBVIOUS
  <2>3. /\ w # <<>> /\ p = Head(w) /\ p \in Range(w) /\ p \in Pcbs
        /\ Good(n) /\ FreeOf(n) = FreeOf(mem) /\ ReadyOf(n) = ReadyOf(mem)
        /\ SameTree(mem, n) /\ Becomes(n.p_semAdd, mem.p_semAdd, p, None)
        /\ WaitersBecome(mem, n, k, r) /\ ActiveBecomes(mem, n, k, r)
    BY <1>4, <1>6, <2>2
  <2>4. Unqueued(n, p)
    <3>1. /\ p \notin FreeOf(mem) /\ p \notin Range(ReadyOf(mem))
          /\ \A j \in Keys \ {k} : p \notin Range(WaitersOf(mem)[j])
      BY <1>1, <1>2, <2>3, WaitsHere
    <3>2. p \notin Range(r)
      BY <1>5, <2>2, WithoutLemma
    <3> QED  BY <1>2, <2>3, <3>1, <3>2 DEF Unqueued, WaitersBecome
  <2>5. /\ Good(mem') /\ ReadyOf(mem') = InsertProcQ(ReadyOf(n), n.p_prio, p)
        /\ FreeOf(mem') = FreeOf(n) /\ SameAsl(n, mem') /\ SameTree(n, mem')
    <3>1. PICK v : v = insertProcQ(n, readyQueue, p)
      OBVIOUS
    <3>2. /\ Good(v) /\ ReadyOf(v) = InsertProcQ(ReadyOf(n), n.p_prio, p)
          /\ FreeOf(v) = FreeOf(n) /\ SameAsl(n, v) /\ SameTree(n, v)
      BY <2>3, <2>4, <3>1, ReadyInsert
    <3> QED  BY <2>1, <3>1, <3>2
  <2>6. Becomes(WaitersOf(n), WaitersOf(mem), k, r)
    BY <1>2, <2>3, WaitersAssigned
  <2>7. ActiveOf(n) = IF Range(w) \subseteq {p} THEN Without(ActiveOf(mem), {k}) ELSE ActiveOf(mem)
    <3>1. r = <<>> <=> Range(w) \subseteq {p}
      BY <1>5, <2>2, OnlyOne
    <3> QED  BY <2>3, <3>1 DEF ActiveBecomes
  <2>8. n.p_semAdd = [q \in Pcbs |-> IF q \in {p} THEN None ELSE mem.p_semAdd[q]]
    <3>1. mem.p_semAdd \in [Pcbs -> Keys \cup {None}]
      BY <1>2, ViewFacts
    <3> QED  BY <2>3, <3>1 DEF Becomes
  <2>9. P!RemoveBlocked(k, {p})
    <3>1. /\ WaitersOf(mem') = WaitersOf(n) /\ ActiveOf(mem') = ActiveOf(n)
          /\ mem'.p_semAdd = n.p_semAdd
      BY <2>5 DEF SameAsl
    <3>2. WaitersOf(mem') = [WaitersOf(mem) EXCEPT ![k] = P!Without(@, {p})]
      BY <1>1, <2>2, <2>6, <3>1, SameOperators DEF Becomes
    <3>3. ActiveOf(mem') = IF P!Waiters(k) \subseteq {p} THEN P!Without(ActiveOf(mem), {k})
                           ELSE ActiveOf(mem)
      BY <1>1, <2>7, <3>1, SameOperators DEF P!Waiters
    <3> QED  BY <2>8, <3>1, <3>2, <3>3 DEF P!RemoveBlocked
  <2>10. /\ FreeOf(mem') = FreeOf(mem) /\ mem'.p_parent = mem.p_parent /\ mem'.p_prio = mem.p_prio
         /\ ReadyOf(mem') = P!InsertProcQ(ReadyOf(mem), mem.p_prio, p)
    BY <2>3, <2>5, SameOperators DEF SameTree
  <2> QED  BY <1>1, <1>2, <1>3, <2>1, <2>3, <2>5, <2>9, <2>10
             DEF P!Verhogen, P!tree, P!Continue
<1>7. CASE p = None
  <2>1. w = <<>> /\ n = mem
    BY <1>4, <1>7
  <2>2. /\ semValue[k] < MaxValue /\ semValue' = [semValue EXCEPT ![k] = @ + 1] /\ mem' = mem
    BY <1>1, <1>7, <2>1 DEF Verhogen
  <2> QED  BY <1>1, <1>2, <1>3, <2>1, <2>2 DEF P!Verhogen, P!tree, P!asl, P!Continue
<1> QED  BY <1>6, <1>7

(* CREATEPROCESS; the PCB is the first of the free list.                   *)
LEMMA CreateProcessStep ==
  ASSUME LInv, NEW prio \in Prios, CreateProcess(prio)
  PROVE  /\ Good(mem') /\ Faultless
         /\ \E p \in Pcbs : P!CreateProcess(p, prio, FALSE)
<1>1. PICK p, c, a, b, n, r : /\ p = Allocated(mem) /\ c = currentProcess /\ a = allocPcb(mem)
                              /\ b = PutPrio(a, p, prio) /\ n = insertChild(b, c, p)
                              /\ r = insertProcQ(n, readyQueue, p)
  OBVIOUS
<1>2. /\ machine = "Running" /\ Running /\ mem' = r /\ ~list_empty(mem, pcbFree_h)
      /\ processCount' = processCount + 1
      /\ UNCHANGED <<currentProcess, machine, softBlockCount, semValue>>
  BY <1>1 DEF CreateProcess, Running, PutPrio, Continue
<1>3. /\ Good(mem) /\ OneQueue(mem) /\ c \in Pcbs /\ c \notin FreeOf(mem)
      /\ \A x \in FreeOf(mem), q \in Pcbs : mem.p_parent[x] = None /\ mem.p_parent[q] # x
  BY <1>1, <1>2, InvFacts
<1>4. FreeOf(mem) # {} /\ p \in FreeOf(mem) /\ p \in Pcbs
  BY <1>1, <1>2, <1>3, FreeHead
<1>5. /\ Good(a) /\ FreeOf(a) = FreeOf(mem) \ {p} /\ ReadyOf(a) = ReadyOf(mem)
      /\ ActiveOf(a) = ActiveOf(mem) /\ WaitersOf(a) = WaitersOf(mem)
      /\ a.p_parent = mem.p_parent
      /\ Becomes(a.p_semAdd, mem.p_semAdd, p, None) /\ Becomes(a.p_prio, mem.p_prio, p, 0)
  <2>1. mem.p_parent[p] = None /\ \A x \in Pcbs : mem.p_parent[x] # p
    BY <1>3, <1>4
  <2> QED  BY <1>1, <1>3, <1>4, <2>1, AllocPcb
<1>6. /\ SameLinks(a, b) /\ Becomes(b.p_prio, a.p_prio, p, prio)
      /\ b.p_parent = a.p_parent /\ b.p_semAdd = a.p_semAdd /\ b.s_key = a.s_key
  <2>1. a \in Memories
    BY <1>5, GoodHeads
  <2> QED  BY <1>1, <1>4, <2>1, SetPrio
<1>7. /\ Good(b) /\ FreeOf(b) = FreeOf(a) /\ ReadyOf(b) = ReadyOf(a)
      /\ ActiveOf(b) = ActiveOf(a) /\ WaitersOf(b) = WaitersOf(a)
  BY <1>5, <1>6, FieldsView DEF SameLinks
<1>8. p_child(c) \in InUse(b)
  BY <1>3, <1>5, <1>7 DEF Good, Tables
<1>9. /\ Good(n) /\ FreeOf(n) = FreeOf(b) /\ ReadyOf(n) = ReadyOf(b)
      /\ SameAsl(b, n) /\ n.p_prio = b.p_prio /\ Becomes(n.p_parent, b.p_parent, p, c)
  <2>1. b.p_parent[p] = None
    BY <1>3, <1>4, <1>5, <1>6
  <2> QED  BY <1>1, <1>3, <1>4, <1>7, <1>8, <2>1, InsertChild
<1>10. Unqueued(n, p)
  <2>1. p \notin Range(ReadyOf(mem)) /\ \A k \in Keys : p \notin Range(WaitersOf(mem)[k])
    BY <1>3, <1>4, WaitsHere DEF OneQueue
  <2> QED  BY <1>5, <1>7, <1>9, <2>1 DEF Unqueued, SameAsl
<1>11. /\ Good(r) /\ ReadyOf(r) = InsertProcQ(ReadyOf(n), n.p_prio, p)
       /\ FreeOf(r) = FreeOf(n) /\ SameAsl(n, r) /\ SameTree(n, r)
  BY <1>1, <1>4, <1>9, <1>10, ReadyInsert
<1>12. /\ FreeOf(mem') = FreeOf(mem) \ {p}
       /\ ActiveOf(mem') = ActiveOf(mem) /\ WaitersOf(mem') = WaitersOf(mem)
  BY <1>2, <1>5, <1>7, <1>9, <1>11 DEF SameAsl
<1>13. /\ mem'.p_prio = [mem.p_prio EXCEPT ![p] = prio]
       /\ mem'.p_parent = [mem.p_parent EXCEPT ![p] = currentProcess]
       /\ mem'.p_semAdd = [mem.p_semAdd EXCEPT ![p] = None]
  <2>1. b.p_prio = [mem.p_prio EXCEPT ![p] = prio]
    BY <1>5, <1>6 DEF Becomes
  <2> QED  BY <1>1, <1>2, <1>5, <1>6, <1>9, <1>11, <2>1 DEF Becomes, SameAsl, SameTree
<1>14. ReadyOf(mem') = P!InsertProcQ(ReadyOf(mem), mem'.p_prio, p)
  BY <1>2, <1>5, <1>7, <1>9, <1>11, SameOperators DEF SameTree
<1>15. P!CreateProcess(p, prio, FALSE)
  BY <1>2, <1>4, <1>12, <1>13, <1>14 DEF P!CreateProcess, P!Continue
<1> QED  BY <1>2, <1>4, <1>11, <1>15 DEF Faultless, Fine

(* The interval timer.                                                     *)
LEMMA HandleIntervalClockStep ==
  ASSUME LInv, HandleIntervalClock
  PROVE  Good(mem') /\ P!HandleIntervalClock /\ Faultless
<1>1. PICK m, w, soft : /\ m = WakeAll(mem) /\ w = WaitersOf(mem)[PseudoClock]
                        /\ soft = softBlockCount'
  OBVIOUS
<1>2. Good(mem) /\ OneQueue(mem) /\ PseudoClock \in Keys /\ processCount \in Nat
  BY InvFacts DEF Keys
<1>3. soft = softBlockCount - Len(w)
  <2>1. Len(<<>>) = 0
    BY EmptySeq
  <2> QED  BY <1>1, <1>2, <2>1 DEF HandleIntervalClock, WaitersOf
<1>4. /\ machine \in {"Running", "Waiting"} /\ UNCHANGED <<processCount, semValue>>
      /\ currentProcess # None => mem' = m /\ UNCHANGED <<currentProcess, machine>>
      /\ currentProcess = None => Scheduler(m, processCount, soft)
  BY <1>1 DEF HandleIntervalClock, Continue
<1>5. w \in Seq(Pcbs) /\ IsInjective(w)
  BY <1>1, <1>2, ViewFacts
<1>6. soft \in Nat
  <2>1. P!SoftBlocked = Range(w)
    <3>1. P!SoftKeys = {PseudoClock}
      BY DEF P!SoftKeys
    <3>2. \A p \in Pcbs : p \in Range(w) <=> mem.p_semAdd[p] = PseudoClock
      BY <1>1, <1>2 DEF OneQueue
    <3>3. Range(w) \subseteq Pcbs
      BY <1>1, <1>2, WaitsHere
    <3> QED  BY <3>1, <3>2, <3>3 DEF P!SoftBlocked
  <2>2. Cardinality(Range(w)) = Len(w)
    BY <1>5, QueueLength
  <2>3. softBlockCount = Len(w)
    BY <2>1, <2>2, SameOperators DEF LInv, P!ContractInv, P!SoftBlockExact
  <2>4. Len(w) \in Nat
    BY <1>5, LenProperties
  <2> QED  BY <1>3, <2>3, <2>4
<1>7. /\ Good(m) /\ FreeOf(m) = FreeOf(mem) /\ SameTree(mem, m)
      /\ ReadyOf(m) \in Wakeups(ReadyOf(mem), mem.p_prio, w)
      /\ WaitersBecome(mem, m, PseudoClock, <<>>) /\ ActiveBecomes(mem, m, PseudoClock, <<>>)
      /\ \A q \in Pcbs : m.p_semAdd[q] = IF q \in Range(w) THEN None ELSE mem.p_semAdd[q]
  <2>1. Waking(mem, m, WaitersOf(mem)[PseudoClock], <<>>)
    BY <1>1, <1>2, WakeAllLemma
  <2> QED  BY <1>1, <2>1 DEF Waking
<1>8. /\ Good(mem') /\ FreeOf(mem') = FreeOf(m) /\ SameAsl(m, mem') /\ SameTree(m, mem')
      /\ P!Resume(ReadyOf(m), soft) /\ Faultless
  <2>1. CASE currentProcess # None
    BY <1>4, <1>7, <2>1 DEF P!Resume, P!Continue, SameAsl, SameTree, Faultless, Fine
  <2>2. CASE currentProcess = None
    <3>1. /\ Good(mem') /\ FreeOf(mem') = FreeOf(m) /\ SameAsl(m, mem') /\ SameTree(m, mem')
          /\ P!Scheduler(ReadyOf(m), processCount, soft)
          /\ Faultless
      BY <1>2, <1>4, <1>6, <1>7, <2>2, SchedulerStep
    <3> QED  BY <2>2, <3>1 DEF P!Resume, Faultless, Fine
  <2> QED  BY <2>1, <2>2
<1>9. P!RemoveBlocked(PseudoClock, P!Range(w))
  <2>1. Without(w, Range(w)) = <<>>
    BY <1>5, WithoutAll
  <2>2. Becomes(WaitersOf(m), WaitersOf(mem), PseudoClock, <<>>)
    BY <1>2, <1>7, WaitersAssigned
  <2>3. WaitersOf(mem') = [WaitersOf(mem) EXCEPT ![PseudoClock] = P!Without(@, P!Range(w))]
    BY <1>1, <1>8, <2>1, <2>2, SameOperators DEF Becomes, SameAsl
  <2>4. ActiveOf(mem') = P!Without(ActiveOf(mem), {PseudoClock})
    BY <1>7, <1>8, SameOperators DEF ActiveBecomes, SameAsl
  <2>5. P!Waiters(PseudoClock) = P!Range(w)
    BY <1>1 DEF P!Waiters
  <2>6. mem'.p_semAdd = [q \in Pcbs |-> IF q \in P!Range(w) THEN None ELSE mem.p_semAdd[q]]
    <3>1. m.p_semAdd \in [Pcbs -> Keys \cup {None}]
      BY <1>7, ViewFacts
    <3> QED  BY <1>7, <1>8, <3>1, SameOperators DEF SameAsl
  <2> QED  BY <2>3, <2>4, <2>5, <2>6 DEF P!RemoveBlocked
<1>10. /\ FreeOf(mem') = FreeOf(mem) /\ mem'.p_parent = mem.p_parent /\ mem'.p_prio = mem.p_prio
  BY <1>7, <1>8 DEF SameTree
<1>11. ReadyOf(m) \in P!Wakeups(ReadyOf(mem), mem.p_prio, w)
  BY <1>7, SameOperators
<1> QED
  BY <1>1, <1>3, <1>4, <1>8, <1>9, <1>10, <1>11
     DEF P!HandleIntervalClock, P!Interruptible, P!tree
-----------------------------------------------------------------------------
(* t and its descendants are what killProcess(t) kills: t's parent is not  *)
(* among them, since every process descends from the first.                *)
LEMMA SubtreeIsKillable ==
  ASSUME LInv, NEW t \in Pcbs, t \notin FreeOf(mem), NEW S, S = P!Subtree(t)
  PROVE  Killable(mem, t, S) /\ Least(mem, t, S)
<1>1. /\ Good(mem) /\ OneQueue(mem) /\ P!IInv /\ P!OneTree /\ FreeOf(mem) \subseteq Pcbs
      /\ None \notin Pcbs
  BY InvFacts, ViewFacts, AddressesAssumption DEF LInv
<1>2. t \in P!Live
  BY DEF P!Live
<1>3. t \in S /\ S \subseteq P!Live /\ \A q \in Pcbs : mem.p_parent[q] \in S => q \in S
  BY <1>1, <1>2, NucleusAssumptions, P!SubtreeLemma DEF P!IInv
<1>4. Least(mem, t, S)
  BY DEF P!Subtree, Least
<1>5. S \subseteq Pcbs \ FreeOf(mem)
  BY <1>3 DEF P!Live
<1>6. \A q \in S : q = t \/ mem.p_parent[q] \in S
  <2> DEFINE T == {q \in S : q = t \/ mem.p_parent[q] \in S}
  <2>1. T \in SUBSET Pcbs /\ t \in T
    BY <1>3, <1>5
  <2>2. \A q \in Pcbs : mem.p_parent[q] \in T => q \in T
    BY <1>3
  <2>3. S \subseteq T
    BY <1>4, <2>1, <2>2 DEF Least
  <2> QED  BY <2>3
<1>7. ASSUME mem.p_parent[t] \in S PROVE FALSE
  <2>1. PICK r \in P!Live : mem.p_parent[r] = None /\ P!Subtree(r) = P!Live
    BY <1>1, <1>2 DEF P!OneTree
  <2>2. PICK T : T = P!Live \ S
    OBVIOUS
  <2>3. T \in SUBSET Pcbs /\ r \in T
    <3>1. r \notin S
      BY <1>1, <1>5, <1>6, <1>7, <2>1
    <3> QED  BY <2>1, <2>2, <3>1 DEF P!Live
  <2>4. \A q \in Pcbs : mem.p_parent[q] \in T => q \in T
    <3>1. \A q \in Pcbs : mem.p_parent[q] # None => q \in P!Live
      BY <1>1 DEF P!IInv, P!ParentsInv
    <3> QED  BY <1>1, <1>6, <1>7, <2>2, <2>3, <3>1
  <2>5. P!Closed(r, T)
    BY <2>3, <2>4 DEF P!Closed
  <2>6. P!Subtree(r) \subseteq T
    BY <2>3, <2>5, NucleusAssumptions, P!SubtreeInClosed
  <2> QED  BY <1>2, <1>3, <2>1, <2>2, <2>6
<1> QED  BY <1>1, <1>3, <1>4, <1>5, <1>7 DEF Killable

(* What killProcess leaves behind, but for the dispatch that may follow.   *)
LEMMA KillIsStep ==
  ASSUME LInv, NEW t \in Pcbs, t \notin FreeOf(mem), NEW S, S = P!Subtree(t),
         NEW s, s = Killed(t)
  PROVE  /\ Good(s.mem) /\ FreeOf(s.mem) = FreeOf(mem) \cup S
         /\ ReadyOf(s.mem) = P!Without(ReadyOf(mem), S)
         /\ s.count \in Nat /\ s.soft \in Nat /\ P!MayKill(S)
         /\ processCount' = s.count /\ softBlockCount' = s.soft
              /\ SameAsl(s.mem, mem') /\ SameTree(s.mem, mem') /\ FreeOf(mem') = FreeOf(s.mem)
            => P!KillProcess(S)
<1>1. Good(mem) /\ OneQueue(mem) /\ P!IInv /\ processCount \in Nat /\ softBlockCount \in Nat
  BY InvFacts DEF LInv
<1>2. Killable(mem, t, S) /\ Least(mem, t, S)
  BY SubtreeIsKillable
<1>3. Killing(mem, softBlockCount, processCount, t, S, S, s)
  <2>1. PICK soft, count : soft = softBlockCount /\ count = processCount
    OBVIOUS
  <2>2. s = killProcess(mem, soft, count, t) /\ soft \in Int /\ count \in Int
    BY <1>1, <2>1 DEF Killed
  <2>3. Killing(mem, soft, count, t, S, S, s)
    BY <1>2, <2>2, KillAll
  <2> QED  BY <2>1, <2>3
<1>4. /\ Good(s.mem) /\ s.mem.p_prio = mem.p_prio /\ FreeOf(s.mem) = FreeOf(mem) \cup S
      /\ \A q \in Pcbs : s.mem.p_semAdd[q] = IF q \in S THEN None ELSE mem.p_semAdd[q]
      /\ ReadyOf(s.mem) = Without(ReadyOf(mem), S)
      /\ \A k \in Keys : WaitersOf(s.mem)[k] = Without(WaitersOf(mem)[k], S)
      /\ ActiveOf(s.mem)
           = Without(ActiveOf(mem), {k \in Keys : Range(WaitersOf(mem)[k]) \subseteq S})
      /\ s.soft = softBlockCount - Cardinality({q \in S : mem.p_semAdd[q] = PseudoClock})
      /\ s.count = processCount - Cardinality(S)
  BY <1>3 DEF Killing, Unlinked
<1>5. \A q \in Pcbs : s.mem.p_parent[q] = IF q \in S THEN None ELSE mem.p_parent[q]
  <2>1. Range(s.calls) \subseteq S \ S
    BY <1>3 DEF Killing
  <2>2. S \cup (Range(s.calls) \ {t}) = S
    BY <2>1
  <2>3. \A q \in Pcbs : s.mem.p_parent[q] = IF q \in S \cup (Range(s.calls) \ {t}) THEN None
                                            ELSE mem.p_parent[q]
    BY <1>3 DEF Killing
  <2> QED  BY <2>2, <2>3
<1>6. s.count \in Nat
  <2>1. S \subseteq P!Live
    BY <1>2 DEF Killable, P!Live
  <2>2. P!Live \subseteq Pcbs
    BY DEF P!Live
  <2>3. processCount = Cardinality(P!Live)
    BY <1>1, SameOperators DEF P!IInv, P!ProcessCountInv
  <2>4. IsFiniteSet(P!Live) /\ IsFiniteSet(S) /\ Cardinality(S) \in Nat
    BY <2>1, <2>2, DeadFinite
  <2>5. Cardinality(S) <= Cardinality(P!Live)
    BY <2>1, <2>4, FS_Subset
  <2> QED  BY <1>1, <1>4, <2>3, <2>4, <2>5
<1>7. s.soft \in Nat
  <2> DEFINE D == {q \in S : mem.p_semAdd[q] = PseudoClock}
  <2>1. D \subseteq P!SoftBlocked /\ P!SoftBlocked \subseteq Pcbs
    BY <1>2 DEF P!SoftBlocked, P!SoftKeys, Killable
  <2>2. softBlockCount = Cardinality(P!SoftBlocked)
    BY SameOperators DEF LInv, P!ContractInv, P!SoftBlockExact
  <2>3. IsFiniteSet(P!SoftBlocked) /\ D \subseteq Pcbs
    BY <2>1, DeadFinite
  <2>4. Cardinality(D) \in Nat
    BY <2>3, DeadFinite
  <2>5. Cardinality(D) <= Cardinality(P!SoftBlocked)
    BY <2>1, <2>3, FS_Subset
  <2> QED  BY <1>1, <1>4, <2>2, <2>4, <2>5
<1>8. P!MayKill(S)
  BY DEF P!MayKill
<1>9. ReadyOf(s.mem) = P!Without(ReadyOf(mem), S)
  BY <1>4, SameOperators
<1>10. ASSUME processCount' = s.count, softBlockCount' = s.soft, SameAsl(s.mem, mem'),
              SameTree(s.mem, mem'), FreeOf(mem') = FreeOf(s.mem)
       PROVE  P!KillProcess(S)
  <2>1. /\ mem'.p_parent = s.mem.p_parent /\ mem'.p_semAdd = s.mem.p_semAdd
        /\ WaitersOf(mem') = WaitersOf(s.mem) /\ ActiveOf(mem') = ActiveOf(s.mem)
        /\ mem'.p_prio = mem.p_prio
    BY <1>4, <1>10 DEF SameAsl, SameTree
  <2>2. /\ s.mem.p_semAdd \in [Pcbs -> Keys \cup {None}]
        /\ s.mem.p_parent \in [Pcbs -> Pcbs \cup {None}]
        /\ WaitersOf(s.mem) \in [Keys -> Seq(Pcbs)]
    BY <1>4, ViewFacts, AslFacts
  <2>3. mem'.p_parent = [q \in Pcbs |-> IF q \in S THEN None ELSE mem.p_parent[q]]
    BY <1>5, <2>1, <2>2
  <2>4. mem'.p_semAdd = [q \in Pcbs |-> IF q \in S THEN None ELSE mem.p_semAdd[q]]
    BY <1>4, <2>1, <2>2
  <2>5. WaitersOf(mem') = [k \in P!Keys |-> P!Without(WaitersOf(mem)[k], S)]
    BY <1>4, <2>1, <2>2, SameOperators
  <2>6. ActiveOf(mem') = P!Without(ActiveOf(mem), {k \in P!Keys : P!Waiters(k) \subseteq S})
    BY <1>4, <2>1, SameOperators DEF P!Waiters
  <2>7. /\ processCount' = processCount - P!Cardinality(S)
        /\ softBlockCount'
             = softBlockCount - P!Cardinality({q \in S : mem.p_semAdd[q] = PseudoClock})
    BY <1>4, <1>10, SameOperators
  <2>8. FreeOf(mem') = FreeOf(mem) \cup S
    BY <1>4, <1>10
  <2> QED  BY <2>1, <2>3, <2>4, <2>5, <2>6, <2>7, <2>8 DEF P!KillProcess
<1> QED  BY <1>4, <1>6, <1>7, <1>8, <1>9, <1>10

(* TERMPROCESS of the caller.                                              *)
LEMMA TermSelfStep ==
  ASSUME LInv, TermSelf
  PROVE  Good(mem') /\ P!TermSelf /\ Faultless
<1>1. PICK t, s, S : t = currentProcess /\ s = Killed(t) /\ S = P!Subtree(t)
  OBVIOUS
<1>2. /\ machine = "Running" /\ Running /\ processCount' = s.count /\ softBlockCount' = s.soft
      /\ Scheduler(s.mem, s.count, s.soft) /\ UNCHANGED semValue
  BY <1>1 DEF TermSelf, Running
<1>3. t \in Pcbs /\ t \notin FreeOf(mem)
  BY <1>1, <1>2, InvFacts
<1>4. /\ Good(s.mem) /\ FreeOf(s.mem) = FreeOf(mem) \cup S
      /\ ReadyOf(s.mem) = P!Without(ReadyOf(mem), S)
      /\ s.count \in Nat /\ s.soft \in Nat /\ P!MayKill(S)
      /\ processCount' = s.count /\ softBlockCount' = s.soft
           /\ SameAsl(s.mem, mem') /\ SameTree(s.mem, mem') /\ FreeOf(mem') = FreeOf(s.mem)
         => P!KillProcess(S)
  BY <1>1, <1>3, KillIsStep
<1>5. /\ Good(mem') /\ FreeOf(mem') = FreeOf(s.mem) /\ SameAsl(s.mem, mem')
      /\ SameTree(s.mem, mem') /\ P!Scheduler(ReadyOf(s.mem), s.count, s.soft)
      /\ Faultless
  <2>1. PICK m, count, soft : m = s.mem /\ count = s.count /\ soft = s.soft
    OBVIOUS
  <2>2. Good(m) /\ count \in Nat /\ soft \in Nat /\ Scheduler(m, count, soft)
    BY <1>2, <1>4, <2>1
  <2>3. /\ Good(mem') /\ FreeOf(mem') = FreeOf(m) /\ SameAsl(m, mem') /\ SameTree(m, mem')
        /\ P!Scheduler(ReadyOf(m), count, soft)
        /\ Faultless
    BY <2>2, SchedulerStep
  <2> QED  BY <2>1, <2>3
<1>6. P!KillProcess(S)
  BY <1>2, <1>4, <1>5
<1>7. P!Scheduler(P!Without(ReadyOf(mem), S), processCount', softBlockCount')
  BY <1>2, <1>4, <1>5
<1> QED  BY <1>1, <1>2, <1>4, <1>5, <1>6, <1>7 DEF P!TermSelf, Faultless, Fine

(* TERMPROCESS of another process, or of one that is not found.            *)
LEMMA TermProcessStep ==
  ASSUME LInv, NEW t \in Pcbs \cup {None}, TermProcess(t)
  PROVE  /\ Good(mem')
         /\ (t \in Pcbs /\ P!TermProcess(t)) \/ P!TermProcessLost
         /\ machine' = "Zombie" <=> currentProcess' \in FreeOf(mem')
<1>1. /\ machine = "Running" /\ Running /\ t # currentProcess
      /\ UNCHANGED <<currentProcess, semValue>>
  BY DEF TermProcess, Running
<1>2. /\ Good(mem) /\ OneQueue(mem) /\ currentProcess \in Pcbs /\ currentProcess \notin FreeOf(mem)
      /\ FreeOf(mem) \subseteq Pcbs
  BY <1>1, InvFacts, ViewFacts
<1>3. None # Lost /\ Lost \notin Pcbs /\ None \notin Pcbs
  BY AddressesAssumption, TableAssumption DEF Lost, Pcbs
<1>4. findProcess(mem, t) = IF t \in Range(ReadyOf(mem)) THEN t
                            ELSE IF ActiveOf(mem) = <<>> THEN None
                            ELSE IF t \in Range(WaitersOf(mem)[Head(ActiveOf(mem))]) THEN t
                            ELSE Lost
  <2>1. /\ findBlockedPcb(mem, t) = IF ActiveOf(mem) = <<>> THEN None
                                    ELSE IF t \in Range(WaitersOf(mem)[Head(ActiveOf(mem))]) THEN t
                                    ELSE Lost
        /\ Contains(ItemsOf(mem, readyQueue), t) <=> t \in Range(ReadyOf(mem))
    BY <1>2, FindBlocked
  <2> QED  BY <1>1, <2>1 DEF findProcess
<1>5. CASE findProcess(mem, t) = Lost /\ machine' = "WildPidSearch"
           /\ UNCHANGED <<mem, processCount, softBlockCount>>
  <2>1. ActiveOf(mem) # <<>>
    BY <1>3, <1>4, <1>5
  <2>2. P!TermProcessLost
    BY <1>1, <1>5, <2>1 DEF P!TermProcessLost, P!Fault, P!tree, P!asl
  <2>3. Good(mem') /\ currentProcess' \notin FreeOf(mem') /\ machine' # "Zombie"
    BY <1>1, <1>2, <1>5
  <2> QED  BY <2>2, <2>3
<1>6. ASSUME NEW s, s = Killed(t), t # None, findProcess(mem, t) = t, mem' = s.mem,
             processCount' = s.count, softBlockCount' = s.soft,
             machine' = IF Contains(ItemsOf(s.mem, pcbFree_h), currentProcess)
                        THEN "Zombie" ELSE machine
      PROVE  /\ Good(mem')
             /\ t \in Pcbs /\ P!TermProcess(t)
             /\ machine' = "Zombie" <=> currentProcess' \in FreeOf(mem')
  <2>1. t \in Pcbs
    BY <1>6
  <2>2. t \in Range(ReadyOf(mem))
          \/ (ActiveOf(mem) # <<>> /\ t \in Range(WaitersOf(mem)[Head(ActiveOf(mem))]))
    BY <1>3, <1>4, <1>6, <2>1
  <2>3. t \notin FreeOf(mem)
    <3>1. CASE t \in Range(ReadyOf(mem))
      BY <1>2, <3>1 DEF OneQueue
    <3>2. CASE ActiveOf(mem) # <<>> /\ t \in Range(WaitersOf(mem)[Head(ActiveOf(mem))])
      <4>1. ActiveOf(mem) \in Seq(Keys)
        BY <1>2, AslFacts
      <4>2. PICK k \in Keys : k = Head(ActiveOf(mem))
        BY <3>2, <4>1
      <4> QED  BY <1>2, <3>2, <4>2, WaitsHere
    <3> QED  BY <2>2, <3>1, <3>2
  <2>4. PICK S : S = P!Subtree(t)
    OBVIOUS
  <2>5. /\ Good(s.mem) /\ FreeOf(s.mem) = FreeOf(mem) \cup S
        /\ ReadyOf(s.mem) = P!Without(ReadyOf(mem), S)
        /\ s.count \in Nat /\ s.soft \in Nat /\ P!MayKill(S)
        /\ processCount' = s.count /\ softBlockCount' = s.soft
             /\ SameAsl(s.mem, mem') /\ SameTree(s.mem, mem') /\ FreeOf(mem') = FreeOf(s.mem)
           => P!KillProcess(S)
    BY <1>6, <2>1, <2>3, <2>4, KillIsStep
  <2>6. P!KillProcess(S)
    BY <1>6, <2>5 DEF SameAsl, SameTree
  <2>7. Contains(ItemsOf(s.mem, pcbFree_h), currentProcess) <=> currentProcess \in S
    <3>1. Contains(ItemsOf(s.mem, pcbFree_h), currentProcess) <=> currentProcess \in FreeOf(s.mem)
      BY <2>5, FindBlocked
    <3> QED  BY <1>2, <2>5, <3>1
  <2>8. P!FindProcess(t)
    BY <2>2, SameOperators DEF P!FindProcess, P!Ready, P!FirstSearched, P!Waiters
  <2>9. t \in P!Live \ {currentProcess}
    BY <1>1, <2>1, <2>3 DEF P!Live
  <2>10. P!TermProcess(t)
    BY <1>1, <1>6, <2>4, <2>5, <2>6, <2>7, <2>8, <2>9 DEF P!TermProcess
  <2>11. machine' = "Zombie" <=> currentProcess' \in FreeOf(mem')
    BY <1>1, <1>2, <1>6, <2>5, <2>7
  <2> QED  BY <1>6, <2>1, <2>5, <2>10, <2>11
<1> QED  BY <1>5, <1>6 DEF TermProcess
-----------------------------------------------------------------------------
(* A handler's step is a step of Nucleus, and leaves good lists.           *)
LEMMA StepIsNucleus ==
  ASSUME LInv, [Next]_vars
  PROVE  /\ Good(mem') /\ [P!Next]_(P!vars)
         /\ machine' \notin Fine => (machine' = "Zombie" <=> currentProcess' \in FreeOf(mem'))
<1>0. PseudoClock \in Keys /\ FALSE \in BOOLEAN
  BY DEF Keys
<1>1. ASSUME NEW prio \in Prios, CreateProcess(prio)
      PROVE  Good(mem') /\ P!Next /\ Faultless
  <2>1. PICK p \in Pcbs : P!CreateProcess(p, prio, FALSE)
    BY <1>1, CreateProcessStep
  <2>2. P!Next
    BY <1>0, <2>1 DEF P!Next, P!SystemCall
  <2> QED  BY <1>1, <2>2, CreateProcessStep
<1>2. CASE TermSelf
  BY <1>2, TermSelfStep DEF P!Next, P!SystemCall, Faultless, Fine
<1>3. ASSUME NEW t \in Pcbs \cup {None}, TermProcess(t)
      PROVE  /\ Good(mem') /\ P!Next
             /\ machine' = "Zombie" <=> currentProcess' \in FreeOf(mem')
  <2>1. (t \in Pcbs /\ P!TermProcess(t)) \/ P!TermProcessLost
    BY <1>3, TermProcessStep
  <2>2. P!Next
    BY <2>1 DEF P!Next, P!SystemCall
  <2> QED  BY <1>3, <2>2, TermProcessStep
<1>4. ASSUME NEW k \in UserSems, Passeren(k)
      PROVE  Good(mem') /\ P!Next /\ Faultless
  BY <1>4, PasserenStep DEF P!Next, P!SystemCall
<1>5. ASSUME NEW k \in UserSems, Verhogen(k)
      PROVE  Good(mem') /\ P!Next /\ Faultless
  BY <1>5, VerhogenStep DEF P!Next, P!SystemCall
<1>6. CASE ClockWait
  BY <1>6, ClockWaitStep DEF P!Next, P!SystemCall, Faultless, Fine
<1>7. CASE Yield
  BY <1>7, YieldStep DEF P!Next, P!SystemCall, Faultless, Fine
<1>8. CASE HandlePLT
  BY <1>8, HandlePLTStep DEF P!Next, P!Interrupt, Faultless, Fine
<1>9. CASE HandleIntervalClock
  BY <1>9, HandleIntervalClockStep DEF P!Next, P!Interrupt, Faultless, Fine
<1>10. CASE UNCHANGED vars
  <2>1. Good(mem) /\ (machine = "Zombie" <=> currentProcess \in FreeOf(mem))
    BY DEF LInv
  <2>2. UNCHANGED P!vars
    BY <1>10 DEF vars, P!vars, P!tree, P!asl
  <2> QED  BY <1>10, <2>1, <2>2 DEF vars
<1> QED
  BY <1>1, <1>2, <1>3, <1>4, <1>5, <1>6, <1>7, <1>8, <1>9, <1>10 DEF Next, Faultless, Fine
-----------------------------------------------------------------------------
(* Nucleus' invariants of the next state, and with them all of LInv.       *)
LEMMA LInvStep == ASSUME LInv, [Next]_vars PROVE LInv'
<1>1. /\ Good(mem') /\ [P!Next]_(P!vars)
      /\ machine' \notin Fine => (machine' = "Zombie" <=> currentProcess' \in FreeOf(mem'))
  BY StepIsNucleus
<1>2. P!IInv /\ P!OneTree /\ P!ContractInv /\ P!Contract
  BY DEF LInv, P!Contract
<1>3. P!IInv'
  BY <1>1, <1>2, NucleusAssumptions, P!NextInv
<1>4. P!OneTree'
  BY <1>1, <1>2, <1>3, NucleusAssumptions, P!NextTree
<1>5. P!ContractInv'
  BY <1>1, <1>2, <1>3, NucleusAssumptions, P!NextContract
<1>6. machine' = "Zombie" <=> currentProcess' \in FreeOf(mem')
  <2>1. CASE machine' \notin Fine
    BY <1>1, <2>1
  <2>2. CASE machine' \in Fine
    <3>1. FreeOf(mem') \subseteq Pcbs /\ None \notin Pcbs
      BY <1>1, ViewFacts, AddressesAssumption
    <3>2. currentProcess' = None \/ currentProcess' \notin FreeOf(mem')
      BY <1>3, <2>2 DEF P!IInv, P!CpuInv, P!Outcomes, P!Live, Fine
    <3>3. machine' # "Zombie"
      BY <2>2 DEF Fine
    <3> QED  BY <3>1, <3>2, <3>3
  <2> QED  BY <2>1, <2>2
<1> QED  BY <1>1, <1>3, <1>4, <1>5, <1>6 DEF LInv

(* The first state.                                                        *)
LEMMA LInvInit == ASSUME Init PROVE LInv /\ P!Init
<1>1. /\ Good(mem) /\ currentProcess \in Pcbs /\ FreeOf(mem) = Pcbs \ {currentProcess}
      /\ ReadyOf(mem) = <<>> /\ ActiveOf(mem) = <<>>
      /\ WaitersOf(mem) = [k \in Keys |-> <<>>]
      /\ mem.p_parent = [p \in Pcbs |-> None] /\ mem.p_semAdd = [p \in Pcbs |-> None]
      /\ mem.p_prio = [p \in Pcbs |-> 0]
  BY InitLemma
<1>2. /\ processCount = 1 /\ softBlockCount = 0 /\ semValue \in [Keys -> {0, 1}]
      /\ semValue[PseudoClock] = 0 /\ machine = "Running"
  BY DEF Init
<1>3. P!Init
  BY <1>1, <1>2, SameOperators DEF P!Init, P!SoftKeys
<1>4. P!IInv
  BY <1>3, NucleusAssumptions, P!InitInv
<1>5. P!OneTree
  BY <1>3, <1>4, NucleusAssumptions, P!InitTree
<1>6. P!ContractInv
  BY <1>3, NucleusAssumptions, P!InitContract
<1> QED  BY <1>1, <1>2, <1>3, <1>4, <1>5, <1>6 DEF LInv

(* The inductive invariant: good lists that stand for a state of Nucleus   *)
(* whose programs keep the contract.                                       *)
THEOREM LinksInvariant == Spec => []LInv
<1>1. Init => LInv
  BY LInvInit
<1>2. LInv /\ [Next]_vars => LInv'
  BY LInvStep
<1> QED  BY <1>1, <1>2, PTL DEF Spec
-----------------------------------------------------------------------------
(* Contains, as a membership.                                              *)
LEMMA ContainsRange ==
  ASSUME NEW q \in Seq(Pcbs), NEW p
  PROVE  Contains(q, p) <=> p \in Range(q)
<1>1. DOMAIN q = 1..Len(q)
  BY LenProperties
<1> QED  BY <1>1 DEF Contains, Range

(* What LInv says of the lists.                                            *)
LEMMA LInvLinked == ASSUME LInv PROVE WellLinked
<1>1. Linked(mem) /\ Tables(mem) /\ mem \in Memories
  BY DEF LInv, Good, Linked
<1>2. Sound(mem)
  BY <1>1, MemoryFacts DEF Linked
<1>3. Sentinels \ InUse(mem) \subseteq {"p_child"} \X Pcbs
  BY <1>1 DEF Tables, Sentinels
<1>4. \A h \in InUse(mem) : IsList(mem, h, Chain(Kind(h), ItemsOf(mem, h)))
  BY <1>1 DEF Linked
<1> QED  BY <1>2, <1>3, <1>4 DEF WellLinked

(* LInv has the parts of the three invariants of the runs.                 *)
LEMMA LInvChildren == ASSUME LInv PROVE ChildrenAgree
<1> SUFFICES ASSUME NEW p \in Pcbs, mem.next[p_child(p)] # None
             PROVE  /\ ToSet(ItemsOf(mem, p_child(p))) = {q \in Pcbs : mem.p_parent[q] = p}
                    /\ p \in FreeOf(mem) => emptyChild(mem, p) /\ mem.p_parent[p] = None
  BY DEF ChildrenAgree
<1>1. Good(mem) /\ Linked(mem) /\ Tables(mem)
  BY DEF LInv, Good
<1>2. p_child(p) \in InUse(mem)
  BY Addresses DEF InUse
<1>3. PICK q : q = ItemsOf(mem, p_child(p))
  OBVIOUS
<1>4. q \in Seq(Pcbs) /\ Range(q) \subseteq Pcbs
  BY <1>1, <1>2, <1>3, ListFacts
<1>5. Range(q) = {x \in Pcbs : mem.p_parent[x] = p}
  BY <1>1, <1>2, <1>3, <1>4 DEF Tables
<1>6. ToSet(q) = Range(q)
  BY DEF ToSet, Range
<1>7. p \in FreeOf(mem) => mem.p_parent[p] = None /\ \A x \in Pcbs : mem.p_parent[x] # p
  BY InvFacts
<1>8. emptyChild(mem, p) <=> \A x \in Pcbs : mem.p_parent[x] # p
  BY <1>1, <1>2, FirstChild
<1> QED  BY <1>3, <1>5, <1>6, <1>7, <1>8

(* Nobody but the running process is in no queue.                          *)
LEMMA LInvQueued ==
  ASSUME LInv, NEW p \in Pcbs
  PROVE  Unqueued(mem, p) <=> p = currentProcess /\ machine # "Zombie"
<1>1. /\ OneQueue(mem) /\ P!IInv /\ P!NobodyLost /\ None \notin Pcbs
      /\ machine = "Zombie" <=> currentProcess \in FreeOf(mem)
  BY InvFacts, AddressesAssumption DEF LInv, P!ContractInv
<1>2. mem.p_semAdd \in [Pcbs -> Keys \cup {None}] /\ None \notin Keys
  BY InvFacts, ViewFacts, AddressesAssumption
<1>3. Unqueued(mem, p) <=> /\ p \notin FreeOf(mem) /\ p \notin Range(ReadyOf(mem))
                           /\ mem.p_semAdd[p] = None
  BY <1>1, <1>2 DEF Unqueued, OneQueue
<1>4. p \notin FreeOf(mem) =>
        p = currentProcess \/ p \in Range(ReadyOf(mem)) \/ mem.p_semAdd[p] # None
  BY <1>1, SameOperators DEF P!NobodyLost, P!Live, P!Ready
<1>5. p = currentProcess => p \notin Range(ReadyOf(mem)) /\ mem.p_semAdd[p] = None
  BY <1>1, SameOperators DEF P!IInv, P!OneQueueAtATime, P!Ready
<1> QED  BY <1>1, <1>3, <1>4, <1>5

(* The heads of a PCB's p_list, counted: one, or none if it runs.          *)
LEMMA LInvOneList == ASSUME LInv PROVE OneListEach
<1>1. Good(mem) /\ Linked(mem) /\ Tables(mem)
  BY DEF LInv, Good
<1>2. \A h \in InUse(mem) : /\ ItemsOf(mem, h) \in Seq(Pcbs)
                            /\ \A x : Contains(ItemsOf(mem, h), x) <=> x \in Range(ItemsOf(mem, h))
  BY <1>1, ContainsRange DEF Linked
<1>3. Heads \cup {semdFree_h, semd_h} \subseteq InUse(mem)
  BY <1>1 DEF Tables
<1>4. ASSUME NEW p \in Pcbs
      PROVE  Cardinality({h \in Heads : Contains(ItemsOf(mem, h), p)})
               = IF p = currentProcess /\ machine # "Zombie" THEN 0 ELSE 1
  <2>1. PICK H : H = {h \in Heads : Contains(ItemsOf(mem, h), p)}
    OBVIOUS
  <2>2. H = {h \in Heads : p \in Range(ItemsOf(mem, h))}
    BY <1>2, <1>3, <2>1
  <2>3. On(mem, "p_list", p) <=> H # {}
    <3>1. \A h \in InUse(mem) : Kind(h) = "p_list" <=> h \in Heads
      BY KindOf DEF InUse
    <3> QED  BY <1>3, <2>2, <3>1 DEF On
  <2>4. H = {} <=> p = currentProcess /\ machine # "Zombie"
    BY <1>1, <2>3, LInvQueued, OnWhat
  <2>5. \A g, h \in H : g = h
    <3>1. \A h \in Heads : Kind(h) = "p_list"
      BY KindOf
    <3>2. \A g, h \in Heads : g # h =>
            Range(ItemsOf(mem, g)) \cap Range(ItemsOf(mem, h)) = {}
      BY <1>1, <1>3, <3>1 DEF Linked
    <3> QED  BY <2>2, <3>2
  <2>6. CASE H = {}
    BY <2>1, <2>4, <2>6, FS_EmptySet
  <2>7. CASE H # {}
    <3>1. PICK h : H = {h}
      BY <2>5, <2>7
    <3>2. Cardinality(H) = 1
      BY <3>1, FS_Singleton
    <3> QED  BY <2>1, <2>4, <2>7, <3>2
  <2> QED  BY <2>6, <2>7
<1>5. ASSUME NEW d \in Semds
      PROVE  /\ Contains(ItemsOf(mem, semdFree_h), d) # Contains(ItemsOf(mem, semd_h), d)
             /\ Contains(ItemsOf(mem, semdFree_h), d) <=> list_empty(mem, procq(d))
  <2>1. d \in Pcbs /\ procq(d) \in InUse(mem)
    BY <1>1, GoodHeads DEF Semds, Pcbs
  <2>2. PICK a, b : a = ItemsOf(mem, semdFree_h) /\ b = ItemsOf(mem, semd_h)
    OBVIOUS
  <2>3. (Contains(a, d) <=> d \in Range(a)) /\ (Contains(b, d) <=> d \in Range(b))
    BY <1>2, <1>3, <2>2
  <2>4. Range(a) \cap Range(b) = {}
    <3>1. semdFree_h # semd_h /\ Kind(semdFree_h) = Kind(semd_h)
      BY KindOf
    <3> QED  BY <1>1, <1>3, <2>2, <3>1 DEF Linked
  <2>5. d \in Range(a) \/ d \in Range(b)
    BY <1>1, <2>2 DEF Tables
  <2>6. Contains(a, d) # Contains(b, d)
    <3>1. Contains(a, d) \in BOOLEAN /\ Contains(b, d) \in BOOLEAN
      BY DEF Contains
    <3>2. ~ (Contains(a, d) <=> Contains(b, d))
      BY <2>3, <2>4, <2>5
    <3> QED  BY <3>1, <3>2, Zenon
  <2>7. d \in Range(a) <=> ItemsOf(mem, procq(d)) = <<>>
    BY <1>1, <2>2 DEF Tables
  <2>8. list_empty(mem, procq(d)) <=> ItemsOf(mem, procq(d)) = <<>>
    BY <1>1, <2>1, ListFacts
  <2> QED  BY <2>2, <2>3, <2>6, <2>7, <2>8
<1> QED  BY <1>4, <1>5 DEF OneListEach

(* Every pointer of the nucleus' lists has its converse, whatever programs *)
(* ask for: no list_add of a link that is still on a list, and no list_del *)
(* of one that is not.                                                     *)
THEOREM ListsWellLinked == Spec => []WellLinked
<1>1. LInv => WellLinked
  BY LInvLinked
<1> QED  BY <1>1, LinksInvariant, PTL

(* The one p_list link of a PCB is on the list that says where the process *)
(* is, and a descriptor is free or has waiters.                            *)
THEOREM OneListForEach == Spec => []OneListEach
<1>1. LInv => OneListEach
  BY LInvOneList
<1> QED  BY <1>1, LinksInvariant, PTL

(* Lists of children and p_parent agree, though killProcess takes children *)
(* out of the list it walks along.                                         *)
THEOREM ChildrenAreTheTree == Spec => []ChildrenAgree
<1>1. LInv => ChildrenAgree
  BY LInvChildren
<1> QED  BY <1>1, LinksInvariant, PTL
-----------------------------------------------------------------------------
(* Abstract is the same instance of Nucleus as P, without the theorems.    *)
LEMMA AbstractOperators ==
  /\ \A q : Abstract!Range(q) = Range(q)
  /\ \A q, K : Abstract!Without(q, K) = Without(q, K)
  /\ \A q, f, p : Abstract!InsertProcQ(q, f, p) = InsertProcQ(q, f, p)
  /\ \A q, f, w : Abstract!Wakeups(q, f, w) = Wakeups(q, f, w)
  /\ \A T : Abstract!Cardinality(T) = Cardinality(T)
  /\ Abstract!Keys = Keys /\ Abstract!MAXPROC = MaxProc
<1>1. \A q : Abstract!Range(q) = Range(q)
  BY DEF Abstract!Range, Range
<1>0. \A T : Abstract!Cardinality(T) = Cardinality(T)
  BY DEF Abstract!Cardinality, Cardinality
<1>2. \A q, K : Abstract!Without(q, K) = Without(q, K)
  <2>1. \A q, K : Abstract!Kept(q, K) = Kept(q, K)
    BY DEF Abstract!Kept, Kept
  <2>2. \A I, i : Abstract!Rank(I, i) = Rank(I, i)
    BY <1>0 DEF Abstract!Rank, Rank
  <2> DEFINE old(I, j) == CHOOSE i \in I : Rank(I, i) = j - 1
             new(I, j) == CHOOSE i \in I : Abstract!Rank(I, i) = j - 1
  <2>3. \A I, j : new(I, j) = old(I, j)
    BY <2>2, Zenon
  <2>4. \A q, K : Without(q, K) = [j \in 1..Cardinality(Kept(q, K)) |-> q[old(Kept(q, K), j)]]
    BY DEF Without
  <2>5. \A q, K : Abstract!Without(q, K) =
                    [j \in 1..Cardinality(Abstract!Kept(q, K)) |-> q[new(Abstract!Kept(q, K), j)]]
    BY <1>0 DEF Abstract!Without
  <2> HIDE DEF old, new
  <2> QED  BY <2>1, <2>3, <2>4, <2>5
<1>3. ASSUME NEW q, NEW f, NEW p
      PROVE  /\ Abstract!Slot(q, f, p) = Slot(q, f, p)
             /\ Abstract!InsertProcQ(q, f, p) = InsertProcQ(q, f, p)
  <2>1. \A i : Abstract!IsSlot(q, f, p, i) = IsSlot(q, f, p, i)
    BY DEF Abstract!IsSlot, IsSlot
  <2>2. Abstract!Slot(q, f, p) = Slot(q, f, p)
    BY <2>1 DEF Abstract!Slot, Slot
  <2>3. \A i : Abstract!InsertAt(q, i, p) = InsertAt(q, i, p)
    BY DEF Abstract!InsertAt, InsertAt
  <2> QED  BY <2>2, <2>3 DEF Abstract!InsertProcQ, InsertProcQ
<1>4. ASSUME NEW q, NEW f, NEW w PROVE Abstract!Wakeups(q, f, w) = Wakeups(q, f, w)
  <2>1. \A r, x : Abstract!Pos(r, x) = Pos(r, x)
    BY DEF Abstract!Pos, Pos
  <2>2. \A S : Abstract!SetToSeqs(S) = SetToSeqs(S)
    BY <1>0 DEF Abstract!SetToSeqs, SetToSeqs
  <2> DEFINE A(r) == \A i \in DOMAIN q, p \in Range(w) :
                       Pos(r, q[i]) < Pos(r, p) <=> i < Slot(q, f, p)
             B(r) == \A i, j \in DOMAIN w :
                       Pos(r, w[i]) < Pos(r, w[j])
                         <=> \/ f[w[i]] > f[w[j]]
                             \/ f[w[i]] = f[w[j]] /\ i < j
             a(r) == \A i \in DOMAIN q, p \in Range(w) :
                       Abstract!Pos(r, q[i]) < Abstract!Pos(r, p) <=> i < Abstract!Slot(q, f, p)
             b(r) == \A i, j \in DOMAIN w :
                       Abstract!Pos(r, w[i]) < Abstract!Pos(r, w[j])
                         <=> \/ f[w[i]] > f[w[j]]
                             \/ f[w[i]] = f[w[j]] /\ i < j
  <2>3. \A r : (A(r) <=> a(r)) /\ (B(r) <=> b(r))
    BY <1>3, <2>1
  <2>4. Wakeups(q, f, w) = {r \in SetToSeqs(Range(q) \cup Range(w)) :
                              Without(r, Range(w)) = q /\ A(r) /\ B(r)}
    BY DEF Wakeups
  <2>5. Abstract!Wakeups(q, f, w) = {r \in SetToSeqs(Range(q) \cup Range(w)) :
                                Abstract!Without(r, Range(w)) = q /\ a(r) /\ b(r)}
    BY <1>1, <2>2 DEF Abstract!Wakeups
  <2> HIDE DEF A, B, a, b
  <2> QED  BY <1>2, <2>3, <2>4, <2>5
<1>5. Abstract!Keys = Keys
  BY DEF Abstract!Keys, Keys
<1>6. Abstract!MAXPROC = MaxProc
  <2>1. Cardinality(1..MaxProc) = MaxProc
    BY TableAssumption, FS_Interval
  <2> QED  BY <1>0, <2>1 DEF Abstract!MAXPROC, Pcbs
<1> QED  BY <1>0, <1>1, <1>2, <1>3, <1>4, <1>5, <1>6

(* The parts of its actions are those of P.                                *)
LEMMA AbstractParts ==
  /\ \A q, count, soft : P!Scheduler(q, count, soft) <=> Abstract!Scheduler(q, count, soft)
  /\ \A q, soft : P!Resume(q, soft) <=> Abstract!Resume(q, soft)
  /\ \A k, p : P!InsertBlocked(k, p) <=> Abstract!InsertBlocked(k, p)
  /\ \A k, K : P!RemoveBlocked(k, K) <=> Abstract!RemoveBlocked(k, K)
  /\ \A t : P!Subtree(t) = Abstract!Subtree(t)
  /\ \A K : P!KillProcess(K) <=> Abstract!KillProcess(K)
  /\ \A K : P!MayKill(K) <=> Abstract!MayKill(K)
  /\ \A t : P!FindProcess(t) <=> Abstract!FindProcess(t)
  /\ \A f : P!Fault(f) <=> Abstract!Fault(f)
  /\ \A k : P!SoftBlock(k) <=> Abstract!SoftBlock(k)
<1>1. \A q, count, soft : P!Scheduler(q, count, soft) <=> Abstract!Scheduler(q, count, soft)
  BY DEF P!Scheduler, Abstract!Scheduler
<1>2. \A q, soft : P!Resume(q, soft) <=> Abstract!Resume(q, soft)
  BY <1>1 DEF P!Resume, Abstract!Resume, P!Continue, Abstract!Continue
<1>3. \A k, p : P!InsertBlocked(k, p) <=> Abstract!InsertBlocked(k, p)
  BY SameOperators, AbstractOperators DEF P!InsertBlocked, Abstract!InsertBlocked
<1>4. \A k : P!Waiters(k) = Abstract!Waiters(k)
  BY SameOperators, AbstractOperators DEF P!Waiters, Abstract!Waiters
<1>5. \A k, K : P!RemoveBlocked(k, K) <=> Abstract!RemoveBlocked(k, K)
  BY <1>4, SameOperators, AbstractOperators DEF P!RemoveBlocked, Abstract!RemoveBlocked
<1>6. \A t : P!Subtree(t) = Abstract!Subtree(t)
  BY DEF P!Subtree, Abstract!Subtree
<1>7. \A K : P!KillProcess(K) <=> Abstract!KillProcess(K)
  BY <1>4, SameOperators, AbstractOperators DEF P!KillProcess, Abstract!KillProcess
<1>8. \A K : P!MayKill(K) <=> Abstract!MayKill(K)
  BY DEF P!MayKill, Abstract!MayKill
<1>9. \A t : P!FindProcess(t) <=> Abstract!FindProcess(t)
  BY <1>4, SameOperators, AbstractOperators
     DEF P!FindProcess, Abstract!FindProcess, P!FirstSearched, Abstract!FirstSearched,
         P!Ready, Abstract!Ready
<1>10. \A f : P!Fault(f) <=> Abstract!Fault(f)
  BY DEF P!Fault, Abstract!Fault, P!tree, Abstract!tree, P!asl, Abstract!asl
<1>11. \A k : P!SoftBlock(k) <=> Abstract!SoftBlock(k)
  BY <1>1, <1>3 DEF P!SoftBlock, Abstract!SoftBlock, P!tree, Abstract!tree, P!asl, Abstract!asl
<1> QED
  BY <1>1, <1>2, <1>3, <1>5, <1>6, <1>7, <1>8, <1>9, <1>10, <1>11

(* So are its system calls and interrupts.                                 *)
LEMMA AbstractActions ==
  /\ \A n, prio, support :
       P!CreateProcess(n, prio, support) => Abstract!CreateProcess(n, prio, support)
  /\ P!TermSelf => Abstract!TermSelf
  /\ \A t : P!TermProcess(t) => Abstract!TermProcess(t)
  /\ P!TermProcessLost => Abstract!TermProcessLost
  /\ \A k : P!Passeren(k) => Abstract!Passeren(k)
  /\ \A k : P!Verhogen(k) => Abstract!Verhogen(k)
  /\ P!ClockWait => Abstract!ClockWait
  /\ P!GetTime => Abstract!GetTime
  /\ P!Yield => Abstract!Yield
  /\ P!PassUpOrDie => Abstract!PassUpOrDie
  /\ P!HandlePLT => Abstract!HandlePLT
  /\ P!HandleIntervalClock => Abstract!HandleIntervalClock
<1>1. \A n, prio, support :
        P!CreateProcess(n, prio, support) => Abstract!CreateProcess(n, prio, support)
  BY SameOperators, AbstractOperators
     DEF P!CreateProcess, Abstract!CreateProcess, P!Continue, Abstract!Continue
<1>2. P!TermSelf => Abstract!TermSelf
  BY AbstractParts, SameOperators, AbstractOperators DEF P!TermSelf, Abstract!TermSelf
<1>3. \A t : P!TermProcess(t) => Abstract!TermProcess(t)
  BY AbstractParts, SameOperators, AbstractOperators
     DEF P!TermProcess, Abstract!TermProcess, P!Live, Abstract!Live
<1>4. P!TermProcessLost => Abstract!TermProcessLost
  BY AbstractParts DEF P!TermProcessLost, Abstract!TermProcessLost
<1>5. \A k : P!Passeren(k) => Abstract!Passeren(k)
  BY AbstractParts
     DEF P!Passeren, Abstract!Passeren, P!Continue, Abstract!Continue, P!tree, Abstract!tree,
         P!asl, Abstract!asl
<1>6. \A k : P!Verhogen(k) => Abstract!Verhogen(k)
  BY AbstractParts, SameOperators, AbstractOperators
     DEF P!Verhogen, Abstract!Verhogen, P!Continue, Abstract!Continue, P!tree, Abstract!tree,
         P!asl, Abstract!asl
<1>7. P!ClockWait => Abstract!ClockWait
  BY AbstractParts DEF P!ClockWait, Abstract!ClockWait
<1>8. P!GetTime => Abstract!GetTime
  BY AbstractParts DEF P!GetTime, Abstract!GetTime
<1>9. P!Yield => Abstract!Yield
  BY AbstractParts DEF P!Yield, Abstract!Yield, P!tree, Abstract!tree, P!asl, Abstract!asl
<1>10. P!PassUpOrDie => Abstract!PassUpOrDie
  BY <1>2 DEF P!PassUpOrDie, Abstract!PassUpOrDie
<1>11. P!HandlePLT => Abstract!HandlePLT
  BY AbstractParts, SameOperators, AbstractOperators
     DEF P!HandlePLT, Abstract!HandlePLT, P!tree, Abstract!tree, P!asl, Abstract!asl
<1>12. P!HandleIntervalClock => Abstract!HandleIntervalClock
  BY AbstractParts, SameOperators, AbstractOperators
     DEF P!HandleIntervalClock, Abstract!HandleIntervalClock, P!Interruptible,
         Abstract!Interruptible, P!tree, Abstract!tree
<1> QED
  BY <1>1, <1>2, <1>3, <1>4, <1>5, <1>6, <1>7, <1>8, <1>9, <1>10, <1>11, <1>12

(* The first states and the steps of P are Abstract's.                     *)
LEMMA AbstractSpec ==
  /\ P!Init => Abstract!Init
  /\ [P!Next]_(P!vars) => [Abstract!Next]_(Abstract!vars)
<1>1. P!Init => Abstract!Init
  BY SameOperators, AbstractOperators
     DEF P!Init, Abstract!Init, P!SoftKeys, Abstract!SoftKeys
<1>2. P!SystemCall => Abstract!SystemCall
  BY AbstractActions DEF P!SystemCall, Abstract!SystemCall
<1>3. P!Interrupt => Abstract!Interrupt
  BY AbstractActions DEF P!Interrupt, Abstract!Interrupt
<1>4. P!Next => Abstract!Next
  BY <1>2, <1>3, AbstractActions DEF P!Next, Abstract!Next
<1>5. UNCHANGED P!vars => UNCHANGED Abstract!vars
  BY DEF P!vars, Abstract!vars, P!tree, Abstract!tree, P!asl, Abstract!asl
<1> QED  BY <1>1, <1>4, <1>5

(* The linked lists of pcb.c and asl.c implement the sequences, sets and   *)
(* functions of Nucleus, handler by handler, for any number of PCBs,       *)
(* semaphores and priorities: what is proved of Nucleus holds of them.     *)
THEOREM PointersImplementNucleus == Spec => ImplementsNucleus
<1>1. Init => Abstract!Init
  BY LInvInit, AbstractSpec
<1>2. LInv /\ [Next]_vars => [Abstract!Next]_(Abstract!vars)
  BY StepIsNucleus, AbstractSpec
<1> QED  BY <1>1, <1>2, LinksInvariant, PTL DEF Spec, ImplementsNucleus, Abstract!Spec
=============================================================================
