-------------------------------- MODULE Links --------------------------------
(***************************************************************************)
(* The queues and trees of Nucleus as the code has them: the lists of      *)
(* Lists through the PCBs' p_list, p_child and p_sib (phase1/pcb.c) and    *)
(* the descriptors' s_link and s_procq (phase1/asl.c), and the handlers of *)
(* phase2 that use them.                                                   *)
(* One user semaphore or several and the pseudo-clock; no device, and no   *)
(* process has a support structure.                                        *)
(***************************************************************************)
EXTENDS Lists

CONSTANTS
  UserSems, PseudoClock, Prios, MaxValue, MaxSoftBlock   \* as in Nucleus

ASSUME PrioritiesAssumption == Prios \subseteq Int /\ 0 \in Prios
ASSUME LimitsAssumption == MaxValue \in Nat /\ MaxSoftBlock \in Nat

Pcbs  == 1..MaxProc
Semds == 1..MaxProc
Keys  == UserSems \cup {PseudoClock}

(* The list_head structures.                                               *)
pcbFree_h  == <<"pcbFree_h", 0>>
semdFree_h == <<"semdFree_h", 0>>
semd_h     == <<"semd_h", 0>>
readyQueue == <<"readyQueue", 0>>
p_child(p) == <<"p_child", p>>
p_sib(p)   == <<"p_sib", p>>
s_link(d)  == <<"s_link", d>>
procq(d) == <<"s_procq", d>>

Links == {pcbFree_h, semdFree_h, semd_h, readyQueue}
           \cup ({"p_list", "p_child", "p_sib"} \X Pcbs)
           \cup ({"s_link", "s_procq"} \X Semds)

(* A pointer that findBlockedPcb makes of a sentinel: no PCB.              *)
Lost == -1

ASSUME AddressesAssumption ==
  None \notin Links \cup Pcbs \cup Keys \cup {Lost} /\ PseudoClock \notin UserSems

VARIABLES
  mem,             \* next and prev by link; fields by PCB and descriptor
  currentProcess, processCount, softBlockCount, semValue, machine

vars == <<mem, currentProcess, processCount, softBlockCount, semValue, machine>>
-----------------------------------------------------------------------------
(* phase1/pcb.c                                                            *)

freePcb(m, p) == list_add(m, p_list(p), pcbFree_h)

(* allocPcb: the PCB it returns, and the memory after it.                  *)
Allocated(m) == Owner(m.next[pcbFree_h])
allocPcb(m) ==
  LET p  == Allocated(m)
      m1 == list_del(m, p_list(p))
      m2 == INIT_LIST_HEAD(INIT_LIST_HEAD(m1, p_child(p)), p_sib(p))
  IN  [m2 EXCEPT !.p_parent[p] = None, !.p_semAdd[p] = None, !.p_prio[p] = 0]

emptyChild(m, p) == list_empty(m, p_child(p))

insertChild(m, prnt, p) ==
  list_add([m EXCEPT !.p_parent[p] = prnt], p_sib(p), p_child(prnt))

(* Mutant: an orphan keeps the pointer to its parent.                      *)
OutChildKeepsParent(m, p) ==
  IF m.p_parent[p] = None THEN m ELSE list_del(m, p_sib(p))

outChild(m, p) ==
  IF m.p_parent[p] = None THEN m
  ELSE INIT_LIST_HEAD([list_del(m, p_sib(p)) EXCEPT !.p_parent[p] = None],
                      p_sib(p))

(* removeChild of a parent with children: the first one leaves.            *)
removeChild(m, p) == outChild(m, Owner(m.next[p_child(p)]))
-----------------------------------------------------------------------------
(* phase1/asl.c                                                            *)

Descriptor(m, k) == First(ItemsOf(m, semd_h), LAMBDA d : m.s_key[d] = k)

(* insertBlocked; it fails, and nobody looks, when no descriptor is free.  *)
insertBlocked(m, k, p) ==
  LET d  == Descriptor(m, k)
      e  == Owner(m.next[semdFree_h])
      m1 == INIT_LIST_HEAD(list_del(m, s_link(e)), procq(e))
      m2 == list_add([m1 EXCEPT !.s_key[e] = k], s_link(e), semd_h)
      On(n, dd) == [list_add_tail(n, p_list(p), procq(dd))
                      EXCEPT !.p_semAdd[p] = k]
  IN  IF d # None THEN On(m, d)
      ELSE IF list_empty(m, semdFree_h) THEN m
      ELSE On(m2, e)

(* A descriptor without waiters goes back to semdFree_h.                   *)
Recycled(m, d) ==
  IF list_empty(m, procq(d))
  THEN list_add(list_del(m, s_link(d)), s_link(d), semdFree_h)
  ELSE m

(* removeBlocked; headBlocked is the PCB it returns.                       *)
headBlocked(m, k) ==
  LET d == Descriptor(m, k) IN IF d = None THEN None ELSE headProcQ(m, procq(d))
removeBlocked(m, k) ==
  LET d == Descriptor(m, k)
      p == headBlocked(m, k)
      n == Recycled(removeProcQ(m, procq(d)), d)
  IN  IF d = None THEN m
      ELSE IF p = None THEN n
      ELSE [n EXCEPT !.p_semAdd[p] = None]

(* outBlocked of a PCB that waits where its p_semAdd says; the code stores *)
(* through NULL for any other, of which the invariants know none.          *)
outBlocked(m, p) ==
  LET d == Descriptor(m, m.p_semAdd[p])
  IN  IF d = None THEN m
      ELSE [Recycled(outProcQ(m, procq(d), p), d) EXCEPT !.p_semAdd[p] = None]

(* findBlockedPcb: only the first descriptor's queue is searched; past its *)
(* sentinel the iterator of the outer loop is lost.                        *)
findBlockedPcb(m, p) ==
  IF list_empty(m, semd_h) THEN None
  ELSE IF Contains(ItemsOf(m, procq(Owner(m.next[semd_h]))), p) THEN p
  ELSE Lost

findProcess(m, p) ==
  IF p = currentProcess \/ Contains(ItemsOf(m, readyQueue), p) THEN p
  ELSE findBlockedPcb(m, p)
-----------------------------------------------------------------------------
(* killProcess: s holds the memory, the two counters and the calls that   *)
(* have not returned, of which the last is the innermost: the PCBs whose   *)
(* children it is killing.                                                 *)

(* Mutant: a process that is killed stays on the ready queue.              *)
KillLeavesReady(s, p) ==
  LET m == outChild(s.mem, p)
  IN  [mem |-> freePcb(IF m.p_semAdd[p] # None THEN outBlocked(m, p) ELSE m, p),
       soft |-> s.soft - (IF m.p_semAdd[p] = PseudoClock THEN 1 ELSE 0),
       count |-> s.count - 1, calls |-> Front(s.calls)]

(* Behind the loop, without children: out of the tree and the queue, freed.*)
KillOne(s, p) ==
  LET m == outChild(s.mem, p)
  IN  [mem |-> freePcb(IF m.p_semAdd[p] # None THEN outBlocked(m, p)
                       ELSE outProcQ(m, readyQueue, p), p),
       soft |-> s.soft - (IF m.p_semAdd[p] = PseudoClock THEN 1 ELSE 0),
       count |-> s.count - 1, calls |-> Front(s.calls)]

(* The loop: the first child leaves, and is the argument of another call.  *)
KillStep(s) ==
  LET p == Last(s.calls)
  IN  IF s.calls = <<>> THEN s
      ELSE IF emptyChild(s.mem, p) THEN KillOne(s, p)
      ELSE [s EXCEPT !.mem = removeChild(@, p),
                     !.calls = Append(@, Owner(s.mem.next[p_child(p)]))]

(* A PCB is an argument once: 2 * MaxProc steps are enough.                *)
killProcess(m, soft, count, p) ==
  LET after[n \in Nat] ==
        IF n = 0 THEN [mem |-> m, soft |-> soft, count |-> count, calls |-> <<p>>]
        ELSE KillStep(after[n - 1])
  IN  after[2 * MaxProc]
-----------------------------------------------------------------------------
(* main(), up to the dispatch of the first process.                        *)

Unset == [next |-> [l \in Links |-> None], prev |-> [l \in Links |-> None],
          p_parent |-> [p \in Pcbs |-> None], p_semAdd |-> [p \in Pcbs |-> None],
          p_prio |-> [p \in Pcbs |-> 0], s_key |-> [d \in Semds |-> None]]

initPcbs(m) ==
  LET after[c \in 0..MaxProc] ==
        IF c = 0 THEN INIT_LIST_HEAD(m, pcbFree_h)
        ELSE list_add(after[c - 1], p_list(c), pcbFree_h)
  IN  after[MaxProc]

initASL(m) ==
  LET after[c \in 0..MaxProc] ==
        IF c = 0 THEN INIT_LIST_HEAD(INIT_LIST_HEAD(m, semdFree_h), semd_h)
        ELSE INIT_LIST_HEAD(list_add(after[c - 1], s_link(c), semdFree_h), procq(c))
  IN  after[MaxProc]

Init ==
  LET m == INIT_LIST_HEAD(initASL(initPcbs(Unset)), readyQueue)
      p == Allocated(m)
  IN  /\ mem = removeProcQ(insertProcQ(allocPcb(m), readyQueue, p), readyQueue)
      /\ currentProcess = p
      /\ processCount = 1
      /\ softBlockCount = 0
      /\ semValue \in [Keys -> {0, 1}] /\ semValue[PseudoClock] = 0
      /\ machine = "Running"

(* scheduler(), entered with memory m and the given counters.              *)
Scheduler(m, count, soft) ==
  /\ mem' = removeProcQ(m, readyQueue)
  /\ currentProcess' = headProcQ(m, readyQueue)
  /\ machine' = CASE ~list_empty(m, readyQueue) -> "Running"
                  [] OTHER -> IF count = 0 THEN "Halted"
                              ELSE IF soft > 0 THEN "Waiting" ELSE "Panicked"

Continue == UNCHANGED <<currentProcess, machine>>

Running == machine = "Running"

CreateProcess(prio) ==
  /\ Running
  /\ ~list_empty(mem, pcbFree_h)
  /\ LET p == Allocated(mem)
         m == [allocPcb(mem) EXCEPT !.p_prio[p] = prio]
     IN  mem' = insertProcQ(insertChild(m, currentProcess, p), readyQueue, p)
  /\ processCount' = processCount + 1
  /\ Continue
  /\ UNCHANGED <<softBlockCount, semValue>>

Killed(t) ==
  killProcess(mem, softBlockCount, processCount, t)

TermSelf ==
  LET s == Killed(currentProcess)
  IN  /\ Running
      /\ processCount' = s.count /\ softBlockCount' = s.soft
      /\ Scheduler(s.mem, s.count, s.soft)
      /\ UNCHANGED semValue

(* TERMPROCESS of another pid: t is None when no process has it.           *)
TermProcess(t) ==
  /\ Running
  /\ t # currentProcess
  /\ \/ /\ findProcess(mem, t) = Lost
        /\ machine' = "WildPidSearch"
        /\ UNCHANGED <<mem, processCount, softBlockCount>>
     \/ /\ t # None
        /\ findProcess(mem, t) = t
        /\ LET s == Killed(t)
           IN  /\ mem' = s.mem
               /\ processCount' = s.count /\ softBlockCount' = s.soft
               /\ machine' = IF Contains(ItemsOf(s.mem, pcbFree_h), currentProcess)
                             THEN "Zombie" ELSE machine
  /\ UNCHANGED <<currentProcess, semValue>>

Passeren(k) ==
  /\ Running
  /\ \/ /\ semValue[k] <= 0
        /\ Scheduler(insertBlocked(mem, k, currentProcess), processCount,
                     softBlockCount)
        /\ UNCHANGED semValue
     \/ /\ semValue[k] > 0
        /\ semValue' = [semValue EXCEPT ![k] = @ - 1]
        /\ Continue
        /\ UNCHANGED mem
  /\ UNCHANGED <<processCount, softBlockCount>>

Verhogen(k) ==
  LET p == headBlocked(mem, k)
  IN  /\ Running
      /\ \/ /\ p # None
            /\ mem' = insertProcQ(removeBlocked(mem, k), readyQueue, p)
            /\ UNCHANGED semValue
         \/ /\ p = None
            /\ semValue[k] < MaxValue
            /\ semValue' = [semValue EXCEPT ![k] = @ + 1]
            /\ mem' = removeBlocked(mem, k)
      /\ Continue
      /\ UNCHANGED <<processCount, softBlockCount>>

(* CLOCKWAIT; with a positive semaphore, which nothing makes, the caller   *)
(* would be in no queue.                                                   *)
ClockWait ==
  LET value == semValue[PseudoClock]
  IN  /\ Running
      /\ softBlockCount < MaxSoftBlock
      /\ softBlockCount' = softBlockCount + 1
      /\ Scheduler(IF value <= 0 THEN insertBlocked(mem, PseudoClock, currentProcess)
                   ELSE mem, processCount, softBlockCount')
      /\ semValue' = [semValue EXCEPT ![PseudoClock] = IF value <= 0 THEN @ ELSE @ - 1]
      /\ UNCHANGED processCount

Yield ==
  /\ Running
  /\ Scheduler(list_add_tail(mem, p_list(currentProcess), readyQueue),
               processCount, softBlockCount)
  /\ UNCHANGED <<processCount, softBlockCount, semValue>>

HandlePLT ==
  /\ Running
  /\ Scheduler(insertProcQ(mem, readyQueue, currentProcess), processCount,
               softBlockCount)
  /\ UNCHANGED <<processCount, softBlockCount, semValue>>

(* The loop of handleIntervalClock, until removeBlocked returns NULL: no   *)
(* queue has more than MaxProc PCBs.                                       *)
WakeStep(m) ==
  LET p == headBlocked(m, PseudoClock)
      n == removeBlocked(m, PseudoClock)
  IN  IF p = None THEN n ELSE insertProcQ(n, readyQueue, p)

WakeAll(m) ==
  LET after[n \in Nat] == IF n = 0 THEN m ELSE WakeStep(after[n - 1])
  IN  after[MaxProc]

HandleIntervalClock ==
  LET d == Descriptor(mem, PseudoClock)
      n == IF d = None THEN 0 ELSE Len(ItemsOf(mem, procq(d)))
      m == WakeAll(mem)
  IN  /\ machine \in {"Running", "Waiting"}
      /\ softBlockCount' = softBlockCount - n
      /\ IF currentProcess # None
         THEN mem' = m /\ Continue
         ELSE Scheduler(m, processCount, softBlockCount')
      /\ UNCHANGED <<processCount, semValue>>

Next ==
  \/ \E prio \in Prios : CreateProcess(prio)
  \/ TermSelf
  \/ \E t \in Pcbs \cup {None} : TermProcess(t)
  \/ \E k \in UserSems : Passeren(k) \/ Verhogen(k)
  \/ ClockWait \/ Yield \/ HandlePLT \/ HandleIntervalClock

Spec == Init /\ [][Next]_vars
-----------------------------------------------------------------------------
(* What a memory stands for: the PCBs on the free list, the ready queue,  *)
(* the keys of the active descriptors and the queue of each key.           *)
FreeOf(m)    == ToSet(ItemsOf(m, pcbFree_h))
ReadyOf(m)   == ItemsOf(m, readyQueue)
ActiveOf(m)  == [i \in 1..Len(ItemsOf(m, semd_h)) |-> m.s_key[ItemsOf(m, semd_h)[i]]]
WaitersOf(m) == [k \in Keys |-> IF Descriptor(m, k) = None THEN <<>>
                                ELSE ItemsOf(m, procq(Descriptor(m, k)))]

(* The sentinels of lists, first those of p_list links.                    *)
Heads     == {pcbFree_h, readyQueue} \cup ({"s_procq"} \X Semds)
Sentinels == Heads \cup {semdFree_h, semd_h} \cup ({"p_child"} \X Pcbs)
InUse(m)  == {h \in Sentinels : m.next[h] # None}

(* The link that a list goes through.                                      *)
Kind(h) == CASE h \in Heads -> "p_list"
             [] h \in {semdFree_h, semd_h} -> "s_link"
             [] OTHER -> "p_sib"

(* Every pointer has its converse, and every list ends where it began: a   *)
(* link that is added while it is still on another list, or removed from   *)
(* one it is not on, breaks this far away from the call.                   *)
WellLinked ==
  /\ Sound(mem) /\ Sentinels \ InUse(mem) \subseteq {"p_child"} \X Pcbs
  /\ \A h \in InUse(mem) : IsList(mem, h, Chain(Kind(h), ItemsOf(mem, h)))

(* The p_list of the running process is on no list, any other PCB's on     *)
(* exactly one; a descriptor is free or active, and free without waiters.  *)
OneListEach ==
  /\ \A p \in Pcbs :
       Cardinality({h \in Heads : Contains(ItemsOf(mem, h), p)})
         = IF p = currentProcess /\ machine # "Zombie" THEN 0 ELSE 1
  /\ \A d \in Semds :
       /\ Contains(ItemsOf(mem, semdFree_h), d) # Contains(ItemsOf(mem, semd_h), d)
       /\ Contains(ItemsOf(mem, semdFree_h), d) <=> list_empty(mem, procq(d))

(* The lists of children and the p_parent fields are the same tree; a PCB  *)
(* goes back to the free list without children and without a parent.       *)
ChildrenAgree ==
  \A p \in Pcbs : mem.next[p_child(p)] # None =>
    /\ ToSet(ItemsOf(mem, p_child(p))) = {q \in Pcbs : mem.p_parent[q] = p}
    /\ p \in FreeOf(mem) => emptyChild(mem, p) /\ mem.p_parent[p] = None

(* The pointers implement the sequences, sets and functions of Nucleus,    *)
(* step by step: every property checked or proved there holds of them.     *)
Abstract == INSTANCE Nucleus WITH
  Devices <- {}, Terminals <- {}, IoKills <- FALSE, ExclusiveIo <- TRUE,
  pcbFree <- FreeOf(mem), readyQueue <- ReadyOf(mem), semd_h <- ActiveOf(mem),
  s_procq <- WaitersOf(mem), p_parent <- mem.p_parent, p_semAdd <- mem.p_semAdd,
  p_prio <- mem.p_prio, p_supportStruct <- [p \in Pcbs |-> FALSE], busy <- {}

ImplementsNucleus == Abstract!Spec
=============================================================================
