------------------------------- MODULE Nucleus -------------------------------
(***************************************************************************)
(* The nucleus of PandOSsh: process tree and queues (phase1/pcb.c), active *)
(* semaphore list (phase1/asl.c), scheduler, system calls, exceptions and  *)
(* interrupts (phase2).  One CPU; every handler runs with interrupts off   *)
(* and ends in LDST, LDCXT, WAIT, HALT or PANIC, so a handler is one       *)
(* action.  Processes are the environment: the running one may issue any   *)
(* system call, trap, or compute until an interrupt.                       *)
(*                                                                         *)
(* Abstracted: processor states, addresses, pids (a pid is the identity of *)
(* the live PCB that carries it; next_pid never repeats), CPU times (see   *)
(* GetTime) and the LIFO order of the free lists.                          *)
(***************************************************************************)
EXTENDS ProcQueue

CONSTANTS
  Pcbs,         \* pcbFree_table: the MAXPROC process control blocks
  UserSems,     \* addresses of the semaphores processes P and V
  Devices,      \* indices 0..47 of deviceSemaphore: (sub)devices
  Terminals,    \* the devices among them that are terminal subdevices
  PseudoClock,  \* index PSEUDOINDEX of deviceSemaphore
  None,         \* NULL
  Prios,        \* values processes pass as p_prio
  MaxValue,     \* bound: no V past this semaphore value
  MaxSoftBlock, \* bound: no DOIO or CLOCKWAIT past this softBlockCount
  IoKills,      \* may a process that waits for a device be terminated?
  ExclusiveIo   \* is DOIO only issued on a device with no operation pending?

Keys == UserSems \cup Devices \cup {PseudoClock}

ASSUME PcbsAssumption == IsFiniteSet(Pcbs) /\ Pcbs # {} /\ None \notin Pcbs
ASSUME KeysAssumption ==
  /\ None \notin Keys
  /\ UserSems \cap Devices = {}
  /\ PseudoClock \notin UserSems \cup Devices
  /\ Terminals \subseteq Devices
ASSUME PriosAssumption == Prios \subseteq Int /\ 0 \in Prios
ASSUME BoundsAssumption ==
  MaxValue \in Nat /\ MaxSoftBlock \in Nat /\ IoKills \in BOOLEAN
                   /\ ExclusiveIo \in BOOLEAN

MAXPROC == Cardinality(Pcbs)

VARIABLES
  pcbFree,         \* the PCBs on pcbFree_h
  p_parent, p_semAdd, p_prio, p_supportStruct,   \* fields, by PCB
  semd_h,          \* keys of the active descriptors, newest first
  s_procq,         \* queue of each semaphore, <<>> when it has no descriptor
  readyQueue, currentProcess, processCount, softBlockCount,
  semValue,        \* the integer at each semaphore address
  busy,            \* devices working on a command (hardware)
  machine          \* what the CPU does once the handler has ended

tree  == <<p_parent, p_prio, p_supportStruct>>
asl   == <<semd_h, s_procq, p_semAdd>>
vars  == <<pcbFree, tree, asl, readyQueue, currentProcess, processCount,
           softBlockCount, semValue, busy, machine>>

(***************************************************************************)
(* machine: a process runs, the CPU is in WAIT, HALT or PANIC.  The other  *)
(* values name the point where a handler leaves defined behaviour; the     *)
(* model stops there.                                                      *)
(*   Zombie         the freed PCB of a killed process goes on running      *)
(*   WildPidSearch  findBlockedPcb walks out of the semaphore lists        *)
(*   GetTimeFault   GETTIME reads p_time through a pointer it did not find *)
(*   NullSemStore   handleDevice increments through sem == NULL            *)
(***************************************************************************)
Outcomes == {"Running", "Waiting", "Halted", "Panicked"}
Faults   == {"Zombie", "WildPidSearch", "GetTimeFault", "NullSemStore"}

Live     == Pcbs \ pcbFree
Ready    == Range(readyQueue)
Waiters(k) == Range(s_procq[k])
SoftKeys == Devices \cup {PseudoClock}
-----------------------------------------------------------------------------
(* main: the state after the first call of scheduler() has dispatched the  *)
(* process that runs test().                                               *)
Init ==
  \E p \in Pcbs :
    /\ pcbFree = Pcbs \ {p}
    /\ currentProcess = p
    /\ p_parent = [q \in Pcbs |-> None]
    /\ p_semAdd = [q \in Pcbs |-> None]
    /\ p_prio = [q \in Pcbs |-> 0]
    /\ p_supportStruct = [q \in Pcbs |-> FALSE]
    /\ semd_h = <<>>
    /\ s_procq = [k \in Keys |-> <<>>]
    /\ readyQueue = <<>>
    /\ processCount = 1
    /\ softBlockCount = 0
    /\ semValue \in [Keys -> {0, 1}]
    /\ \A k \in SoftKeys : semValue[k] = 0
    /\ busy = {}
    /\ machine = "Running"

(* Mutant of Scheduler: without soft-blocked processes it halts.           *)
SchedulerHaltsInDeadlock(q, count, soft) ==
  IF q # <<>>
  THEN /\ currentProcess' = Head(q)
       /\ readyQueue' = Tail(q)
       /\ machine' = "Running"
  ELSE /\ currentProcess' = None
       /\ readyQueue' = q
       /\ machine' = IF soft > 0 THEN "Waiting" ELSE "Halted"

(* scheduler(), entered with ready queue q and the given counters.         *)
Scheduler(q, count, soft) ==
  IF q # <<>>
  THEN /\ currentProcess' = Head(q)
       /\ readyQueue' = Tail(q)
       /\ machine' = "Running"
  ELSE /\ currentProcess' = None
       /\ readyQueue' = q
       /\ machine' = CASE count = 0             -> "Halted"
                       [] count > 0 /\ soft > 0 -> "Waiting"
                       [] count > 0 /\ soft = 0 -> "Panicked"

(* LDST(state) at the end of a handler: the same process goes on.          *)
Continue == UNCHANGED <<currentProcess, machine>>

(* The end of an interrupt handler: back to the interrupted process, or    *)
(* the scheduler when the CPU was waiting.                                 *)
Resume(q, soft) ==
  IF currentProcess # None
  THEN readyQueue' = q /\ Continue
  ELSE Scheduler(q, processCount, soft)

(* Mutant of InsertBlocked: one descriptor too few in semd_table.          *)
InsertBlockedShortTable(k, p) ==
  LET active == k \in Range(semd_h)
      failed == ~active /\ Len(semd_h) >= MAXPROC - 1
  IN  /\ s_procq' = IF failed THEN s_procq
                    ELSE [s_procq EXCEPT ![k] = Append(@, p)]
      /\ p_semAdd' = IF failed THEN p_semAdd ELSE [p_semAdd EXCEPT ![p] = k]
      /\ semd_h' = IF failed \/ active THEN semd_h ELSE <<k>> \o semd_h

(* Mutant of InsertBlocked: list_add instead of list_add_tail.             *)
InsertBlockedAtHead(k, p) ==
  /\ s_procq' = [s_procq EXCEPT ![k] = <<p>> \o @]
  /\ p_semAdd' = [p_semAdd EXCEPT ![p] = k]
  /\ semd_h' = IF k \in Range(semd_h) THEN semd_h ELSE <<k>> \o semd_h

(* insertBlocked: append to the active descriptor, or activate a free one  *)
(* at the head of semd_h; with none free it returns TRUE, unobserved.      *)
InsertBlocked(k, p) ==
  LET active == k \in Range(semd_h)
      failed == ~active /\ Len(semd_h) >= MAXPROC
  IN  /\ s_procq' = IF failed THEN s_procq
                    ELSE [s_procq EXCEPT ![k] = Append(@, p)]
      /\ p_semAdd' = IF failed THEN p_semAdd ELSE [p_semAdd EXCEPT ![p] = k]
      /\ semd_h' = IF failed \/ active THEN semd_h ELSE <<k>> \o semd_h

(* Mutant of RemoveBlocked: an empty descriptor is not given back.         *)
RemoveBlockedKeepsEmpty(k, K) ==
  /\ s_procq' = [s_procq EXCEPT ![k] = Without(@, K)]
  /\ p_semAdd' = [p \in Pcbs |-> IF p \in K THEN None ELSE p_semAdd[p]]
  /\ UNCHANGED semd_h

(* removeBlocked for the processes in K, which all wait on k.              *)
RemoveBlocked(k, K) ==
  /\ s_procq' = [s_procq EXCEPT ![k] = Without(@, K)]
  /\ p_semAdd' = [p \in Pcbs |-> IF p \in K THEN None ELSE p_semAdd[p]]
  /\ semd_h' = IF Waiters(k) \subseteq K THEN Without(semd_h, {k}) ELSE semd_h

(* Mutant of Subtree: killProcess does not recurse below the children.     *)
SubtreeChildrenOnly(t) == {t} \cup {p \in Pcbs : p_parent[p] = t}

(* What killProcess(t) visits: t and its descendants.                      *)
Subtree(t) ==
  {p \in Pcbs : \A S \in SUBSET Pcbs :
     (t \in S /\ \A q \in Pcbs : p_parent[q] \in S => q \in S) => p \in S}

(* Mutant of KillProcess: the soft-block count is not corrected.           *)
KillProcessKeepsSoftCount(K) ==
  /\ p_parent' = [p \in Pcbs |-> IF p \in K THEN None ELSE p_parent[p]]
  /\ p_semAdd' = [p \in Pcbs |-> IF p \in K THEN None ELSE p_semAdd[p]]
  /\ s_procq' = [k \in Keys |-> Without(s_procq[k], K)]
  /\ semd_h' = Without(semd_h, {k \in Keys : Waiters(k) \subseteq K})
  /\ processCount' = processCount - Cardinality(K)
  /\ pcbFree' = pcbFree \cup K
  /\ UNCHANGED <<p_prio, p_supportStruct, softBlockCount>>

(* Mutant of KillProcess: every blocked process counts as soft-blocked.     *)
KillProcessCountsEveryWaiter(K) ==
  /\ p_parent' = [p \in Pcbs |-> IF p \in K THEN None ELSE p_parent[p]]
  /\ p_semAdd' = [p \in Pcbs |-> IF p \in K THEN None ELSE p_semAdd[p]]
  /\ s_procq' = [k \in Keys |-> Without(s_procq[k], K)]
  /\ semd_h' = Without(semd_h, {k \in Keys : Waiters(k) \subseteq K})
  /\ softBlockCount' = softBlockCount
                         - Cardinality({p \in K : p_semAdd[p] # None})
  /\ processCount' = processCount - Cardinality(K)
  /\ pcbFree' = pcbFree \cup K
  /\ UNCHANGED <<p_prio, p_supportStruct>>

(* killProcess for a whole subtree K: out of the tree, out of its          *)
(* semaphore (soft-block count corrected for the pseudo-clock only) or of  *)
(* the ready queue (by the caller, see Scheduler), freed.                  *)
KillProcess(K) ==
  /\ p_parent' = [p \in Pcbs |-> IF p \in K THEN None ELSE p_parent[p]]
  /\ p_semAdd' = [p \in Pcbs |-> IF p \in K THEN None ELSE p_semAdd[p]]
  /\ s_procq' = [k \in Keys |-> Without(s_procq[k], K)]
  /\ semd_h' = Without(semd_h, {k \in Keys : Waiters(k) \subseteq K})
  /\ softBlockCount' = softBlockCount
                         - Cardinality({p \in K : p_semAdd[p] = PseudoClock})
  /\ processCount' = processCount - Cardinality(K)
  /\ pcbFree' = pcbFree \cup K
  /\ UNCHANGED <<p_prio, p_supportStruct>>

MayKill(K) == IoKills \/ \A p \in K : p_semAdd[p] \notin Devices

(* findProcess(pid of t): the running process, the ready queue, then       *)
(* findBlockedPcb, whose inner loop reuses the outer iterator: it searches *)
(* the first active descriptor and then leaves the lists.                  *)
FirstSearched == IF semd_h = <<>> THEN {} ELSE Waiters(Head(semd_h))
FindProcess(t) == t = currentProcess \/ t \in Ready \/ t \in FirstSearched

(* A handler goes wrong as f; nothing it did before is visible.            *)
Fault(f) ==
  /\ machine' = f
  /\ UNCHANGED <<pcbFree, tree, asl, readyQueue, currentProcess,
                 processCount, softBlockCount, semValue, busy>>
-----------------------------------------------------------------------------
(* System calls of the running process.                                    *)

(* CREATEPROCESS; without a free PCB it only returns -1.                   *)
CreateProcess(n, prio, support) ==
  /\ machine = "Running"
  /\ n \in pcbFree
  /\ pcbFree' = pcbFree \ {n}
  /\ p_prio' = [p_prio EXCEPT ![n] = prio]
  /\ p_supportStruct' = [p_supportStruct EXCEPT ![n] = support]
  /\ p_semAdd' = [p_semAdd EXCEPT ![n] = None]
  /\ p_parent' = [p_parent EXCEPT ![n] = currentProcess]
  /\ readyQueue' = InsertProcQ(readyQueue, p_prio', n)
  /\ processCount' = processCount + 1
  /\ Continue
  /\ UNCHANGED <<semd_h, s_procq, softBlockCount, semValue, busy>>

(* TERMPROCESS of the caller (argument 0 or its own pid).                  *)
TermSelf ==
  LET K == Subtree(currentProcess)
  IN  /\ machine = "Running"
      /\ MayKill(K)
      /\ KillProcess(K)
      /\ Scheduler(Without(readyQueue, K), processCount', softBlockCount')
      /\ UNCHANGED <<semValue, busy>>

(* TERMPROCESS of another process: the caller goes on, even when it was    *)
(* itself in the subtree that has just been killed.                        *)
TermProcess(t) ==
  LET K == Subtree(t)
  IN  /\ machine = "Running"
      /\ t \in Live \ {currentProcess}
      /\ FindProcess(t)
      /\ MayKill(K)
      /\ KillProcess(K)
      /\ readyQueue' = Without(readyQueue, K)
      /\ currentProcess' = currentProcess
      /\ machine' = IF currentProcess \in K THEN "Zombie" ELSE machine
      /\ UNCHANGED <<semValue, busy>>

(* TERMPROCESS of a process the search does not reach, or of a pid no      *)
(* process has while some semaphore is active.                             *)
TermProcessLost ==
  /\ machine = "Running"
  /\ semd_h # <<>>
  /\ Fault("WildPidSearch")

(* PASSEREN.                                                               *)
Passeren(s) ==
  /\ machine = "Running"
  /\ \/ /\ semValue[s] <= 0
        /\ InsertBlocked(s, currentProcess)
        /\ Scheduler(readyQueue, processCount, softBlockCount)
        /\ UNCHANGED semValue
     \/ /\ semValue[s] > 0
        /\ semValue' = [semValue EXCEPT ![s] = @ - 1]
        /\ Continue
        /\ UNCHANGED <<asl, readyQueue>>
  /\ UNCHANGED <<pcbFree, tree, processCount, softBlockCount, busy>>

(* Mutant of Verhogen: the value is incremented even when a waiter takes it. *)
VerhogenAlwaysIncrements(s) ==
  /\ machine = "Running"
  /\ semValue[s] < MaxValue
  /\ semValue' = [semValue EXCEPT ![s] = @ + 1]
  /\ IF s_procq[s] # <<>>
     THEN LET p == Head(s_procq[s])
          IN  /\ RemoveBlocked(s, {p})
              /\ readyQueue' = InsertProcQ(readyQueue, p_prio, p)
     ELSE UNCHANGED <<asl, readyQueue>>
  /\ Continue
  /\ UNCHANGED <<pcbFree, tree, processCount, softBlockCount, busy>>

(* VERHOGEN: a waiter is made ready, else the value is incremented.        *)
Verhogen(s) ==
  /\ machine = "Running"
  /\ \/ /\ s_procq[s] # <<>>
        /\ LET p == Head(s_procq[s])
           IN  /\ RemoveBlocked(s, {p})
               /\ readyQueue' = InsertProcQ(readyQueue, p_prio, p)
        /\ UNCHANGED semValue
     \/ /\ s_procq[s] = <<>>
        /\ semValue[s] < MaxValue
        /\ semValue' = [semValue EXCEPT ![s] = @ + 1]
        /\ UNCHANGED <<asl, readyQueue>>
  /\ Continue
  /\ UNCHANGED <<pcbFree, tree, processCount, softBlockCount, busy>>

(* The common part of DOIO and CLOCKWAIT: P on a soft semaphore; with a    *)
(* positive value the caller is put on no queue, yet it loses the CPU and  *)
(* the soft-block count goes up all the same.                              *)
SoftBlock(k) ==
  /\ softBlockCount < MaxSoftBlock
  /\ \/ /\ semValue[k] <= 0
        /\ InsertBlocked(k, currentProcess)
        /\ UNCHANGED semValue
     \/ /\ semValue[k] > 0
        /\ semValue' = [semValue EXCEPT ![k] = @ - 1]
        /\ UNCHANGED asl
  /\ softBlockCount' = softBlockCount + 1
  /\ Scheduler(readyQueue, processCount, softBlockCount')
  /\ UNCHANGED <<pcbFree, tree, processCount>>

(* Mutant of DoIO: the command is written after the call of scheduler(),   *)
(* which does not return.                                                  *)
DoIOCommandLast(d) ==
  /\ machine = "Running"
  /\ ExclusiveIo => d \notin busy /\ s_procq[d] = <<>>
  /\ UNCHANGED busy
  /\ SoftBlock(d)

(* DOIO: the command is written first; a device that is already busy       *)
(* ignores it.                                                             *)
DoIO(d) ==
  /\ machine = "Running"
  /\ ExclusiveIo => d \notin busy /\ s_procq[d] = <<>>
  /\ busy' = busy \cup {d}
  /\ SoftBlock(d)

ClockWait ==
  /\ machine = "Running"
  /\ SoftBlock(PseudoClock)
  /\ UNCHANGED busy

(* GETTIME looks for the process whose pid is the number of the CPU, 0:    *)
(* there is none.                                                          *)
GetTime ==
  /\ machine = "Running"
  /\ Fault(IF semd_h = <<>> THEN "GetTimeFault" ELSE "WildPidSearch")

(* YIELD: to the tail, whatever the priority.                              *)
Yield ==
  /\ machine = "Running"
  /\ Scheduler(Append(readyQueue, currentProcess), processCount,
               softBlockCount)
  /\ UNCHANGED <<pcbFree, tree, asl, processCount, softBlockCount, semValue,
                 busy>>
-----------------------------------------------------------------------------
(* Exceptions and interrupts.                                              *)

(* passUpOrDie, for TLB exceptions, program traps, system calls above the  *)
(* nucleus' and nucleus calls in user mode: with a support structure the   *)
(* nucleus keeps its state and the process goes on in its handler; without *)
(* one it dies.                                                            *)
PassUpOrDie ==
  /\ machine = "Running"
  /\ ~p_supportStruct[currentProcess]
  /\ TermSelf

(* Mutant of HandlePLT: the running process keeps the head of the queue.   *)
HandlePLTAtHead ==
  /\ machine = "Running"
  /\ Scheduler(<<currentProcess>> \o readyQueue, processCount, softBlockCount)
  /\ UNCHANGED <<pcbFree, tree, asl, processCount, softBlockCount, semValue,
                 busy>>

(* The processor local timer: the running process goes behind those of its *)
(* priority.  In WAIT the timer is masked.                                 *)
HandlePLT ==
  /\ machine = "Running"
  /\ Scheduler(InsertProcQ(readyQueue, p_prio, currentProcess), processCount,
               softBlockCount)
  /\ UNCHANGED <<pcbFree, tree, asl, processCount, softBlockCount, semValue,
                 busy>>

Interruptible == machine \in {"Running", "Waiting"}

(* Mutant of HandleDevice: the soft-block count does not go down.          *)
HandleDeviceKeepsSoftCount(d) ==
  /\ Interruptible
  /\ d \in busy
  /\ busy' = busy \ {d}
  /\ \/ /\ s_procq[d] # <<>>
        /\ LET p == Head(s_procq[d])
           IN  /\ RemoveBlocked(d, {p})
               /\ Resume(InsertProcQ(readyQueue, p_prio, p), softBlockCount)
        /\ UNCHANGED semValue
     \/ /\ s_procq[d] = <<>>
        /\ semValue[d] < MaxValue
        /\ semValue' = [semValue EXCEPT ![d] = @ + 1]
        /\ Resume(readyQueue, softBlockCount)
        /\ UNCHANGED asl
  /\ UNCHANGED <<pcbFree, tree, processCount, softBlockCount>>

(* A device completes and interrupts: its first waiter is made ready; with *)
(* no waiter the semaphore is incremented.                                 *)
HandleDevice(d) ==
  /\ Interruptible
  /\ d \in busy
  /\ busy' = busy \ {d}
  /\ \/ /\ s_procq[d] # <<>>
        /\ LET p == Head(s_procq[d])
           IN  /\ RemoveBlocked(d, {p})
               /\ Resume(InsertProcQ(readyQueue, p_prio, p),
                         softBlockCount - 1)
        /\ softBlockCount' = softBlockCount - 1
        /\ UNCHANGED semValue
     \/ /\ s_procq[d] = <<>>
        /\ semValue[d] < MaxValue
        /\ semValue' = [semValue EXCEPT ![d] = @ + 1]
        /\ Resume(readyQueue, softBlockCount)
        /\ UNCHANGED <<asl, softBlockCount>>
  /\ UNCHANGED <<pcbFree, tree, processCount>>

(* A terminal interrupts with an error status: neither branch of           *)
(* handleDevice takes it, sem stays NULL and semIndex 0.                   *)
HandleTerminalError(d) ==
  /\ Interruptible
  /\ d \in busy \cap Terminals
  /\ Fault("NullSemStore")

(* Mutant of HandleIntervalClock: the soft-block count is reset to zero.   *)
HandleIntervalClockResets ==
  LET w == s_procq[PseudoClock]
  IN  /\ Interruptible
      /\ RemoveBlocked(PseudoClock, Range(w))
      /\ softBlockCount' = 0
      /\ \E q \in Wakeups(readyQueue, p_prio, w) : Resume(q, softBlockCount')
      /\ UNCHANGED <<pcbFree, tree, processCount, semValue, busy>>

(* The interval timer: every waiter of the pseudo-clock is made ready.     *)
HandleIntervalClock ==
  LET w == s_procq[PseudoClock]
  IN  /\ Interruptible
      /\ RemoveBlocked(PseudoClock, Range(w))
      /\ softBlockCount' = softBlockCount - Len(w)
      /\ \E q \in Wakeups(readyQueue, p_prio, w) : Resume(q, softBlockCount')
      /\ UNCHANGED <<pcbFree, tree, processCount, semValue, busy>>

SystemCall ==
  \/ \E n \in Pcbs, prio \in Prios, support \in BOOLEAN :
       CreateProcess(n, prio, support)
  \/ TermSelf
  \/ \E t \in Pcbs : TermProcess(t)
  \/ TermProcessLost
  \/ \E s \in UserSems : Passeren(s) \/ Verhogen(s)
  \/ \E d \in Devices : DoIO(d)
  \/ ClockWait
  \/ GetTime
  \/ Yield

Interrupt ==
  \/ HandlePLT
  \/ \E d \in Devices : HandleDevice(d) \/ HandleTerminalError(d)
  \/ HandleIntervalClock

Next == SystemCall \/ PassUpOrDie \/ Interrupt

Spec == Init /\ [][Next]_vars

(* The interval timer and the local timer go off for ever, and a device    *)
(* that has a command completes it: nothing is assumed of the processes.   *)
Fairness ==
  /\ WF_vars(HandlePLT)
  /\ WF_vars(HandleIntervalClock)
  /\ \A d \in Devices : WF_vars(HandleDevice(d))

FairSpec == Spec /\ Fairness
-----------------------------------------------------------------------------
(* Every variable stays in its range; in particular the two unsigned       *)
(* counters of initial.c never go below zero.                              *)
TypeOK ==
  /\ pcbFree \subseteq Pcbs
  /\ p_parent \in [Pcbs -> Pcbs \cup {None}]
  /\ p_semAdd \in [Pcbs -> Keys \cup {None}]
  /\ p_prio \in [Pcbs -> Prios]
  /\ p_supportStruct \in [Pcbs -> BOOLEAN]
  /\ semd_h \in Seq(Keys)
  /\ s_procq \in [Keys -> Seq(Pcbs)]
  /\ readyQueue \in Seq(Pcbs)
  /\ currentProcess \in Pcbs \cup {None}
  /\ processCount \in Nat
  /\ softBlockCount \in Nat
  /\ semValue \in [Keys -> Nat]
  /\ busy \subseteq Devices
  /\ machine \in Outcomes \cup Faults

(* A PCB has one p_list link: it is on the ready queue at most once, or on *)
(* the queue of the one semaphore its p_semAdd names, or free, or running. *)
OneQueueAtATime ==
  /\ IsInjective(readyQueue)
  /\ \A k \in Keys : IsInjective(s_procq[k])
  /\ \A p \in Pcbs, k \in Keys : p \in Waiters(k) <=> p_semAdd[p] = k
  /\ \A p \in Pcbs : p_semAdd[p] # None => p \in Live \ Ready
  /\ Ready \subseteq Live
  /\ currentProcess # None =>
       currentProcess \notin Ready /\ p_semAdd[currentProcess] = None

(* The CPU runs a live process exactly when it is not idle; it only idles  *)
(* when nothing is ready, and the counters still say why it does.          *)
CpuInv ==
  /\ machine = "Running" => currentProcess \in Live
  /\ machine \in Outcomes \ {"Running"} =>
       currentProcess = None /\ readyQueue = <<>>
  /\ machine = "Halted" => processCount = 0
  /\ machine = "Waiting" => processCount > 0 /\ softBlockCount > 0
  /\ machine = "Panicked" => processCount > 0 /\ softBlockCount = 0

(* semd_h holds exactly one descriptor for each semaphore with waiters.    *)
DescriptorsInv ==
  /\ IsInjective(semd_h)
  /\ \A k \in Keys : k \in Range(semd_h) <=> s_procq[k] # <<>>

(* A semaphore with a positive value has nobody waiting on it.             *)
SemaphoreInv == \A k \in Keys : semValue[k] > 0 => s_procq[k] = <<>>

(* processCount is the number of processes that exist, so that scheduler() *)
(* halts when and only when the last one is gone.                          *)
ProcessCountInv == processCount = Cardinality(Live)

SoftBlocked == {p \in Pcbs : p_semAdd[p] \in SoftKeys}

(* softBlockCount covers every process that waits for an interrupt, so     *)
(* that scheduler() never panics while one is due, and never underflows.   *)
SoftBlockCovers == softBlockCount >= Cardinality(SoftBlocked)

(* The parent of a live process is live; a free PCB has no parent.         *)
ParentsInv ==
  \A p \in Pcbs : p_parent[p] # None => {p, p_parent[p]} \subseteq Live

(* The inductive invariant: it holds for any programs, faults included.    *)
IInv ==
  /\ TypeOK
  /\ OneQueueAtATime
  /\ CpuInv
  /\ DescriptorsInv
  /\ SemaphoreInv
  /\ ProcessCountInv
  /\ SoftBlockCovers
  /\ ParentsInv

(* insertBlocked always finds a descriptor when the running process blocks *)
(* (its result is ignored by syscallHandler, which would lose the caller). *)
SemdAvailable == machine = "Running" => Len(semd_h) < MAXPROC

(* The live processes form one tree under the process main() created, so   *)
(* that TERMPROCESS of the root ends the system.                           *)
OneTree ==
  Live # {} => \E r \in Live : p_parent[r] = None /\ Subtree(r) = Live

(* HALT only when every process has terminated.                            *)
HaltWhenAllDead == machine = "Halted" => Live = {}

(* PANIC only in a deadlock: no process runs, is ready, or waits for an    *)
(* interrupt.                                                              *)
PanicOnlyInDeadlock ==
  machine = "Panicked" => SoftBlocked = {} /\ Ready = {} /\ Live # {}

(* When no device waiter is ever killed: softBlockCount is exact, and no   *)
(* live process drops out of every queue.                                  *)
SoftBlockExact == softBlockCount = Cardinality(SoftBlocked)

NobodyLost ==
  \A p \in Live : \/ p = currentProcess
                  \/ p \in Ready
                  \/ p_semAdd[p] # None

(* When in addition devices are used one operation at a time: the CPU only *)
(* waits when something will interrupt it and wake a process.              *)
WaitHasWakeup ==
  machine = "Waiting" =>
    \/ Waiters(PseudoClock) # {}
    \/ \E d \in busy : Waiters(d) # {}

(* A semaphore wakes its waiters in order of arrival: nobody who comes     *)
(* later gets in front of a process that waits, and a process leaves the   *)
(* queue alive only after those ahead of it.                               *)
Ahead(q, p, r) ==
  p \in Range(q) /\ (r \in Range(q) => Pos(q, p) < Pos(q, r))

NoOvertaking ==
  [][\A k \in Keys, p, r \in Pcbs :
       p # r /\ Ahead(s_procq[k], p, r) /\ p \in Range(s_procq'[k])
         => /\ Ahead(s_procq'[k], p, r)
            /\ r \in Waiters(k) \ Range(s_procq'[k]) => r \in pcbFree']_vars

(* With one priority, round robin: every ready process gets the CPU.       *)
ReadyEventuallyRuns ==
  \A p \in Pcbs : p \in Ready ~>
    (currentProcess = p \/ p \in pcbFree \/ machine \in Faults)

(* A process that waits for a device or for the pseudo-clock is made ready *)
(* again: each operation is answered by its own interrupt.                 *)
SoftBlockEnds ==
  \A p \in Pcbs : p_semAdd[p] \in SoftKeys ~>
    (p_semAdd[p] \notin SoftKeys \/ machine \in Faults)
(* The nucleus implements the semaphores it promises: whatever happens in  *)
(* its queues, tables and counters, a process sees one P, V, tick, birth   *)
(* or death at a time.                                                     *)
Promise == INSTANCE Semaphores WITH
             Procs <- Pcbs, alive <- Live, value <- semValue, queue <- s_procq

KeepsPromise == Promise!Spec
-----------------------------------------------------------------------------
(* What the repository says of the nucleus and the code does not do.       *)

(* phase2/p2test.c expects a process to die with the parent it terminates. *)
KilledProcessStops == currentProcess \notin pcbFree

(* The comment of TERMPROCESS: otherwise the current process must go on.   *)
CallerContinues == machine # "WildPidSearch"

(* The terminal calls of phase3/sysSupport.c return the status of a failed *)
(* character to their caller: handleDevice must deliver it.                *)
TerminalErrorDelivered == machine # "NullSemStore"

(* scheduler() panics in a deadlock: in WAIT some process is soft-blocked. *)
DeadlockDetected == machine = "Waiting" => SoftBlocked # {}
=============================================================================
