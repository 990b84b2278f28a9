------------------------------- MODULE DeviceIo -------------------------------
(***************************************************************************)
(* DOIO from the command to the status that comes back: the registers of   *)
(* the devices, the addresses by which programs and interrupt handlers     *)
(* name them, and the semaphores both must meet on (phase2/functions.c,    *)
(* exceptions.c, interrupts.c).  Nucleus knows a device only as a key.     *)
(*                                                                         *)
(* A register <<line, dev, sub>> is a device, or one of the two halves of  *)
(* a terminal.  Which ready process runs is left open; processes are not   *)
(* terminated.  A device is used by one process at a time, as the support  *)
(* level's semaphores and p2test.c's term_mut see to, and a terminal       *)
(* completes with the status its handler expects (else see Nucleus,        *)
(* HandleTerminalError).                                                   *)
(***************************************************************************)
EXTENDS Integers, Sequences, FiniteSetsExt

CONSTANTS
  Procs,      \* processes that do I/O or wait for the clock
  Devs,       \* installed devices: pairs of an interrupt line and a number
  None

ASSUME DevsAssumption == Devs \subseteq (3..7) \X (0..7)
ASSUME NoneAssumption == None \notin Procs

START_DEVREG == 268435540   \* 0x10000054
PSEUDOINDEX  == 48
SemIndexes   == 0..48
Terminal     == 7           \* calcIntLineNo of IL_TERMINAL
Recv   == 0                 \* also the only register of other devices
Transm == 1

RegistersOf(D) == {<<c[1], c[2], Recv>> : c \in D}
                    \cup {<<c[1], c[2], Transm>> : c \in {e \in D : e[1] = Terminal}}
Registers == RegistersOf(Devs)

VARIABLES
  phase,      \* what a register's status says: ready, busy or done (hardware)
  result,     \* the process whose command that status is about
  ready,      \* processes that are ready or running
  a0,         \* the status in a process' a0: of which register, whose command;
              \* None while a0 is the number of the call it waits in
  deviceSemaphore, waiting,   \* value and queue, by index
  softBlockCount

vars == <<phase, result, ready, a0, deviceSemaphore, waiting, softBlockCount>>
-----------------------------------------------------------------------------
(* Mutant: a terminal has one index, not two.                              *)
findDeviceIndexEvenStride(addr) ==
  LET bottom == addr - START_DEVREG IN
  IF bottom \in 0..(49 * 16 - 1) THEN bottom \div 16 ELSE -1

(* findDeviceIndex.  Below START_DEVREG the unsigned difference wraps      *)
(* around to an index far beyond 49.                                       *)
findDeviceIndex(addr) ==
  LET bottom == addr - START_DEVREG
      index  == IF bottom >= 32 * 16 THEN 32 + (bottom - 32 * 16) \div 8
                                     ELSE bottom \div 16
  IN  IF bottom < 0 \/ index >= 49 THEN -1 ELSE index

(* calcDevAddr, and the addresses of the command registers in it: command  *)
(* of a dtpreg_t, recv_command and transm_command of a termreg_t.          *)
calcDevAddr(line, dev) == START_DEVREG + (line - 3) * 128 + dev * 16
CommandAddr(r) == calcDevAddr(r[1], r[2]) + (IF r[3] = Transm THEN 12 ELSE 4)

(* Mutant of InterruptIndex: both halves of a terminal use its base.       *)
InterruptIndexOfDevice(r) == findDeviceIndex(calcDevAddr(r[1], r[2]))

(* The semaphore DOIO uses, and the one the handler of r's interrupt uses. *)
DoIOIndex(r)      == findDeviceIndex(CommandAddr(r))
InterruptIndex(r) ==
  findDeviceIndex(calcDevAddr(r[1], r[2]) + (IF r[3] = Transm THEN 8 ELSE 0))

(* Mutant of Pending: calcDevNo forgets DEV7ON.                            *)
PendingSevenDevices(line) ==
  {d \in 0..6 : \E r \in Registers : r[1] = line /\ r[2] = d /\ phase[r] = "done"}

(* The interrupting devices bit map of a line.                             *)
Pending(line) ==
  {d \in 0..7 : \E r \in Registers : r[1] = line /\ r[2] = d /\ phase[r] = "done"}

calcDevNo(line) == Min(Pending(line))
-----------------------------------------------------------------------------
Init ==
  /\ phase = [r \in Registers |-> "ready"]
  /\ result = [r \in Registers |-> None]
  /\ ready = Procs
  /\ a0 = [p \in Procs |-> None]
  /\ deviceSemaphore = [i \in SemIndexes |-> 0]
  /\ waiting = [i \in SemIndexes |-> <<>>]
  /\ softBlockCount = 0

(* An interrupt is taken before the next instruction of a process.         *)
NothingPending == \A line \in 3..7 : Pending(line) = {}

(* insertBlocked, or a decrement that leaves the caller on no queue.       *)
SoftBlock(p, i) ==
  /\ IF deviceSemaphore[i] <= 0
     THEN /\ waiting' = [waiting EXCEPT ![i] = Append(@, p)]
          /\ UNCHANGED deviceSemaphore
     ELSE /\ deviceSemaphore' = [deviceSemaphore EXCEPT ![i] = @ - 1]
          /\ UNCHANGED waiting
  /\ ready' = ready \ {p}
  /\ a0' = [a0 EXCEPT ![p] = None]
  /\ softBlockCount' = softBlockCount + 1

(* DOIO of p with the address of r's command register.                     *)
DoIO(p, r) ==
  /\ p \in ready
  /\ NothingPending
  /\ phase[r] = "ready"
  /\ phase' = [phase EXCEPT ![r] = "busy"]
  /\ result' = [result EXCEPT ![r] = p]
  /\ SoftBlock(p, DoIOIndex(r))

ClockWait(p) ==
  /\ p \in ready
  /\ NothingPending
  /\ SoftBlock(p, PSEUDOINDEX)
  /\ UNCHANGED <<phase, result>>

(* The device finishes; it interrupts until it is acknowledged.            *)
Complete(r) ==
  /\ phase[r] = "busy"
  /\ phase' = [phase EXCEPT ![r] = "done"]
  /\ UNCHANGED <<result, ready, a0, deviceSemaphore, waiting, softBlockCount>>

(* The register handleDevice reads and acknowledges: of a terminal, the    *)
(* transmitter when it is done, else the receiver.                         *)
Served(line) ==
  LET transm == <<line, calcDevNo(line), Transm>> IN
  IF line = Terminal /\ phase[transm] = "done"
  THEN transm ELSE <<line, calcDevNo(line), Recv>>

HandleDevice(line) ==
  LET r == Served(line)
      i == InterruptIndex(r)
  IN  /\ Pending(line) # {}
      /\ phase' = [phase EXCEPT ![r] = "ready"]
      /\ IF i # -1 /\ waiting[i] # <<>>
         THEN LET p == Head(waiting[i])
              IN  /\ waiting' = [waiting EXCEPT ![i] = Tail(@)]
                  /\ a0' = [a0 EXCEPT ![p] = <<r, result[r]>>]
                  /\ ready' = ready \cup {p}
                  /\ softBlockCount' = softBlockCount - 1
                  /\ UNCHANGED deviceSemaphore
         ELSE /\ deviceSemaphore' = IF i = -1 THEN deviceSemaphore
                                    ELSE [deviceSemaphore EXCEPT ![i] = @ + 1]
              /\ UNCHANGED <<waiting, a0, ready, softBlockCount>>
      /\ result' = [result EXCEPT ![r] = None]

(* Mutant: one decrement for the whole tick.                               *)
HandleIntervalClockCountsOne ==
  LET w == waiting[PSEUDOINDEX]
  IN  /\ waiting' = [waiting EXCEPT ![PSEUDOINDEX] = <<>>]
      /\ ready' = ready \cup {w[i] : i \in DOMAIN w}
      /\ softBlockCount' = softBlockCount - 1
      /\ UNCHANGED <<phase, result, a0, deviceSemaphore>>

HandleIntervalClock ==
  LET w == waiting[PSEUDOINDEX]
  IN  /\ waiting' = [waiting EXCEPT ![PSEUDOINDEX] = <<>>]
      /\ ready' = ready \cup {w[i] : i \in DOMAIN w}
      /\ softBlockCount' = softBlockCount - Len(w)
      /\ UNCHANGED <<phase, result, a0, deviceSemaphore>>

Next ==
  \/ \E p \in Procs : ClockWait(p) \/ \E r \in Registers : DoIO(p, r)
  \/ \E r \in Registers : Complete(r)
  \/ \E line \in 3..7 : HandleDevice(line)
  \/ HandleIntervalClock

Spec == Init /\ [][Next]_vars

(* Devices finish, and interrupts are taken; processes need do nothing.    *)
Fairness ==
  /\ \A r \in Registers : WF_vars(Complete(r))
  /\ \A line \in 3..7 : WF_vars(HandleDevice(line))
  /\ WF_vars(HandleIntervalClock)

FairSpec == Spec /\ Fairness
-----------------------------------------------------------------------------
TypeOK ==
  /\ phase \in [Registers -> {"ready", "busy", "done"}]
  /\ result \in [Registers -> Procs \cup {None}]
  /\ ready \subseteq Procs
  /\ a0 \in [Procs -> (Registers \X Procs) \cup {None}]
  /\ deviceSemaphore \in [SemIndexes -> Nat]
  /\ waiting \in [SemIndexes -> Seq(Procs)]
  /\ softBlockCount \in Nat

(* Each operation in progress has its issuer, alone, on the semaphore its  *)
(* interrupt will use, and a register at rest has nobody on it: the branch *)
(* of handleDevice that "dovrebbe essere impossibile" never counts up.     *)
OneWaiterPerOperation ==
  /\ \A r \in Registers :
       waiting[InterruptIndex(r)] = IF phase[r] = "ready" THEN <<>>
                                                         ELSE <<result[r]>>
  /\ \A i \in SemIndexes : deviceSemaphore[i] = 0

InProgress == {r \in Registers : phase[r] # "ready"}

(* softBlockCount is the number of operations in progress and of processes *)
(* that wait for the clock: what DOIO and CLOCKWAIT count up, the one      *)
(* interrupt that ends the wait counts down, and no other.  The scheduler  *)
(* tells WAIT from PANIC by it.                                            *)
SoftBlockCounted ==
  softBlockCount = Cardinality(InProgress) + Len(waiting[PSEUDOINDEX])

(* The status DOIO returns is that of the register and of the command the  *)
(* caller waited for, whichever devices of the line completed with it.     *)
OwnStatus ==
  [][\A r \in Registers, p \in ready' \ ready :
       waiting[DoIOIndex(r)] # <<>> /\ p = Head(waiting[DoIOIndex(r)])
         => a0'[p] = <<r, p>>]_vars

(* Every operation returns, and every wait for the clock ends: lower       *)
(* numbered devices of the line, served first, cannot keep it waiting.     *)
OperationReturns == \A p \in Procs : p \notin ready ~> p \in ready
=============================================================================
