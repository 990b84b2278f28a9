---------------------------- MODULE DeviceIoProofs ----------------------------
(***************************************************************************)
(* DeviceIo for every set of devices and processes: commands and           *)
(* interrupts meet on the same semaphore, one process at a time, and each  *)
(* caller gets its own status.                                             *)
(***************************************************************************)
EXTENDS DeviceIo, FiniteSetTheorems, TLAPS

(* The table in the comment of findDeviceIndex.                            *)
Index(r) == IF r[1] = Terminal THEN 32 + 2 * r[2] + r[3]
                               ELSE 8 * (r[1] - 3) + r[2]

(* What a register is: a receiver half, or a transmitter half of a         *)
(* terminal.                                                               *)
LEMMA RegisterFields ==
  ASSUME NEW r \in Registers
  PROVE  /\ r = <<r[1], r[2], r[3]>>
         /\ r[1] \in 3..7 /\ r[2] \in 0..7 /\ r[3] \in {Recv, Transm}
         /\ r[1] # Terminal => r[3] = Recv
BY DevsAssumption DEF Registers, RegistersOf, Recv, Transm

(* The address of a command and the address the interrupt handler computes *)
(* have the index of the table.                                            *)
LEMMA IndexOfAddresses ==
  ASSUME NEW r \in Registers
  PROVE  /\ DoIOIndex(r) = Index(r)
         /\ InterruptIndex(r) = Index(r)
         /\ Index(r) \in 0..47
<1>1. PICK l \in 3..7, d \in 0..7, x \in {0, 1} :
        r = <<l, d, x>> /\ (l # 7 => x = 0)
  BY RegisterFields DEF Recv, Transm, Terminal
<1>2. CASE l = 7
  <2>1. (512 + d * 16 + 8 * x + 4 - 512) \div 8 = 2 * d + x
    BY <1>1
  <2>2. (512 + d * 16 + 8 * x - 512) \div 8 = 2 * d + x
    BY <1>1
  <2> QED
    BY <1>1, <1>2, <2>1, <2>2
    DEF DoIOIndex, InterruptIndex, Index, findDeviceIndex, CommandAddr,
        calcDevAddr, START_DEVREG, Terminal, Transm
<1>3. CASE l # 7
  <2>1. x = 0 /\ l \in 3..6
    BY <1>1, <1>3
  <2>2. ((l - 3) * 128 + d * 16 + 4) \div 16 = 8 * (l - 3) + d
    BY <1>1
  <2>3. ((l - 3) * 128 + d * 16) \div 16 = 8 * (l - 3) + d
    BY <1>1
  <2> QED
    BY <1>1, <1>3, <2>1, <2>2, <2>3
    DEF DoIOIndex, InterruptIndex, Index, findDeviceIndex, CommandAddr,
        calcDevAddr, START_DEVREG, Terminal, Transm
<1> QED BY <1>2, <1>3

(* Different registers have different semaphores.                          *)
LEMMA IndexInjective ==
  ASSUME NEW r \in Registers, NEW s \in Registers, Index(r) = Index(s)
  PROVE  r = s
<1>1. PICK l \in 3..7, d \in 0..7, x \in {0, 1} :
        r = <<l, d, x>> /\ (l # 7 => x = 0)
  BY RegisterFields DEF Recv, Transm, Terminal
<1>2. PICK m \in 3..7, e \in 0..7, y \in {0, 1} :
        s = <<m, e, y>> /\ (m # 7 => y = 0)
  BY RegisterFields DEF Recv, Transm, Terminal
<1> QED BY <1>1, <1>2 DEF Index, Terminal
-----------------------------------------------------------------------------
(* The inductive invariant.  Apart is what OneWaiterPerOperation does not  *)
(* say: a process waits in one place, so that an interrupt cannot wake     *)
(* somebody whose own operation is still going on.                         *)
Typed ==
  /\ phase \in [Registers -> {"ready", "busy", "done"}]
  /\ result \in [Registers -> Procs \cup {None}]
  /\ ready \subseteq Procs
  /\ a0 \in [Procs -> (Registers \X Procs) \cup {None}]
  /\ deviceSemaphore \in [SemIndexes -> Nat]
  /\ waiting \in [SemIndexes -> Seq(Procs)]

ClockWaiters == {waiting[PSEUDOINDEX][i] : i \in DOMAIN waiting[PSEUDOINDEX]}

Apart ==
  /\ ClockWaiters \cap ready = {}
  /\ \A r \in Registers : phase[r] # "ready" =>
       /\ result[r] \in Procs \ (ready \cup ClockWaiters)
       /\ \A s \in Registers :
            phase[s] # "ready" /\ result[s] = result[r] => s = r

DInv == Typed /\ OneWaiterPerOperation /\ Apart

(* calcDevNo finds a device when one is pending.                           *)
LEMMA CalcDevNoPending ==
  ASSUME NEW line \in 3..7, Pending(line) # {}
  PROVE  calcDevNo(line) \in Pending(line)
<1> DEFINE P == Pending(line)
<1>1. P \subseteq 0..7 /\ P # {}
  BY DEF Pending
<1> HIDE DEF P
<1>2. \E x \in P : \A y \in P : x <= y
  <2> SUFFICES ASSUME \A x \in P : \E y \in P : ~(x <= y)
               PROVE  FALSE
    OBVIOUS
  <2>1. 0 \notin P BY <1>1
  <2>2. 1 \notin P BY <1>1, <2>1
  <2>3. 2 \notin P BY <1>1, <2>1, <2>2
  <2>4. 3 \notin P BY <1>1, <2>1, <2>2, <2>3
  <2>5. 4 \notin P BY <1>1, <2>1, <2>2, <2>3, <2>4
  <2>6. 5 \notin P BY <1>1, <2>1, <2>2, <2>3, <2>4, <2>5
  <2>7. 6 \notin P BY <1>1, <2>1, <2>2, <2>3, <2>4, <2>5, <2>6
  <2>8. 7 \notin P BY <1>1, <2>1, <2>2, <2>3, <2>4, <2>5, <2>6, <2>7
  <2>9. P = {} BY <1>1, <2>1, <2>2, <2>3, <2>4, <2>5, <2>6, <2>7, <2>8
  <2> QED BY <1>1, <2>9
<1>3. Min(P) \in P
  BY <1>2 DEF Min
<1> QED BY <1>3 DEF P, calcDevNo

(* The register an interrupt handler serves is one that is done.           *)
LEMMA ServedIsDone ==
  ASSUME NEW line \in 3..7, Pending(line) # {}
  PROVE  Served(line) \in Registers /\ phase[Served(line)] = "done"
<1>1. PICK r \in Registers :
        r[1] = line /\ r[2] = calcDevNo(line) /\ phase[r] = "done"
  BY CalcDevNoPending DEF Pending
<1>2. /\ r = <<line, calcDevNo(line), r[3]>>
      /\ r[3] \in {Recv, Transm}
      /\ line # Terminal => r[3] = Recv
  BY <1>1, RegisterFields
<1>3. CASE r[3] = Transm
  BY <1>1, <1>2, <1>3 DEF Served, Transm, Recv
<1>4. CASE r[3] = Recv
  <2>1. CASE /\ line = Terminal
             /\ phase[<<line, calcDevNo(line), Transm>>] = "done"
    <3>1. <<line, calcDevNo(line), Transm>> \in Registers
      BY <1>1, <1>2, <1>4, <2>1 DEF Registers, RegistersOf, Transm, Recv
    <3> QED BY <2>1, <3>1 DEF Served
  <2>2. CASE ~(/\ line = Terminal
               /\ phase[<<line, calcDevNo(line), Transm>>] = "done")
    BY <1>1, <1>2, <1>4, <2>2 DEF Served
  <2> QED BY <2>1, <2>2
<1> QED BY <1>2, <1>3, <1>4

(* What HandleDevice does when the invariant holds: the only waiter of the *)
(* register, its issuer, is made ready with the status.                    *)
LEMMA HandleDeviceWakesIssuer ==
  ASSUME DInv, NEW line \in 3..7, HandleDevice(line)
  PROVE  LET r == Served(line)
             p == result[r]
         IN  /\ r \in Registers /\ phase[r] = "done"
             /\ p \in Procs \ (ready \cup ClockWaiters)
             /\ phase' = [phase EXCEPT ![r] = "ready"]
             /\ result' = [result EXCEPT ![r] = None]
             /\ waiting' = [waiting EXCEPT ![Index(r)] = <<>>]
             /\ a0' = [a0 EXCEPT ![p] = <<r, p>>]
             /\ ready' = ready \cup {p}
             /\ UNCHANGED deviceSemaphore
<1> DEFINE r == Served(line)
           p == result[r]
<1>1. r \in Registers /\ phase[r] = "done"
  BY ServedIsDone DEF HandleDevice
<1> HIDE DEF r
<1>2. InterruptIndex(r) = Index(r) /\ Index(r) \in 0..47
  BY <1>1, IndexOfAddresses
<1>3. waiting[Index(r)] = <<p>> /\ p \in Procs \ (ready \cup ClockWaiters)
  BY <1>1, <1>2 DEF DInv, OneWaiterPerOperation, Apart
<1>4. Head(<<p>>) = p /\ Tail(<<p>>) = <<>> /\ <<p>> # <<>>
  OBVIOUS
<1>5. Index(r) # -1
  BY <1>2
<1>6. /\ phase' = [phase EXCEPT ![r] = "ready"]
      /\ result' = [result EXCEPT ![r] = None]
      /\ waiting' = [waiting EXCEPT ![Index(r)] = Tail(@)]
      /\ a0' = [a0 EXCEPT ![p] = <<r, p>>]
      /\ ready' = ready \cup {p}
      /\ UNCHANGED deviceSemaphore
  BY <1>2, <1>3, <1>4, <1>5 DEF HandleDevice, r
<1>7. waiting' = [waiting EXCEPT ![Index(r)] = <<>>]
  BY <1>3, <1>4, <1>6
<1> QED BY <1>1, <1>3, <1>6, <1>7 DEF r
-----------------------------------------------------------------------------
(* At the beginning nothing is in progress and nobody waits.               *)
LEMMA InitDInv == Init => DInv
<1> SUFFICES ASSUME Init PROVE DInv
  OBVIOUS
<1>1. Typed
  BY DEF Init, Typed
<1>2. OneWaiterPerOperation
  <2>1. ASSUME NEW r \in Registers
        PROVE  InterruptIndex(r) \in SemIndexes
    BY IndexOfAddresses DEF SemIndexes
  <2> QED BY <2>1 DEF Init, OneWaiterPerOperation
<1>3. Apart
  BY DEF Init, Apart, ClockWaiters, SemIndexes, PSEUDOINDEX
<1> QED BY <1>1, <1>2, <1>3 DEF DInv

(* DOIO finds its semaphore at 0 and without waiters, because the register *)
(* is at rest, and queues its caller there.                                *)
LEMMA DoIOKeepsDInv ==
  ASSUME DInv, NEW p \in Procs, NEW r \in Registers, DoIO(p, r)
  PROVE  DInv'
<1>1. DoIOIndex(r) = Index(r) /\ Index(r) \in 0..47
  BY IndexOfAddresses
<1>2. deviceSemaphore[Index(r)] = 0 /\ waiting[Index(r)] = <<>>
  <2>1. Index(r) \in SemIndexes /\ InterruptIndex(r) = Index(r)
    BY IndexOfAddresses DEF SemIndexes
  <2>2. phase[r] = "ready"
    BY DEF DoIO
  <2> QED BY <2>1, <2>2 DEF DInv, OneWaiterPerOperation
<1>3. Append(<<>>, p) = <<p>>
  OBVIOUS
<1>4. /\ p \in ready /\ phase[r] = "ready"
      /\ phase' = [phase EXCEPT ![r] = "busy"]
      /\ result' = [result EXCEPT ![r] = p]
      /\ waiting' = [waiting EXCEPT ![Index(r)] = <<p>>]
      /\ a0' = [a0 EXCEPT ![p] = None]
      /\ ready' = ready \ {p}
      /\ UNCHANGED deviceSemaphore
  BY <1>1, <1>2, <1>3 DEF DoIO, SoftBlock
<1>5. Typed'
  <2>1. Index(r) \in SemIndexes /\ <<p>> \in Seq(Procs)
    BY <1>1 DEF SemIndexes
  <2>2. waiting' \in [SemIndexes -> Seq(Procs)]
    BY <1>4, <2>1 DEF DInv, Typed
  <2> QED BY <1>4, <2>2 DEF DInv, Typed
<1>6. OneWaiterPerOperation'
  <2>1. ASSUME NEW s \in Registers
        PROVE  waiting'[InterruptIndex(s)]
                 = IF phase'[s] = "ready" THEN <<>> ELSE <<result'[s]>>
    <3>1. InterruptIndex(s) = Index(s) /\ Index(s) \in SemIndexes
      BY IndexOfAddresses DEF SemIndexes
    <3>2. CASE s = r
      BY <1>4, <3>1, <3>2 DEF DInv, Typed
    <3>3. CASE s # r
      <4>1. Index(s) # Index(r)
        BY <3>3, IndexInjective
      <4> QED BY <1>4, <3>1, <3>3, <4>1 DEF DInv, Typed, OneWaiterPerOperation
    <3> QED BY <3>2, <3>3
  <2> QED
    BY <1>4, <2>1 DEF OneWaiterPerOperation, InterruptIndex, DInv
<1>7. waiting'[PSEUDOINDEX] = waiting[PSEUDOINDEX]
  <2>1. Index(r) # PSEUDOINDEX /\ PSEUDOINDEX \in SemIndexes
    BY <1>1 DEF PSEUDOINDEX, SemIndexes
  <2> QED BY <1>4, <2>1 DEF DInv, Typed
<1>8. Apart'
  BY <1>4, <1>7 DEF DInv, Typed, Apart, ClockWaiters
<1> QED BY <1>5, <1>6, <1>8 DEF DInv

(* CLOCKWAIT queues its caller on a semaphore no register uses.            *)
LEMMA ClockWaitKeepsDInv ==
  ASSUME DInv, NEW p \in Procs, ClockWait(p)
  PROVE  DInv'
<1> DEFINE w == waiting[PSEUDOINDEX]
<1>1. PSEUDOINDEX \in SemIndexes /\ deviceSemaphore[PSEUDOINDEX] = 0
      /\ w \in Seq(Procs)
  BY DEF DInv, Typed, OneWaiterPerOperation, SemIndexes, PSEUDOINDEX
<1>2. /\ p \in ready
      /\ waiting' = [waiting EXCEPT ![PSEUDOINDEX] = Append(w, p)]
      /\ ready' = ready \ {p}
      /\ a0' = [a0 EXCEPT ![p] = None]
      /\ UNCHANGED <<deviceSemaphore, phase, result>>
  BY <1>1 DEF ClockWait, SoftBlock
<1>3. Typed'
  BY <1>1, <1>2 DEF DInv, Typed
<1>4. OneWaiterPerOperation'
  <2>1. ASSUME NEW s \in Registers
        PROVE  waiting'[InterruptIndex(s)] = waiting[InterruptIndex(s)]
    <3>1. /\ InterruptIndex(s) \in SemIndexes
          /\ InterruptIndex(s) # PSEUDOINDEX
      BY IndexOfAddresses DEF PSEUDOINDEX, SemIndexes
    <3> QED BY <1>1, <1>2, <3>1 DEF DInv, Typed
  <2> QED BY <1>2, <2>1 DEF DInv, OneWaiterPerOperation, InterruptIndex
<1>5. ClockWaiters' = ClockWaiters \cup {p}
  <2>1. waiting'[PSEUDOINDEX] = Append(w, p)
    BY <1>1, <1>2 DEF DInv, Typed
  <2> HIDE DEF w
  <2>2. {Append(w, p)[i] : i \in DOMAIN Append(w, p)}
          = {w[i] : i \in DOMAIN w} \cup {p}
    <3>1. DOMAIN Append(w, p) = DOMAIN w \cup {Len(w) + 1}
      BY <1>1
    <3>2. \A i \in DOMAIN w : Append(w, p)[i] = w[i]
      BY <1>1
    <3>3. Append(w, p)[Len(w) + 1] = p
      BY <1>1
    <3> QED BY <3>1, <3>2, <3>3
  <2> QED BY <2>1, <2>2 DEF ClockWaiters, w
<1>6. Apart'
  BY <1>2, <1>5 DEF DInv, Typed, Apart
<1> QED BY <1>3, <1>4, <1>6 DEF DInv

(* A device that finishes leaves the waiter where it is.                   *)
LEMMA CompleteKeepsDInv ==
  ASSUME DInv, NEW r \in Registers, Complete(r)
  PROVE  DInv'
<1>1. Typed'
  BY DEF DInv, Typed, Complete
<1>2. \A s \in Registers : phase'[s] = "ready" <=> phase[s] = "ready"
  BY DEF DInv, Typed, Complete
<1>3. OneWaiterPerOperation'
  BY <1>2 DEF DInv, OneWaiterPerOperation, Complete, InterruptIndex
<1>4. Apart'
  BY <1>2 DEF DInv, Apart, Complete, ClockWaiters
<1> QED BY <1>1, <1>3, <1>4 DEF DInv

(* The interrupt handler empties the one queue of the register it          *)
(* acknowledges.                                                           *)
LEMMA HandleDeviceKeepsDInv ==
  ASSUME DInv, NEW line \in 3..7, HandleDevice(line)
  PROVE  DInv'
<1> DEFINE r == Served(line)
           p == result[r]
<1>1. /\ r \in Registers /\ phase[r] = "done"
      /\ p \in Procs \ (ready \cup ClockWaiters)
      /\ phase' = [phase EXCEPT ![r] = "ready"]
      /\ result' = [result EXCEPT ![r] = None]
      /\ waiting' = [waiting EXCEPT ![Index(r)] = <<>>]
      /\ a0' = [a0 EXCEPT ![p] = <<r, p>>]
      /\ ready' = ready \cup {p}
      /\ UNCHANGED deviceSemaphore
  BY HandleDeviceWakesIssuer
<1> HIDE DEF r
<1>2. Index(r) \in 0..47
  BY <1>1, IndexOfAddresses
<1>3. Typed'
  <2>1. Index(r) \in SemIndexes /\ <<>> \in Seq(Procs)
    BY <1>2 DEF SemIndexes
  <2>2. waiting' \in [SemIndexes -> Seq(Procs)]
    BY <1>1, <2>1 DEF DInv, Typed
  <2>3. a0' \in [Procs -> (Registers \X Procs) \cup {None}]
    BY <1>1 DEF DInv, Typed
  <2> QED BY <1>1, <2>2, <2>3 DEF DInv, Typed
<1>4. OneWaiterPerOperation'
  <2>1. ASSUME NEW s \in Registers
        PROVE  waiting'[InterruptIndex(s)]
                 = IF phase'[s] = "ready" THEN <<>> ELSE <<result'[s]>>
    <3>1. InterruptIndex(s) = Index(s) /\ Index(s) \in SemIndexes
      BY IndexOfAddresses DEF SemIndexes
    <3>2. CASE s = r
      BY <1>1, <3>1, <3>2 DEF DInv, Typed
    <3>3. CASE s # r
      <4>1. Index(s) # Index(r)
        BY <1>1, <3>3, IndexInjective
      <4> QED BY <1>1, <3>1, <3>3, <4>1 DEF DInv, Typed, OneWaiterPerOperation
    <3> QED BY <3>2, <3>3
  <2> QED
    BY <1>1, <2>1 DEF OneWaiterPerOperation, InterruptIndex, DInv
<1>5. waiting'[PSEUDOINDEX] = waiting[PSEUDOINDEX]
  <2>1. Index(r) # PSEUDOINDEX /\ PSEUDOINDEX \in SemIndexes
    BY <1>2 DEF PSEUDOINDEX, SemIndexes
  <2> QED BY <1>1, <2>1 DEF DInv, Typed
<1>6. Apart'
  <2>1. ClockWaiters' = ClockWaiters
    BY <1>5 DEF ClockWaiters
  <2>2. ASSUME NEW s \in Registers, phase'[s] # "ready"
        PROVE  /\ s # r /\ phase[s] # "ready" /\ result'[s] = result[s]
               /\ result[s] # p
    <3>1. s # r /\ phase[s] # "ready" /\ result'[s] = result[s]
      BY <1>1, <2>2 DEF DInv, Typed
    <3>2. result[s] # p
      BY <1>1, <3>1 DEF DInv, Apart
    <3> QED BY <3>1, <3>2
  <2> QED BY <1>1, <2>1, <2>2 DEF DInv, Apart
<1> QED BY <1>3, <1>4, <1>6 DEF DInv

(* The clock's handler empties its queue, which holds no issuer.           *)
LEMMA HandleIntervalClockKeepsDInv ==
  ASSUME DInv, HandleIntervalClock
  PROVE  DInv'
<1> DEFINE w == waiting[PSEUDOINDEX]
<1>1. w \in Seq(Procs) /\ PSEUDOINDEX \in SemIndexes
  BY DEF DInv, Typed, SemIndexes, PSEUDOINDEX
<1>2. /\ waiting' = [waiting EXCEPT ![PSEUDOINDEX] = <<>>]
      /\ ready' = ready \cup ClockWaiters
      /\ UNCHANGED <<phase, result, a0, deviceSemaphore>>
  BY DEF HandleIntervalClock, ClockWaiters
<1>3. ClockWaiters \subseteq Procs
  BY <1>1 DEF ClockWaiters
<1>4. Typed'
  <2>1. <<>> \in Seq(Procs)
    OBVIOUS
  <2>2. waiting' \in [SemIndexes -> Seq(Procs)]
    BY <1>1, <1>2, <2>1 DEF DInv, Typed
  <2> QED BY <1>2, <1>3, <2>2 DEF DInv, Typed
<1>5. OneWaiterPerOperation'
  <2>1. ASSUME NEW s \in Registers
        PROVE  waiting'[InterruptIndex(s)] = waiting[InterruptIndex(s)]
    <3>1. /\ InterruptIndex(s) \in SemIndexes
          /\ InterruptIndex(s) # PSEUDOINDEX
      BY IndexOfAddresses DEF PSEUDOINDEX, SemIndexes
    <3> QED BY <1>1, <1>2, <3>1 DEF DInv, Typed
  <2> QED BY <1>2, <2>1 DEF DInv, OneWaiterPerOperation, InterruptIndex
<1>6. ClockWaiters' = {}
  BY <1>1, <1>2 DEF ClockWaiters, DInv, Typed
<1>7. Apart'
  BY <1>2, <1>6 DEF DInv, Apart
<1> QED BY <1>4, <1>5, <1>7 DEF DInv

(* DInv is inductive.                                                      *)
LEMMA StepKeepsDInv == DInv /\ [Next]_vars => DInv'
<1> SUFFICES ASSUME DInv, [Next]_vars PROVE DInv'
  OBVIOUS
<1>1. ASSUME NEW p \in Procs, ClockWait(p) PROVE DInv'
  BY <1>1, ClockWaitKeepsDInv
<1>2. ASSUME NEW p \in Procs, NEW r \in Registers, DoIO(p, r) PROVE DInv'
  BY <1>2, DoIOKeepsDInv
<1>3. ASSUME NEW r \in Registers, Complete(r) PROVE DInv'
  BY <1>3, CompleteKeepsDInv
<1>4. ASSUME NEW line \in 3..7, HandleDevice(line) PROVE DInv'
  BY <1>4, HandleDeviceKeepsDInv
<1>5. CASE HandleIntervalClock
  BY <1>5, HandleIntervalClockKeepsDInv
<1>6. CASE UNCHANGED vars
  BY <1>6 DEF vars, DInv, Typed, OneWaiterPerOperation, InterruptIndex, Apart,
              ClockWaiters
<1> QED BY <1>1, <1>2, <1>3, <1>4, <1>5, <1>6 DEF Next

(* DInv holds in every reachable state.                                    *)
LEMMA Invariance == Spec => []DInv
BY InitDInv, StepKeepsDInv, PTL DEF Spec

(* Every operation in progress has exactly its issuer on its semaphore,    *)
(* for any devices and any number of processes; handleDevice never takes   *)
(* the branch for an interrupt nobody waits for.                           *)
THEOREM OperationsAndWaiters == Spec => []OneWaiterPerOperation
BY Invariance, PTL DEF DInv

(* Nobody is handed the status of another process' command, or of another  *)
(* register.                                                               *)
THEOREM StatusIsOwn == Spec => OwnStatus
<1> DEFINE A == \A r \in Registers, p \in ready' \ ready :
                  waiting[DoIOIndex(r)] # <<>> /\ p = Head(waiting[DoIOIndex(r)])
                    => a0'[p] = <<r, p>>
<1>1. ASSUME DInv, [Next]_vars PROVE [A]_vars
  <2> SUFFICES ASSUME NEW r \in Registers, NEW p \in ready' \ ready,
                      waiting[DoIOIndex(r)] # <<>>,
                      p = Head(waiting[DoIOIndex(r)])
               PROVE  a0'[p] = <<r, p>>
    OBVIOUS
  <2>1. phase[r] # "ready" /\ p = result[r]
    <3>1. waiting[DoIOIndex(r)] = IF phase[r] = "ready" THEN <<>> ELSE <<result[r]>>
      BY <1>1, IndexOfAddresses DEF DInv, OneWaiterPerOperation
    <3>2. Head(<<result[r]>>) = result[r]
      OBVIOUS
    <3> QED BY <3>1, <3>2
  <2>2. p \in Procs \ (ready \cup ClockWaiters)
    BY <1>1, <2>1 DEF DInv, Apart
  <2>3. ASSUME NEW line \in 3..7, HandleDevice(line)
        PROVE  a0'[p] = <<r, p>>
    <3> DEFINE s == Served(line)
               q == result[s]
    <3>1. /\ s \in Registers /\ phase[s] = "done"
          /\ a0' = [a0 EXCEPT ![q] = <<s, q>>]
          /\ ready' = ready \cup {q}
      BY <1>1, <2>3, HandleDeviceWakesIssuer
    <3> HIDE DEF s
    <3>2. p = q /\ r = s
      BY <1>1, <2>1, <3>1 DEF DInv, Apart
    <3> QED BY <1>1, <2>2, <3>1, <3>2 DEF DInv, Typed
  <2>4. CASE HandleIntervalClock
    BY <2>2, <2>4 DEF HandleIntervalClock, ClockWaiters
  <2>5. ASSUME NEW q \in Procs, ClockWait(q) PROVE FALSE
    BY <2>5 DEF ClockWait, SoftBlock
  <2>6. ASSUME NEW q \in Procs, NEW s \in Registers, DoIO(q, s) PROVE FALSE
    BY <2>6 DEF DoIO, SoftBlock
  <2>7. ASSUME NEW s \in Registers, Complete(s) PROVE FALSE
    BY <2>7 DEF Complete
  <2>8. CASE UNCHANGED vars
    BY <2>8 DEF vars
  <2> QED BY <1>1, <2>3, <2>4, <2>5, <2>6, <2>7, <2>8 DEF Next
<1> QED BY <1>1, Invariance, PTL DEF Spec, OwnStatus
-----------------------------------------------------------------------------
(* softBlockCount.                                                         *)

(* There are finitely many registers.                                      *)
LEMMA InProgressFinite == IsFiniteSet(InProgress) /\ Cardinality(InProgress) \in Nat
<1>1. IsFiniteSet(3..7) /\ IsFiniteSet(0..7) /\ IsFiniteSet(0..1)
  <2>1. PICK a \in Int, b \in Int, c \in Int, d \in Int : a = 0 /\ b = 1 /\ c = 3 /\ d = 7
    OBVIOUS
  <2>2. IsFiniteSet(a..b) /\ IsFiniteSet(a..d) /\ IsFiniteSet(c..d)
    BY FS_Interval
  <2> QED  BY <2>1, <2>2
<1>2. IsFiniteSet((3..7) \X (0..7)) /\ IsFiniteSet(((3..7) \X (0..7)) \X (0..1))
  BY <1>1, FS_Product
<1> DEFINE Pairs  == ((3..7) \X (0..7)) \X (0..1)
           triple == [t \in Pairs |-> <<t[1][1], t[1][2], t[2]>>]
           All    == {triple[t] : t \in Pairs}
<1>3. IsFiniteSet(All)
  <2>1. triple \in Surjection(Pairs, All)
    BY DEF Surjection
  <2> HIDE DEF triple, All
  <2> QED  BY <1>2, <2>1, FS_Surjection
<1>4. ASSUME NEW r \in Registers  PROVE r \in All
  <2>1. PICK l \in 3..7, d \in 0..7, x \in 0..1 : r = <<l, d, x>>
    BY RegisterFields DEF Recv, Transm
  <2>2. << <<l, d>>, x>> \in Pairs /\ triple[<< <<l, d>>, x>>] = r
    BY <2>1
  <2> QED  BY <2>2
<1>5. InProgress \subseteq All
  BY <1>4 DEF InProgress
<1> HIDE DEF All
<1> QED  BY <1>3, <1>5, FS_Subset, FS_CardinalityType

(* What a step does to the operations in progress.                        *)
LEMMA SoftBlockStep ==
  ASSUME DInv, SoftBlockCounted, [Next]_vars
  PROVE  SoftBlockCounted'
<1> DEFINE w == waiting[PSEUDOINDEX]
<1>0. /\ w \in Seq(Procs) /\ Len(w) \in Nat /\ PSEUDOINDEX \in SemIndexes
      /\ \A r \in Registers : /\ DoIOIndex(r) = Index(r) /\ Index(r) \in SemIndexes
                              /\ Index(r) # PSEUDOINDEX
  <2>1. PSEUDOINDEX \in SemIndexes /\ PSEUDOINDEX \notin 0..47 /\ 0..47 \subseteq SemIndexes
    BY DEF SemIndexes, PSEUDOINDEX
  <2>2. w \in Seq(Procs)
    BY <2>1 DEF DInv, Typed
  <2> HIDE DEF w
  <2>3. Len(w) \in Nat
    BY <2>2
  <2> QED  BY <2>1, <2>2, <2>3, IndexOfAddresses
<1>1. IsFiniteSet(InProgress) /\ Cardinality(InProgress) \in Nat
  BY InProgressFinite
<1>2. ASSUME NEW p \in Procs, ClockWait(p)  PROVE SoftBlockCounted'
  <2>1. deviceSemaphore[PSEUDOINDEX] = 0
    BY <1>0 DEF DInv, OneWaiterPerOperation
  <2>2. /\ waiting' = [waiting EXCEPT ![PSEUDOINDEX] = Append(w, p)]
        /\ softBlockCount' = softBlockCount + 1 /\ UNCHANGED phase
    BY <1>2, <2>1 DEF ClockWait, SoftBlock
  <2>3. waiting'[PSEUDOINDEX] = Append(w, p) /\ InProgress' = InProgress
    BY <1>0, <2>2 DEF DInv, Typed, InProgress
  <2>4. Len(Append(w, p)) = Len(w) + 1
    BY <1>0
  <2> HIDE DEF w
  <2> QED  BY <1>0, <1>1, <2>2, <2>3, <2>4 DEF SoftBlockCounted, w
<1>3. ASSUME NEW p \in Procs, NEW r \in Registers, DoIO(p, r)  PROVE SoftBlockCounted'
  <2>1. /\ phase[r] = "ready" /\ phase' = [phase EXCEPT ![r] = "busy"]
        /\ softBlockCount' = softBlockCount + 1
        /\ \/ UNCHANGED waiting
           \/ waiting' = [waiting EXCEPT ![Index(r)] = Append(@, p)]
    BY <1>0, <1>3 DEF DoIO, SoftBlock
  <2>2. InProgress' = InProgress \cup {r} /\ r \notin InProgress
    BY <2>1 DEF DInv, Typed, InProgress
  <2>3. waiting'[PSEUDOINDEX] = w
    BY <1>0, <2>1 DEF DInv, Typed
  <2>4. Cardinality(InProgress') = Cardinality(InProgress) + 1
    BY <1>1, <2>2, FS_AddElement
  <2> HIDE DEF w
  <2> QED  BY <1>0, <1>1, <2>1, <2>3, <2>4 DEF SoftBlockCounted, w
<1>4. ASSUME NEW r \in Registers, Complete(r)  PROVE SoftBlockCounted'
  <2>1. InProgress' = InProgress /\ UNCHANGED <<waiting, softBlockCount>>
    BY <1>4 DEF Complete, InProgress, DInv, Typed
  <2> QED  BY <2>1 DEF SoftBlockCounted
<1>5. ASSUME NEW line \in 3..7, HandleDevice(line)  PROVE SoftBlockCounted'
  <2> DEFINE r == Served(line)
  <2>1. /\ r \in Registers /\ phase[r] = "done"
        /\ phase' = [phase EXCEPT ![r] = "ready"]
        /\ waiting' = [waiting EXCEPT ![Index(r)] = <<>>]
    BY <1>5, HandleDeviceWakesIssuer
  <2> HIDE DEF r
  <2>2. InterruptIndex(r) = Index(r) /\ Index(r) \in 0..47
    BY <2>1, IndexOfAddresses
  <2>3. waiting[Index(r)] = <<result[r]>>
    BY <2>1, <2>2 DEF DInv, OneWaiterPerOperation
  <2>4. softBlockCount' = softBlockCount - 1
    <3>1. Index(r) # -1 /\ waiting[Index(r)] # <<>>
      BY <2>2, <2>3
    <3> QED  BY <1>5, <2>2, <3>1 DEF HandleDevice, r
  <2>5. InProgress' = InProgress \ {r} /\ r \in InProgress
    BY <2>1 DEF DInv, Typed, InProgress
  <2>6. waiting'[PSEUDOINDEX] = w
    BY <1>0, <2>1 DEF DInv, Typed
  <2>7. Cardinality(InProgress') = Cardinality(InProgress) - 1
    BY <1>1, <2>5, FS_RemoveElement
  <2> HIDE DEF w
  <2> QED  BY <1>0, <1>1, <2>4, <2>6, <2>7 DEF SoftBlockCounted, w
<1>6. ASSUME HandleIntervalClock  PROVE SoftBlockCounted'
  <2>1. /\ waiting' = [waiting EXCEPT ![PSEUDOINDEX] = <<>>]
        /\ softBlockCount' = softBlockCount - Len(w) /\ UNCHANGED phase
    BY <1>6 DEF HandleIntervalClock
  <2>2. waiting'[PSEUDOINDEX] = <<>> /\ InProgress' = InProgress /\ Len(<<>>) = 0
    BY <1>0, <2>1 DEF DInv, Typed, InProgress
  <2> HIDE DEF w
  <2> QED  BY <1>0, <1>1, <2>1, <2>2 DEF SoftBlockCounted, w
<1>7. ASSUME UNCHANGED vars  PROVE SoftBlockCounted'
  BY <1>7 DEF vars, SoftBlockCounted, InProgress
<1> QED  BY <1>2, <1>3, <1>4, <1>5, <1>6, <1>7 DEF Next

(* softBlockCount counts the operations in progress and the processes that *)
(* wait for the clock: every increment of DOIO and CLOCKWAIT is taken back *)
(* by the interrupt that ends the wait, and by no other.                   *)
THEOREM SoftBlocksCounted == Spec => []SoftBlockCounted
<1>1. Init => SoftBlockCounted
  <2> SUFFICES ASSUME Init PROVE SoftBlockCounted
    OBVIOUS
  <2>1. InProgress = {} /\ waiting[PSEUDOINDEX] = <<>> /\ Len(<<>>) = 0
    BY DEF Init, InProgress, SemIndexes, PSEUDOINDEX
  <2>2. Cardinality(InProgress) = 0
    BY <2>1, FS_EmptySet
  <2> QED  BY <2>1, <2>2 DEF Init, SoftBlockCounted
<1>2. DInv /\ SoftBlockCounted /\ [Next]_vars => SoftBlockCounted'
  BY SoftBlockStep
<1> QED  BY <1>1, <1>2, Invariance, PTL DEF Spec

(* The types; of softBlockCount, that no interrupt counts it below zero.   *)
THEOREM DeviceTypes == Spec => []TypeOK
<1>1. ASSUME DInv, SoftBlockCounted  PROVE TypeOK
  <2>1. Len(waiting[PSEUDOINDEX]) \in Nat
    BY <1>1 DEF DInv, Typed, SemIndexes, PSEUDOINDEX
  <2> QED  BY <1>1, <2>1, InProgressFinite DEF DInv, Typed, TypeOK, SoftBlockCounted
<1>2. DInv /\ SoftBlockCounted => TypeOK
  BY <1>1
<1> QED  BY <1>2, Invariance, SoftBlocksCounted, PTL

=============================================================================
