------------------------------- MODULE Support -------------------------------
(***************************************************************************)
(* The support level of PandOSsh (phase3): the instantiator process test,  *)
(* the shell and the programs it executes, their system calls, and the     *)
(* pager over swap pool, page tables, TLB and flash devices.               *)
(*                                                                         *)
(* This code belongs to the processes: it runs with interrupts on, so a    *)
(* step ends at every SYSCALL and at every section with interrupts off,    *)
(* and steps of all processes interleave (they have one priority).  The    *)
(* nucleus is here what it promises: P and V with queues in order of       *)
(* arrival, DOIO as a device step between two steps of its caller.         *)
(*                                                                         *)
(* Abstracted: processor states and register values, the text written and  *)
(* read, the contents of a page but for its owner and version.             *)
(***************************************************************************)
EXTENDS ProcQueue, FiniteSets

CONSTANTS
  Test, ShellProc, Programs,  \* PCBs: of test, the shell, executed programs
  UProcMax,    \* UPROCMAX: ASIDs, flash devices and support structures
  Pages,       \* page numbers, indices of sup_privatePgTbl
  PoolSize,    \* POOLSIZE
  Versions,    \* bound: contents of one page told apart
  IoErrors,    \* may a flash operation fail?
  Rerun        \* may a program be executed a second time?

ASSUME ProcsAssumption == Test # ShellProc /\ {Test, ShellProc} \cap Programs = {}
ASSUME SizesAssumption ==
  /\ UProcMax \in Nat \ {0} /\ PoolSize \in Nat \ {0} /\ Versions \in Nat \ {0}
  /\ Pages \subseteq Nat /\ Pages # {}
  /\ IoErrors \in BOOLEAN /\ Rerun \in BOOLEAN

UProcs == Programs \cup {ShellProc}
Procs  == UProcs \cup {Test}
Asids  == 1..UProcMax
SHELL_ASID == 1
Sups   == 1..UProcMax          \* supportPool
Frames == 0..(PoolSize - 1)
Sems   == {"swapPool", "master", "shell", "termWrite", "termRead"}

Absent  == -2                  \* no TLB entry
Invalid == -1                  \* an entry with its V bit off
FreeFrame == [asid |-> -1, pageNo |-> -1, sup |-> 0]

VARIABLES
  pc,          \* where each process is, "absent" when it does not exist
  sup, asid,   \* of each U-proc: p_supportStruct, and asid in its handlers
  page, frame, \* p and fi of its pager
  back,        \* where the pager returns to
  status,      \* the device status its last DOIO returned
  sem, waiting,      \* the semaphores of initProc.c and their queues
  supFree,     \* supportFree_h
  sup_asid, pgtbl,   \* fields of support structures; pgtbl without kseg bits
  swap_pool, frameIndex,
  tlb, mem,    \* TLB by ASID and page, contents of the frames
  flash,       \* blocks of the flash devices
  latest,      \* history: what each program stored last in each page
  executed     \* history: ASIDs executed so far

local  == <<sup, asid, page, frame, back, status>>
sems   == <<sem, waiting>>
sups   == <<supFree, sup_asid, pgtbl>>
pool   == <<swap_pool, frameIndex>>
memory == <<tlb, mem, flash, latest>>
vars   == <<pc, local, sems, sups, pool, memory, executed>>

Content(a, g, v) == [asid |-> a, page |-> g, version |-> v]
-----------------------------------------------------------------------------
(* initSupportStructure.                                                   *)
EmptyTable(a) == [asid |-> a, entry |-> [g \in Pages |-> Invalid]]

(* Mutants: the shell's, or test's, semaphore starts like a mutex.         *)
InitialShellOne(k)  == IF k = "master" THEN 0 ELSE 1
InitialMasterOne(k) == IF k = "shell" THEN 0 ELSE 1

InitialValue(k) == IF k \in {"master", "shell"} THEN 0 ELSE 1

(* test() up to the CREATEPROCESS of the shell; supportFree_h is a stack,  *)
(* and the last structure put on it goes to the shell.                     *)
Init ==
  /\ pc = [u \in Procs |-> CASE u = Test      -> "testJoin"
                             [] u = ShellProc -> "user"
                             [] u \in Programs -> "absent"]
  /\ sup = [u \in UProcs |-> UProcMax]
  /\ asid = [u \in UProcs |-> SHELL_ASID]
  /\ page = [u \in UProcs |-> CHOOSE g \in Pages : TRUE]
  /\ frame = [u \in UProcs |-> 0]
  /\ back = [u \in UProcs |-> "user"]
  /\ status = [u \in UProcs |-> 1]
  /\ sem = [k \in Sems |-> InitialValue(k)]
  /\ waiting = [k \in Sems |-> <<>>]
  /\ supFree = [i \in 1..(UProcMax - 1) |-> UProcMax - i]
  /\ sup_asid = [s \in Sups |-> IF s = UProcMax THEN SHELL_ASID ELSE 0]
  /\ pgtbl = [s \in Sups |-> EmptyTable(sup_asid[s])]
  /\ swap_pool = [f \in Frames |-> FreeFrame]
  /\ frameIndex = 0
  /\ tlb = [a \in Asids |-> [g \in Pages |-> Absent]]
  /\ flash = [a \in Asids |-> [g \in Pages |-> Content(a, g, 0)]]
  /\ latest = flash
  /\ mem = [f \in Frames |-> Content(0, 0, 0)]
  /\ executed = {}

Goto(u, next) == pc' = [pc EXCEPT ![u] = next]

(* Where a process goes on after PASSEREN, by the place where it waits.    *)
AfterWait ==
  [pagerWait |-> "pagerHold", termWait |-> "termHold", execWait |-> "user",
   writeWait |-> "writeHold", readWait |-> "readHold", testWait |-> "testEnd"]

(* Mutant: a process passes at zero.                                       *)
PassesAtZero(k, u, w) ==
  \/ /\ sem[k] >= 0
     /\ sem' = [sem EXCEPT ![k] = @ - 1]
     /\ Goto(u, AfterWait[w])
     /\ UNCHANGED waiting
  \/ /\ sem[k] < 0
     /\ waiting' = [waiting EXCEPT ![k] = Append(@, u)]
     /\ Goto(u, w)
     /\ UNCHANGED sem

(* PASSEREN(k) by u, which waits at w when it has to.                      *)
P(k, u, w) ==
  \/ /\ sem[k] > 0
     /\ sem' = [sem EXCEPT ![k] = @ - 1]
     /\ Goto(u, AfterWait[w])
     /\ UNCHANGED waiting
  \/ /\ sem[k] <= 0
     /\ waiting' = [waiting EXCEPT ![k] = Append(@, u)]
     /\ Goto(u, w)
     /\ UNCHANGED sem

(* VERHOGEN(k) by u, which goes on at next.                                *)
V(k, u, next) ==
  \/ /\ waiting[k] # <<>>
     /\ LET first == Head(waiting[k])
        IN  pc' = [pc EXCEPT ![u] = next, ![first] = AfterWait[pc[first]]]
     /\ waiting' = [waiting EXCEPT ![k] = Tail(@)]
     /\ UNCHANGED sem
  \/ /\ waiting[k] = <<>>
     /\ sem' = [sem EXCEPT ![k] = @ + 1]
     /\ Goto(u, next)
     /\ UNCHANGED waiting

(* TERMPROCESS of u itself: the subtree is everything for test, the shell  *)
(* and the programs for the shell.                                         *)
Subtree(u) == CASE u = Test      -> Procs
                [] u = ShellProc -> UProcs
                [] u \in Programs -> {u}

TermProcess(u) ==
  /\ pc' = [v \in Procs |-> IF v \in Subtree(u) THEN "absent" ELSE pc[v]]
  /\ waiting' = [k \in Sems |-> Without(waiting[k], Subtree(u))]
  /\ UNCHANGED <<local, sem, sups, pool, memory, executed>>
-----------------------------------------------------------------------------
(* Memory accesses of a program, and of the terminal handlers on its pages. *)

Accessing(u) == pc[u] \in {"user", "writeHold", "readStore"}

Entry(u, g) == tlb[asid[u]][g]

(* TLBWR: a random entry makes room (or a free one, or the same).          *)
TLBWR(a, g, e) ==
  \E b \in Asids, h \in Pages :
    tlb' = [[tlb EXCEPT ![b][h] = Absent] EXCEPT ![a][g] = e]

(* Mutant: the TLB is left as it is.                                       *)
NotRewritten(a, g, e) == tlb

(* TLBP and TLBWI: only an entry that is present is rewritten.             *)
Rewritten(a, g, e) ==
  IF tlb[a][g] = Absent THEN tlb ELSE [tlb EXCEPT ![a][g] = e]

(* uTLB_RefillHandler.                                                     *)
Refill(u, g) ==
  /\ Accessing(u)
  /\ Entry(u, g) = Absent
  /\ LET t == pgtbl[sup[u]] IN TLBWR(t.asid, g, t.entry[g])
  /\ UNCHANGED <<pc, local, sems, sups, pool, mem, flash, latest, executed>>

(* A store of the process through the TLB.                                 *)
StoreTo(u, g) ==
  LET new == Content(asid[u], g, (latest[asid[u]][g].version + 1) % Versions)
  IN  /\ Entry(u, g) \in Frames
      /\ mem' = [mem EXCEPT ![Entry(u, g)] = new]
      /\ latest' = [latest EXCEPT ![asid[u]][g] = new]
      /\ UNCHANGED <<tlb, flash>>

Store(u, g) ==
  /\ pc[u] = "user"
  /\ StoreTo(u, g)
  /\ UNCHANGED <<pc, local, sems, sups, pool, executed>>
-----------------------------------------------------------------------------
(* The pager, from the invalid access to the first PASSEREN.               *)
PageFault(u, g) ==
  /\ Accessing(u)
  /\ Entry(u, g) = Invalid
  /\ page' = [page EXCEPT ![u] = g]
  /\ back' = [back EXCEPT ![u] = pc[u]]
  /\ P("swapPool", u, "pagerWait")
  /\ UNCHANGED <<sup, asid, frame, status, sups, pool, memory, executed>>

(* pageReplacement: the first free frame, else the next in turn.           *)
FreeFrames == {f \in Frames : swap_pool[f] = FreeFrame}
Replaced == IF FreeFrames # {} THEN CHOOSE f \in FreeFrames :
                                      \A h \in FreeFrames : f <= h
            ELSE (frameIndex + 1) % PoolSize

(* The table entry of a page that loses its frame.                         *)
LeftValid(s, g) == pgtbl   \* mutant
EntryOff(s, g) == [pgtbl EXCEPT ![s].entry[g] = Invalid]

(* pageReplacement and, for an occupied frame, the first part of           *)
(* writeToDevice: the entry that uses it is made invalid, in the table and *)
(* in the TLB, before the frame is written out.                            *)
Evict(u) ==
  LET old == swap_pool[Replaced]
      s   == old.sup
  IN  /\ pc[u] = "pagerHold"
      /\ frame' = [frame EXCEPT ![u] = Replaced]
      /\ frameIndex' = IF FreeFrames # {} THEN frameIndex ELSE Replaced
      /\ \/ /\ FreeFrames # {}
            /\ Goto(u, "loading")
            /\ UNCHANGED <<pgtbl, tlb>>
         \/ /\ FreeFrames = {}
            /\ pgtbl' = EntryOff(s, old.pageNo)
            /\ tlb' = Rewritten(pgtbl[s].asid, old.pageNo, Invalid)
            /\ Goto(u, "evicting")
      /\ UNCHANGED <<sup, asid, page, back, status, sems, supFree, sup_asid,
                     swap_pool, mem, flash, latest, executed>>

(* Status codes of a flash operation: 1 is success; which of 4 and 5       *)
(* belongs to which operation is not said in the code, so both may come.   *)
FlashStatus == IF IoErrors THEN {1, 4, 5} ELSE {1}

(* Mutant: the block is that of the page to be read.                       *)
FlashWriteWrongBlock(u) ==
  LET old == swap_pool[frame[u]]
  IN  /\ pc[u] = "evicting"
      /\ status' = [status EXCEPT ![u] = 1]
      /\ flash' = [flash EXCEPT ![old.asid][page[u]] = mem[frame[u]]]
      /\ Goto(u, "evicted")
      /\ UNCHANGED <<sup, asid, page, frame, back, sems, sups, pool, tlb, mem,
                     latest, executed>>

(* The device writes the frame to the block its table entry names.         *)
FlashWrite(u) ==
  LET old == swap_pool[frame[u]]
  IN  /\ pc[u] = "evicting"
      /\ \E st \in FlashStatus :
           /\ status' = [status EXCEPT ![u] = st]
           /\ flash' = IF st # 1 THEN flash
                       ELSE [flash EXCEPT ![old.asid][old.pageNo] =
                                            mem[frame[u]]]
      /\ Goto(u, "evicted")
      /\ UNCHANGED <<sup, asid, page, frame, back, sems, sups, pool, tlb, mem,
                     latest, executed>>

(* The rest of writeToDevice: on status 4 the swap pool is released, and   *)
(* the caller runs TerminateSys with the ASID of the page's owner.         *)
AfterEvict(u) ==
  /\ pc[u] = "evicted"
  /\ \/ /\ status[u] = 4
        /\ asid' = [asid EXCEPT ![u] = swap_pool[frame[u]].asid]
        /\ V("swapPool", u, "term")
     \/ /\ status[u] # 4
        /\ Goto(u, "loading")
        /\ UNCHANGED <<asid, sems>>
  /\ UNCHANGED <<sup, page, frame, back, status, sups, pool, memory, executed>>

(* The device reads the page; a failed read leaves the frame as it was.    *)
FlashRead(u) ==
  /\ pc[u] = "loading"
  /\ \E st \in FlashStatus :
       /\ status' = [status EXCEPT ![u] = st]
       /\ mem' = IF st # 1 THEN mem
                 ELSE [mem EXCEPT ![frame[u]] =
                                    flash[pgtbl[sup[u]].asid][page[u]]]
  /\ Goto(u, "loaded")
  /\ UNCHANGED <<sup, asid, page, frame, back, sems, sups, pool, tlb, flash,
                 latest, executed>>

(* The rest of readFromDevice, and the atomic update of swap pool table,   *)
(* page table and TLB; on status 5 the process is terminated instead.      *)
Commit(u) ==
  LET s == sup[u]  g == page[u]  f == frame[u]
  IN  /\ pc[u] = "loaded"
      /\ status[u] # 5
      /\ swap_pool' = [swap_pool EXCEPT
                         ![f] = [asid |-> sup_asid[s], pageNo |-> g, sup |-> s]]
      /\ pgtbl' = [pgtbl EXCEPT ![s].entry[g] = f]
      /\ IF tlb[pgtbl[s].asid][g] # Absent
         THEN tlb' = Rewritten(pgtbl[s].asid, g, f)
         ELSE TLBWR(pgtbl[s].asid, g, f)
      /\ Goto(u, "pagerEnd")
      /\ UNCHANGED <<local, sems, supFree, sup_asid, frameIndex, mem, flash,
                     latest, executed>>

LoadFailedKeepsPool(u) ==   \* mutant: without VERHOGEN
  /\ pc[u] = "loaded"
  /\ status[u] = 5
  /\ asid' = [asid EXCEPT ![u] = pgtbl[sup[u]].asid]
  /\ Goto(u, "term")
  /\ UNCHANGED <<sup, page, frame, back, status, sems, sups, pool, memory, executed>>

LoadFailed(u) ==
  /\ pc[u] = "loaded"
  /\ status[u] = 5
  /\ asid' = [asid EXCEPT ![u] = pgtbl[sup[u]].asid]
  /\ V("swapPool", u, "term")
  /\ UNCHANGED <<sup, page, frame, back, status, sups, pool, memory, executed>>

PagerEndKeepsPool(u) ==   \* mutant: without VERHOGEN
  /\ pc[u] = "pagerEnd"
  /\ Goto(u, back[u])
  /\ UNCHANGED <<local, sems, sups, pool, memory, executed>>

PagerEnd(u) ==
  /\ pc[u] = "pagerEnd"
  /\ V("swapPool", u, back[u])
  /\ UNCHANGED <<local, sups, pool, memory, executed>>
-----------------------------------------------------------------------------
(* TerminateSys: TERMINATE, an invalid argument or a program trap.         *)
Terminate(u) ==
  /\ pc[u] = "user"
  /\ Goto(u, "term")
  /\ UNCHANGED <<local, sems, sups, pool, memory, executed>>

TermBegin(u) ==
  /\ pc[u] = "term"
  /\ P("swapPool", u, "termWait")
  /\ UNCHANGED <<local, sups, pool, memory, executed>>

(* Mutant: the loop starts at 1.                                           *)
FreeSwapFramesFromOne(a) ==
  swap_pool' = [f \in Frames |-> IF f > 0 /\ swap_pool[f].asid = a THEN FreeFrame
                                 ELSE swap_pool[f]]

(* freeSwapFrames and the VERHOGEN after it.                               *)
FreeSwapFrames(a) ==
  swap_pool' = [f \in Frames |-> IF swap_pool[f].asid = a THEN FreeFrame
                                 ELSE swap_pool[f]]

TermFree(u) ==
  /\ pc[u] = "termHold"
  /\ FreeSwapFrames(asid[u])
  /\ V("swapPool", u, "termFreed")
  /\ UNCHANGED <<local, sups, frameIndex, memory, executed>>

(* deallocateSupport.                                                      *)
TermDeallocForgets(u) ==   \* mutant: not put on the free list
  /\ pc[u] = "termFreed"
  /\ sup_asid' = [sup_asid EXCEPT ![sup[u]] = 0]
  /\ Goto(u, "termSignal")
  /\ UNCHANGED <<local, sems, supFree, pgtbl, pool, memory, executed>>

TermDealloc(u) ==
  /\ pc[u] = "termFreed"
  /\ sup_asid' = [sup_asid EXCEPT ![sup[u]] = 0]
  /\ supFree' = <<sup[u]>> \o supFree
  /\ Goto(u, "termSignal")
  /\ UNCHANGED <<local, sems, pgtbl, pool, memory, executed>>

(* Mutants: everybody signals the shell; a program signals nobody.         *)
TermSignalShell(u) ==
  /\ pc[u] = "termSignal"
  /\ V("shell", u, "termEnd")
  /\ UNCHANGED <<local, sups, pool, memory, executed>>

TermSignalMasterOnly(u) ==
  /\ pc[u] = "termSignal"
  /\ \/ asid[u] = SHELL_ASID /\ V("master", u, "termEnd")
     \/ asid[u] # SHELL_ASID /\ Goto(u, "termEnd") /\ UNCHANGED sems
  /\ UNCHANGED <<local, sups, pool, memory, executed>>

TermSignal(u) ==
  /\ pc[u] = "termSignal"
  /\ V(IF asid[u] = SHELL_ASID THEN "master" ELSE "shell", u, "termEnd")
  /\ UNCHANGED <<local, sups, pool, memory, executed>>

TermEnd(u) == pc[u] = "termEnd" /\ TermProcess(u)

(* ExecuteSys of the shell, up to CREATEPROCESS: without a free structure  *)
(* or PCB it only returns -1.  Another caller is terminated.               *)
Execute(u, n, a) ==
  LET s == Head(supFree)
  IN  /\ pc[u] = "user"
      /\ asid[u] = SHELL_ASID
      /\ a \in Asids \ {SHELL_ASID}
      /\ Rerun \/ a \notin executed
      /\ supFree # <<>>
      /\ pc[n] = "absent"
      /\ pc' = [pc EXCEPT ![u] = "execJoin", ![n] = "user"]
      /\ supFree' = Tail(supFree)
      /\ sup_asid' = [sup_asid EXCEPT ![s] = a]
      /\ pgtbl' = [pgtbl EXCEPT ![s] = EmptyTable(a)]
      /\ sup' = [sup EXCEPT ![n] = s]
      /\ asid' = [asid EXCEPT ![n] = a]
      /\ latest' = [latest EXCEPT ![a] = flash[a]]
      /\ executed' = executed \cup {a}
      /\ UNCHANGED <<page, frame, back, status, sems, pool, tlb, mem, flash>>

ExecuteJoinSkipped(u) ==   \* mutant: the shell does not wait
  /\ pc[u] = "execJoin"
  /\ Goto(u, "user")
  /\ UNCHANGED <<local, sems, sups, pool, memory, executed>>

ExecuteJoin(u) ==
  /\ pc[u] = "execJoin"
  /\ P("shell", u, "execWait")
  /\ UNCHANGED <<local, sups, pool, memory, executed>>
-----------------------------------------------------------------------------
(* WriteTerminalSys: each character is read from the caller's page, then   *)
(* transmitted.                                                            *)
WriteTerminal(u) ==
  /\ pc[u] = "user"
  /\ P("termWrite", u, "writeWait")
  /\ UNCHANGED <<local, sups, pool, memory, executed>>

WriteChar(u, g) ==
  /\ pc[u] = "writeHold"
  /\ Entry(u, g) \in Frames
  /\ Goto(u, "writeIo")
  /\ UNCHANGED <<local, sems, sups, pool, memory, executed>>

(* The character is out: another one, or the last one or an error.         *)
WriteDone(u) ==
  /\ pc[u] = "writeIo"
  /\ Goto(u, "writeHold") \/ Goto(u, "writeEnd")
  /\ UNCHANGED <<local, sems, sups, pool, memory, executed>>

WriteEmpty(u) ==
  /\ pc[u] = "writeHold"
  /\ Goto(u, "writeEnd")
  /\ UNCHANGED <<local, sems, sups, pool, memory, executed>>

WriteEndKeepsMutex(u) ==   \* mutant: without VERHOGEN
  /\ pc[u] = "writeEnd"
  /\ Goto(u, "user")
  /\ UNCHANGED <<local, sems, sups, pool, memory, executed>>

WriteEnd(u) ==
  /\ pc[u] = "writeEnd"
  /\ V("termWrite", u, "user")
  /\ UNCHANGED <<local, sups, pool, memory, executed>>

(* ReadTerminalSys: each character received is stored in the caller's      *)
(* page; past the end of the address space the caller is terminated.       *)
ReadTerminal(u) ==
  /\ pc[u] = "user"
  /\ P("termRead", u, "readWait")
  /\ UNCHANGED <<local, sups, pool, memory, executed>>

ReadChar(u) ==
  /\ pc[u] = "readHold"
  /\ \/ Goto(u, "readIo") /\ UNCHANGED sems
     \/ V("termRead", u, "term")
  /\ UNCHANGED <<local, sups, pool, memory, executed>>

ReadDone(u) ==
  /\ pc[u] = "readIo"
  /\ Goto(u, "readStore") \/ Goto(u, "readEnd")
  /\ UNCHANGED <<local, sems, sups, pool, memory, executed>>

ReadStore(u, g) ==
  /\ pc[u] = "readStore"
  /\ StoreTo(u, g)
  /\ Goto(u, "readHold") \/ Goto(u, "readEnd")
  /\ UNCHANGED <<local, sems, sups, pool, executed>>

ReadEnd(u) ==
  /\ pc[u] = "readEnd"
  /\ V("termRead", u, "user")
  /\ UNCHANGED <<local, sups, pool, memory, executed>>
-----------------------------------------------------------------------------
(* The end of test(): it waits for the shell, and ends.                    *)
TestJoin ==
  /\ pc[Test] = "testJoin"
  /\ P("master", Test, "testWait")
  /\ UNCHANGED <<local, sups, pool, memory, executed>>

TestEnd == pc[Test] = "testEnd" /\ TermProcess(Test)

(* The nucleus, without processes: HALT.                                   *)
Halted == (\A u \in Procs : pc[u] = "absent") /\ UNCHANGED vars

(* What a process decides: a store, a call; what it has no choice about.   *)
Choice(u) ==
  \/ \E g \in Pages : Store(u, g)
  \/ Terminate(u)
  \/ \E n \in Programs, a \in Asids : Execute(u, n, a)
  \/ WriteTerminal(u)
  \/ ReadTerminal(u)

Access(u) == \E g \in Pages : Refill(u, g) \/ PageFault(u, g)

Pager(u) ==
  \/ Evict(u) \/ AfterEvict(u)
  \/ Commit(u) \/ LoadFailed(u) \/ PagerEnd(u)

Terminal(u) ==
  \/ \E g \in Pages : WriteChar(u, g) \/ ReadStore(u, g)
  \/ WriteEmpty(u) \/ WriteEnd(u)
  \/ ReadChar(u) \/ ReadEnd(u)

Ending(u) ==
  \/ TermBegin(u) \/ TermFree(u) \/ TermDealloc(u) \/ TermSignal(u)
  \/ TermEnd(u)
  \/ ExecuteJoin(u)

Device(u) == FlashWrite(u) \/ FlashRead(u) \/ WriteDone(u) \/ ReadDone(u)

Next ==
  \/ \E u \in UProcs : Choice(u) \/ Access(u) \/ Pager(u) \/ Terminal(u)
                         \/ Ending(u) \/ Device(u)
  \/ TestJoin \/ TestEnd
  \/ Halted

Spec == Init /\ [][Next]_vars

(* Processes of one priority take turns, and devices answer.               *)
Fairness ==
  /\ \A u \in UProcs : WF_vars(Pager(u) \/ Ending(u) \/ Device(u))
  /\ WF_vars(TestJoin \/ TestEnd)

FairSpec == Spec /\ Fairness
-----------------------------------------------------------------------------
(* Properties.                                                             *)

TypeOK ==
  /\ pc \in [Procs -> DOMAIN AfterWait \cup {AfterWait[w] : w \in DOMAIN AfterWait}
              \cup {"absent", "evicting", "evicted", "loading", "loaded",
                    "pagerEnd", "term", "termFreed", "termSignal", "termEnd",
                    "execJoin", "writeIo", "writeEnd", "readIo", "readStore",
                    "readEnd", "testJoin"}]
  /\ sup \in [UProcs -> Sups] /\ asid \in [UProcs -> Asids]
  /\ page \in [UProcs -> Pages] /\ frame \in [UProcs -> Frames]
  /\ back \in [UProcs -> {"user", "writeHold", "readStore"}]
  /\ status \in [UProcs -> {1, 4, 5}]
  /\ sem \in [Sems -> 0..1] /\ waiting \in [Sems -> Seq(Procs)]
  /\ supFree \in Seq(Sups) /\ sup_asid \in [Sups -> Asids \cup {0}]
  /\ pgtbl \in [Sups -> [asid : Asids \cup {0},
                         entry : [Pages -> Frames \cup {Invalid}]]]
  /\ swap_pool \in [Frames -> {FreeFrame} \cup
                                [asid : Asids, pageNo : Pages, sup : Sups]]
  /\ frameIndex \in Frames
  /\ tlb \in [Asids -> [Pages -> Frames \cup {Absent, Invalid}]]
  /\ executed \subseteq Asids

(* Places of a process that holds a semaphore, and in the pager.           *)
SwapHeld == {"pagerHold", "evicting", "evicted", "loading", "loaded", "pagerEnd"}
InPager(u) == pc[u] \in SwapHeld \cup {"pagerWait"}

Holders(k) ==
  CASE k = "swapPool"  -> {u \in UProcs : pc[u] \in SwapHeld \cup {"termHold"}}
    [] k = "termWrite" -> {u \in UProcs : \/ pc[u] \in {"writeHold", "writeIo", "writeEnd"}
                                          \/ InPager(u) /\ back[u] = "writeHold"}
    [] k = "termRead"  -> {u \in UProcs : \/ pc[u] \in {"readHold", "readIo", "readStore", "readEnd"}
                                          \/ InPager(u) /\ back[u] = "readStore"}

(* The swap pool belongs to at most one process at a time, and whatever    *)
(* way out of the pager a process takes, errors included, gives it back    *)
(* exactly once.                                                           *)
SwapPoolExact == sem["swapPool"] + Cardinality(Holders("swapPool")) = 1

(* So do the two halves of the terminal, through every page fault in the   *)
(* middle of a terminal call: no process ends with one in its hands.       *)
TerminalExact ==
  \A k \in {"termWrite", "termRead"} : sem[k] + Cardinality(Holders(k)) = 1

(* A process that still owns its support structure and its pages.          *)
Owners == {u \in UProcs : pc[u] \notin {"absent", "termFreed", "termSignal", "termEnd"}}

AsidOf(u) == sup_asid[sup[u]]

(* The page being written out of, or read into, f.                         *)
InTransit(f) == \E u \in UProcs : /\ frame[u] = f
                                  /\ pc[u] \in {"evicting", "evicted", "loading", "loaded"}

(* Page tables and swap pool table tell the same story: a valid entry and  *)
(* the frame's record name each other, whoever takes the frame next; only  *)
(* a frame in transit is in the record of a page that is not valid.        *)
PageTableAgrees ==
  \A u \in Owners, g \in Pages, f \in Frames :
    LET named == swap_pool[f] = [asid |-> AsidOf(u), pageNo |-> g, sup |-> sup[u]]
    IN  /\ pgtbl[sup[u]].entry[g] = f => named /\ ~InTransit(f)
        /\ named => pgtbl[sup[u]].entry[g] = f \/ InTransit(f)

(* A TLB entry of a program that runs is its page table entry: no access   *)
(* goes through the entry of a page that has lost its frame.               *)
TlbAgrees ==
  \A u \in Owners, g \in Pages :
    tlb[AsidOf(u)][g] \in {Absent, pgtbl[sup[u]].entry[g]}

(* No store is lost on its way through frames and flash: a valid page's    *)
(* frame holds what its program stored last, and so does the flash of a    *)
(* page that is not valid, or the frame that is being written out to it.   *)
NoLostStore ==
  \A u \in Owners, g \in Pages :
    LET e == pgtbl[sup[u]].entry[g]
        v == latest[AsidOf(u)][g]
    IN  \/ e \in Frames /\ mem[e] = v
        \/ e = Invalid /\ flash[AsidOf(u)][g] = v
        \/ /\ e = Invalid
           /\ \E w \in UProcs : /\ pc[w] = "evicting"
                                /\ mem[frame[w]] = v
                                /\ swap_pool[frame[w]].asid = AsidOf(u)
                                /\ swap_pool[frame[w]].pageNo = g

(* What a load of page g by u is given: through the TLB, or after a refill *)
(* or a page fault that finds nothing else changed.                        *)
Seen(u, g) ==
  LET a == AsidOf(u)
      e == IF tlb[a][g] # Absent THEN tlb[a][g] ELSE pgtbl[sup[u]].entry[g]
      out == {w \in UProcs : /\ pc[w] = "evicting"
                             /\ swap_pool[frame[w]].asid = a
                             /\ swap_pool[frame[w]].pageNo = g}
  IN  IF e \in Frames THEN mem[e]
      ELSE IF out # {} THEN mem[frame[CHOOSE w \in out : TRUE]]
      ELSE flash[a][g]

(* Demand paging implements private memory: every step but a store and the *)
(* end of a program leaves what all programs see as it was, and nobody     *)
(* ever sees a page of another address space.                              *)
Dead    == -1
Foreign == -2

(* by address space: Of(u, g) for its process u, Dead without one.         *)
BySpace(Of(_, _)) ==
  [a \in Asids |->
     LET us == {u \in Owners : AsidOf(u) = a}
     IN  [g \in Pages |-> IF us = {} THEN Dead
                          ELSE Of(CHOOSE u \in us : TRUE, g)]]

Shown ==
  BySpace(LAMBDA u, g :
            LET c == Seen(u, g)
            IN  IF c.asid = AsidOf(u) /\ c.page = g THEN c.version ELSE Foreign)

Stored == BySpace(LAMBDA u, g : latest[AsidOf(u)][g].version)

Memory == INSTANCE PrivateMemory WITH
  Values <- 0..(Versions - 1), content <- Shown, stored <- Stored

ImplementsPrivateMemory == Memory!Spec

(* Frames belong to processes that exist: nothing is left behind by one    *)
(* that terminated, and nothing of a living one is given away.             *)
FramesOwned ==
  \A f \in Frames :
    swap_pool[f] # FreeFrame =>
      \E u \in Owners : AsidOf(u) = swap_pool[f].asid /\ sup[u] = swap_pool[f].sup

(* Every support structure is on the free list once, or belongs to exactly *)
(* one process that has not given it back: termination by another process  *)
(* in between would lose it.                                               *)
SupportAccounted ==
  \A s \in Sups :
    Cardinality({i \in DOMAIN supFree : supFree[i] = s})
      + Cardinality({u \in UProcs : /\ sup[u] = s
                                    /\ pc[u] \notin {"absent", "termSignal", "termEnd"}})
    = 1

(* The shell stands still from the CREATEPROCESS of a program until that   *)
(* program has nothing left but its TERMPROCESS, so one program runs at a  *)
(* time and the shell cannot end before it.                                *)
Working == {n \in Programs : pc[n] \notin {"absent", "termEnd"}}

ShellWaits ==
  Working # {} => /\ Cardinality(Working) = 1
                  /\ pc[ShellProc] \in {"execJoin", "execWait"}
                  /\ sem["shell"] = 0

(* What the nucleus takes for granted of its callers: processes that wait  *)
(* for a device wait for different devices, ...                            *)
DeviceOf(u) ==
  CASE pc[u] = "evicting" -> <<"flash", swap_pool[frame[u]].asid>>
    [] pc[u] = "loading"  -> <<"flash", pgtbl[sup[u]].asid>>
    [] pc[u] = "writeIo"  -> <<"transmitter", 0>>
    [] pc[u] = "readIo"   -> <<"receiver", 0>>
AtDevice == {u \in UProcs : pc[u] \in {"evicting", "loading", "writeIo", "readIo"}}
DevicesExclusive ==
  \A u, v \in AtDevice : DeviceOf(u) = DeviceOf(v) => u = v

(* ... and nobody is killed while it waits for one.                        *)
NoIoKilled == [][\A u \in AtDevice : pc'[u] # "absent"]_vars

(* The semaphores of this level are those the nucleus promises (Nucleus,   *)
(* KeepsPromise): its processes are born, wait, are served and die one at  *)
(* a time, in an order that both levels agree on.                          *)
Promised == INSTANCE Semaphores WITH
  Keys <- Sems, alive <- {u \in Procs : pc[u] # "absent"},
  value <- sem, queue <- waiting

UsesPromisedSemaphores == Promised!Spec

(* Every page fault is served: the faulting process goes back to its       *)
(* access, however often its frame's owner changes meanwhile.              *)
FaultServed == \A u \in UProcs : InPager(u) ~> ~InPager(u)

(* The shell comes back from EXECUTE once its program terminates.          *)
ExecuteReturns ==
  \A n \in Programs : pc[n] = "term" ~> pc[ShellProc] \notin {"execJoin", "execWait"}

(* When the shell terminates, test and every other process end.            *)
SystemEnds == pc[ShellProc] = "term" ~> \A u \in Procs : pc[u] = "absent"
=============================================================================
