# PandOSsh in TLA+

A verification development for the PandOSsh kernel: a small operating system in
three phases for the µRISCV machine. Phase 1 keeps process control blocks and
semaphores, phase 2 is the nucleus (scheduler, ten system calls, interrupts),
phase 3 the support level (virtual memory, terminal and EXEC calls of user
processes). Paths below are relative to `src/`.

## 1. The system

| Part | Source | State it keeps | Operations |
|---|---|---|---|
| Process control blocks | `phase1/pcb.c` | `pcbFree_table` (MAXPROC = 20), `pcbFree_h`, `next_pid`, per PCB the queue link, tree links, state, time, `p_semAdd`, `p_prio` | `allocPcb`, `freePcb`, `insertProcQ`, `removeProcQ`, `outProcQ`, `insertChild`, `removeChild`, `outChild` |
| Active semaphore list (ASL) | `phase1/asl.c` | `semd_table` (MAXPROC), `semdFree_h`, `semd_h` | `insertBlocked`, `removeBlocked`, `outBlocked`, `findBlockedPcb` |
| Initialisation | `phase2/initial.c` | pass-up vector, `processCount`, `softBlockCount`, `readyQueue`, `currentProcess`, `deviceSemaphore[49]` | `main` |
| Scheduler | `phase2/scheduler.c` | the above | `scheduler`: dispatch, HALT, WAIT, PANIC |
| System calls | `phase2/exceptions.c`, `phase2/functions.c` | the above | CREATEPROCESS, TERMPROCESS, PASSEREN, VERHOGEN, DOIO, GETTIME, CLOCKWAIT, GETSUPPORTPTR, GETPROCESSID, YIELD; `passUpOrDie`; `uTLB_RefillHandler` |
| Interrupts | `phase2/interrupts.c` | the above, device registers | `handlePLT`, `handleIntervalClock`, `handleDevice` |
| Support level | `phase3/initProc.c`, `phase3/sysSupport.c` | support structures and their free list, five semaphores | `test`, `TerminateSys`, `WriteTerminalSys`, `ReadTerminalSys`, `ExecuteSys` |
| Virtual memory | `phase3/vmSupport.c` | `swap_pool`, private page tables, TLB, flash devices | `pager`, `pageReplacement`, `writeToDevice`, `readFromDevice`, `freeSwapFrames` |
| Lists, kernel log | `headers/listx.h`, `klog.c` | links; a circular log buffer | list primitives; `klog_print` |
| Tests, user programs | `phase1/p1test.c`, `phase2/p2test.c`, `testers/` | | |

**Interaction.** There is one CPU. An exception enters `exceptionHandler` with
interrupts off; the handler it calls works on the global lists and ends in LDST
or LDCXT (a process goes on), in `scheduler()` (LDST of another process, WAIT,
HALT or PANIC), and never returns to its caller. Handlers therefore exclude each
other, and concurrency is the order in which processes issue calls and timers
and devices interrupt. The nucleus wakes processes through the same queues the
calls put them in; devices share `deviceSemaphore` with DOIO. The support level
is code of the processes themselves: it runs with interrupts on, above the
nucleus' PASSEREN and VERHOGEN.

**What is hard.** One `p_list` link per PCB serves the ready queue, every
semaphore queue and the free list; two unsigned counters must agree with those
queues for the scheduler to choose between HALT, WAIT and PANIC; TERMPROCESS
takes processes out of any queue, devices in operation included; interrupts
meet queues whose waiter has gone. `PROJECT.json` lists each hazard with its line.

**What makes each part correct.** Queues: a process is in exactly one place.
ASL: a descriptor for exactly the semaphores with waiters, waiters in order of
arrival, never out of descriptors. Scheduler: HALT when all processes have ended,
PANIC in a deadlock and only there, WAIT only when an interrupt will come. System
calls: the process tree stays one tree, a killed process stops, a caller that is
not killed goes on. Interrupts: each completion wakes the process that asked for
it. Support level: structures and frames follow their processes, mutexes are given
back on every way out, one program runs at a time. Pager: page table, swap pool
table, TLB, frames and flash tell one story about every page.

## 2. Modules

| Module | Models | Relation |
|---|---|---|
| `ProcQueue` | the queue operations of `phase1/pcb.c`, and the loop of `handleIntervalClock`, as operators on sequences | pure |
| `Nucleus` | ASL, scheduler, system calls, exceptions, interrupts | extends `ProcQueue`; implements `Semaphores` |
| `Semaphores` | what a process sees of the nucleus: births, P, V, ticks, deaths | abstract; promised by `Nucleus`, relied on by `Support` |
| `Lists` | the lists of `headers/listx.h` as pointers, and the process queues of `phase1/pcb.c` made of them | pure |
| `Links` | the same queues and trees as pointers: PCB and descriptor links, the handlers that use them | extends `Lists`; implements `Nucleus` |
| `DeviceIo` | DOIO and the interrupt handlers down to registers, addresses, semaphore indices and interrupt lines | beside `Nucleus`, which knows a device only as a key |
| `Support` | `test`, the shell and the programs: support calls, refill handler, pager | extends `ProcQueue`; implements `PrivateMemory`, uses `Semaphores` |
| `PrivateMemory` | what a program sees of the pager: an address space of its own | abstract |
| `MCNucleus`, `MCSupport`, `MCDeviceIo` | instances, symmetry, and assumptions TLC evaluates about the queue operators | extend the module they name |
| `ProcQueueProofs`, `NucleusProofs` | lemmas on queues; the inductive invariant and its consequences, the one tree, what needs the contract, the refinement to `Semaphores` | extend `ProcQueue`, `Nucleus` |
| `ListsProofs` | lists behind pointers; the queue operations on them are those on sequences | extends `Lists`, `ProcQueueProofs` |
| `LinksProofs` | what each function of `phase1` and the two loops do to the lists they touch, and to no other | extends `Links`, `ListsProofs` |
| `LinksRefinement` | every handler on pointers is a step of `Nucleus`; the invariant of the pointers | extends `LinksProofs`; uses `NucleusProofs` |
| `DeviceIoProofs` | who waits where, whose status it is, and what the count counts | extends `DeviceIo` |
| `SupportProofs` | who is where at the support level, who holds what; the use of `Semaphores` | extends `Support` |
| `PagingProofs` | tables, TLB, contents; the refinement to `PrivateMemory` | extends `SupportProofs` |

The modules form one chain: `Links` implements `Nucleus`, `Nucleus` implements
`Semaphores`, and every step of `Support` on its semaphores is a step of
`Semaphores`; on top, what a program's loads return is `PrivateMemory`.

### How `Nucleus` corresponds to the code

A variable has the name of the C variable or field. `pcbFree` is the set of PCBs
on `pcbFree_h`; `s_procq[k]` the queue of the descriptor with key `k`, empty when
there is none; `semd_h` the keys of the active descriptors in list order;
`semValue` the integers at the semaphore addresses, those of `deviceSemaphore`
included. `busy` is the only hardware state: the devices with a command they have
not completed. `machine` says what the CPU does after the last handler.

A handler is one action, from the exception to LDST, LDCXT, WAIT, HALT or PANIC.
`Scheduler(q, count, soft)` is the call of `scheduler()`, given the ready queue
and counters the caller has just produced. Processes are the environment: any
running process may issue any call, trap, or compute until an interrupt.

Data left out: processor states (a step on `p_s` changes nothing else), addresses,
pids (a pid is the identity of the live PCB that has it; `next_pid` does not
repeat within 2^31 creations), CPU times, the order of the two free lists.
GETSUPPORTPTR, GETPROCESSID, a CREATEPROCESS that fails, and a pass-up change no
modelled variable and are stuttering steps. A recursive kill is the removal of
the set `Subtree(t)`: the order in which `killProcess` visits it is not visible,
since queues keep the order of the rest and the counters only add up.

**Undefined steps.** Four handlers can leave defined behaviour. The action then
sets `machine` to a value of `Faults`, and the model stops there; every property
is about executions up to such a step.

* `Zombie`: TERMPROCESS of an ancestor frees the caller, whose state is then loaded.
* `WildPidSearch`: `findBlockedPcb` looks only into the first active descriptor;
  if the pid is not there, its outer loop goes on from links that are not
  descriptors.
* `GetTimeFault`: GETTIME with no active semaphore reads `p_time` through NULL.
* `NullSemStore`: a terminal's error status leads to `(*sem)++` with `sem == NULL`.
  Where the store is harmless, the interrupt stays pending: no modelled variable
  changes.

### How `Support` corresponds to the code

Support level code belongs to the processes and runs with interrupts on. `pc[u]`
is where process `u` is: `user`, or a place between two steps of a handler. A step
ends at each SYSCALL, since that is where the nucleus may switch, at each access
to a page of the caller, which may fault, and at each section with interrupts
off. Code between two of those works on what the process owns or on what a mutex
protects, and is joined to the step before or after it.

| Places | Code |
|---|---|
| `pagerWait`, `pagerHold`, `evicting`, `evicted`, `loading`, `loaded`, `pagerEnd` | `pager`: PASSEREN, replacement, DOIO of the old page and its status, DOIO of the new page and its status, VERHOGEN; `back` says where the faulting access was |
| `term`, `termWait`, `termHold`, `termFreed`, `termSignal`, `termEnd` | `TerminateSys`, call by call |
| `writeWait`, `writeHold`, `writeIo`, `writeEnd`; `readWait`, `readHold`, `readIo`, `readStore`, `readEnd` | the terminal calls; a character is read from, or stored into, the caller's page with the mutex held |
| `execJoin`, `execWait` | `ExecuteSys` after CREATEPROCESS, and in PASSEREN |
| `testJoin`, `testWait`, `testEnd` | the end of `test` |

The nucleus is what `Nucleus` shows of it: semaphores with queues in order of
arrival, DOIO as a step of the device while its caller waits, TERMPROCESS of a
whole subtree. In return `DevicesExclusive` and `NoIoKilled` show that this
level keeps the contract (`ExclusiveIo`, not `IoKills`) under which
`nucleus_contract` is checked. Of user processes one works at a time (`ShellWaits`), so
nobody ever waits for the swap pool or a terminal's mutex while another holds it, and
`DevicesExclusive` follows. What the mutexes add is that they are given back on each way
out; only a mutex that was not blocks anybody.

A page's content is its owner, number and version; `latest` is what the program
stored last, a history the code does not have. The TLB is a partial function of
ASID and page; TLBWR may drop any entry, so every size of the TLB is covered. An
access goes through the TLB or not at all: a missing entry is a step of
`Refill`, an invalid one a step of `PageFault`. `asid[u]` is the local variable
`asid` of the handlers, which the error path of the pager passes on;
`sup_asid` is the field. Any program may store, call or terminate at any time;
invalid arguments and program traps are `Terminate`.

### How `Links` corresponds to the code

A `list_head` is a member of `Links`: the four sentinels, and three links for each
PCB and two for each descriptor; `container_of` is the second component. `mem` is
the memory: `next` and `prev` of each link, and the fields the lists depend on.
`Lists` has what concerns lists alone, for any memory that has such links.
An operator on a memory `m` is the C function of that name, and its value is the
memory after the call, so a handler composes calls as the code does.
`killProcess` keeps the calls that have not returned: `KillStep` is one turn of the
loop, in which the first child leaves and becomes the argument of another call, or,
when there is none left, the rest of the innermost call (`KillOne`). A PCB is an
argument once, so that after 2 * MAXPROC steps, an entry and an exit each, all calls
have returned; the proof shows it (`KillAll`). The loop of the clock is MAXPROC times
`WakeStep` in the same way, which does nothing once the queue is empty. `initPcbs` and
`initASL` count to MAXPROC as the code does. All of them, and the walk `Iterator`, are
functions of the number of steps.
Where the code would lose its way (`findBlockedPcb`, the zombie caller) `machine`
takes the value `Nucleus` gives it. `outBlocked` stores through NULL (`asl.c:127`) for a
PCB that is not where its `p_semAdd` says; the model would only reset that PCB's field,
but by `LInv` no call meets one. The module leaves devices and support structures out: the nucleus treats a device semaphore's queue as any other.
`Abstract` reads the sequences, sets and functions of `Nucleus` off the pointers.
`WellLinked` says that `mem` and the lists in it meet, in every reachable state, what the
theorems of `ListsProofs` assume of a memory and a queue. A `p_child` is no list until
its PCB has been allocated once (`InUse`): the code has not initialised it.

### How `DeviceIo` corresponds to the code

A register `<<line, dev, sub>>` is a device, or one half of a terminal. DOIO
is given the address of a command register and computes its semaphore's index
from that; the handler starts from an interrupt line and a bit map and computes
another address. `findDeviceIndex` is the arithmetic of the code on both.
`phase` and `result` are the hardware: a command is taken, done some time later,
and interrupts until it is acknowledged. `a0` is the status the handler stores for
the process it wakes, named by the register and the command it is about. Interrupts
are taken before the next instruction of a process (`NothingPending`), in any
order among lines; the code's fixed order is one of those. The interval clock
and its index share the arrays with the devices. Which process runs, and all that
does not touch a device, is left to `Nucleus`.

### The abstract modules

`Semaphores` has the processes alive, the values and the queues. `Nucleus` maps
to it with `alive` as the PCBs in use, and `Support` with the processes that have
been created: what the one proves is what the other assumes.

`PrivateMemory` has, for each address space, what a load of each page would return
and what the program stored last. `content` is read through whatever the
program would go through: the TLB entry when there is one, else the page table
entry, to a frame; when there is none, the frame the page is being written out
of, else the flash page.

## 3. Runs

| Run | Instance | What it shows |
|---|---|---|
| `nucleus_contract` | 3 PCBs, 1 priority, 1 semaphore, 2 devices, one a terminal; `IoKills` FALSE, `ExclusiveIo` TRUE; fair | With programs that keep the contract: `NobodyLost`, `SoftBlockExact`, `WaitHasWakeup`, and the liveness `ReadyEventuallyRuns`, `SoftBlockEnds` |
| `nucleus_any` | 3 PCBs, 2 priorities, 1 semaphore, 1 device; any programs | `TypeOK`, `IInv`, `SemdAvailable`, `OneTree`, `HaltWhenAllDead`, `PanicOnlyInDeadlock`, `NoOvertaking`, and the refinement `KeepsPromise` |
| `links` | 3 PCBs and descriptors, 2 priorities, 1 semaphore and the clock | `WellLinked`, `OneListEach`, `ChildrenAgree`, and the refinement `ImplementsNucleus` |
| `devices` | devices 0 and 1 of line 4, terminal 7 of line 7, 3 processes; fair | `TypeOK`, `OneWaiterPerOperation`, `SoftBlockCounted`, `OwnStatus`, and the liveness `OperationReturns` |
| `support` | shell and 2 programs, 3 ASIDs, 1 page each, 1 frame | `TypeOK`, `TerminalExact`, `NoLostStore`, `FramesOwned`, `SupportAccounted`, `ShellWaits` |
| `support_paging` | shell and 1 program, 2 pages each, 2 frames, no terminal calls | `PageTableAgrees`, `TlbAgrees`, `NoLostStore`, and the refinement `ImplementsPrivateMemory` |
| `support_errors` | shell and 1 program, 1 frame; `IoErrors` TRUE; fair | `SwapPoolExact`, `ShellWaits`, `DevicesExclusive`, `NoIoKilled`, `UsesPromisedSemaphores`, and the liveness `FaultServed`, `ExecuteReturns`, `SystemEnds` |
| `zombie_caller`, `pid_search`, `terminal_error`, `leaked_soft_block` | 3 PCBs, 1 semaphore, 1 device | One disagreement each between the nucleus and what the repository says (section 6) |
| `stale_tlb` | shell and 1 program, 1 frame; `Rerun` TRUE | A disagreement in the pager (section 6) |

The *contract* is what the tests and the support level keep to, and what the code
needs: `ExclusiveIo`, DOIO is issued on a device with no operation pending (the
callers hold a mutex), and `IoKills` false, no process is terminated while it
waits for a device. `nucleus_any` drops both.

**Bounds.** `Pcbs` is MAXPROC: three PCBs are a tree of depth two, two waiters
behind a runner, and as many descriptors as the instance has keys to exhaust
(`SemdAvailable` is tight: one descriptor less and it fails). `MaxValue` 1 bounds
what V stores: 0 and 1 are the two cases every test of a semaphore value
distinguishes, and a second V on a value of 1 is a stutter of the first.
`MaxSoftBlock` bounds the soft-block count at the guard of DOIO and CLOCKWAIT; in
`nucleus_any` it is above the number of processes, so that the leak of the count is
reached; under the contract, and in `links`, it equals that number and cuts nothing
off. One priority suffices where
queues need only be fair; two make `InsertProcQ` and YIELD interact.
`nucleus_any` reduces by symmetry of the PCBs; `nucleus_contract`, which checks
liveness, does not. Deadlock is not checked in either, nor in `links`: HALT, PANIC
and the undefined steps end the system. What three PCBs show of the nucleus
and of its pointers is proved for any number (section 4).

`links` has as many PCBs and descriptors as a process with a child and a sibling,
or two waiters on one semaphore and a third on another, need: a list with a middle,
and a descriptor list with more than one entry. The two lines of `devices` differ
in how their index is computed (two registers a device, or one), and hold
the lowest device of a line, its neighbour, and the last register of all, where an
index that is off by one leaves the array; the proofs cover the rest.

In `Support` one frame makes every fault of another process a replacement; two
frames for four pages add the choice between a free frame and the next in turn,
and replacement of one's own pages. `support_paging` cuts executions off at the
terminal calls (`NoTerminalCalls`): what they do to pages is in `support`. Two
programs matter because a program between its signal and its TERMPROCESS
overlaps with the next one. `Versions` 2 tells a page's last content from the one
before; `support_errors`, which asks nothing of contents, takes 1. `Rerun` FALSE
keeps a program from being executed twice, and `IoErrors` FALSE its pages from
failing: with them the code departs from the properties of the other runs, in the
ways section 6 describes. `support` and `support_paging` check for
deadlock: the system stops only in `Halted`. `support_errors` does not, because a
lost terminal mutex does block the shell for ever (section 6); its liveness
properties are about the pager, EXECUTE and the end, which that mutex leaves alone.

**Fairness.** `FairSpec` assumes weak fairness of the local timer, of the interval
timer and of the completion of each busy device: they are hardware, and they are
unmasked while a process runs or the CPU waits (`scheduler` masks only the local
timer in WAIT). Nothing is assumed of processes. It presumes processes that run with
interrupts enabled, as `main` (`phase2/initial.c:46-48`) and the processes of
`p2test.c` do. It needs one priority: with two, a process of the higher
priority that computes for ever starves the lower one, by design.

`FairSpec` of `Support` assumes that a process in the pager, in TERMINATE or in the
end of EXECUTE, that can go on, does so, and that devices answer: all processes
have `PROCESS_PRIO_LOW` (`allocPcb` gives it to `test`), and `handlePLT` makes equals
take turns, which is what `ReadyEventuallyRuns` shows. Nothing is assumed
of a program's own steps, nor of its terminal calls.

`FairSpec` of `DeviceIo` assumes that devices finish and that the interrupt of a
line, and of the clock, is taken: `NothingPending` says that nothing runs before.
Processes need do nothing.

The properties in words stand beside their definitions. Each has a mutant, a
definition changed in the way a bug would change it, for which its run fails.

## 4. Proofs

For every number of processes, semaphores and devices, and any programs:

| Theorem | States |
|---|---|
| `NucleusInvariant` | `Spec => []IInv` |
| `TypeCorrect` | `Spec => []TypeOK`: among others, the unsigned counters do not underflow |
| `SemdAlwaysAvailable` | `Spec => []SemdAvailable`: `insertBlocked`, whose result no caller reads, never fails |
| `HaltSound` | `Spec => []HaltWhenAllDead` |
| `PanicSound` | `Spec => []PanicOnlyInDeadlock` |
| `OneTreeAlways` | `Spec => []OneTree`: no process is ever outside the tree of the first one |
| `NucleusKeepsPromise` | `Spec => KeepsPromise`: the nucleus implements `Semaphores` |
| `NobodyOvertakes` | `Spec => NoOvertaking`: first come, first served |

For programs that keep the contract (`~IoKills /\ ExclusiveIo`):

| Theorem | States |
|---|---|
| `NobodyIsLost` | `Spec => []NobodyLost` |
| `SoftBlockCountExact` | `Spec => []SoftBlockExact` |
| `WaitIsAnswered` | `Spec => []WaitHasWakeup` |

For every memory and queue of any length, on pointers (`m` before the call, `n` after,
`q` the queue's PCBs in order):

| Theorem | States |
|---|---|
| `InsertOnLinks` | `insertProcQ` leads from `q` to `InsertProcQ(q, m.p_prio, p)` |
| `AppendOnLinks` | `list_add_tail` leads from `q` to `Append(q, p)` |
| `RemoveOnLinks` | `headProcQ` is `Head(q)`, `removeProcQ` leads to `Tail(q)`; NULL and `m` when `q` is empty |
| `OutOnLinks` | `outProcQ` leads from `q` to `Without(q, {p})` |

Each says too that the call writes pointers only, that every list without a link of that
queue (and of `p`) stays the list it is, and that pointers and their converses stay in
step. An addition needs `p` off the queue, and for the last also off every other list
(`Loose`).

For every number of PCBs, semaphores and priorities, and any programs, on pointers:

| Theorem | States |
|---|---|
| `LinksInvariant` | `Spec => []LInv` |
| `ListsWellLinked` | `Spec => []WellLinked`: every list is a circle, every pointer has its converse |
| `OneListForEach` | `Spec => []OneListEach`: the one `p_list` is on one list, and no descriptor is lost |
| `ChildrenAreTheTree` | `Spec => []ChildrenAgree`: lists of children and `p_parent` are one tree |
| `PointersImplementNucleus` | `Spec => ImplementsNucleus`: each handler is one step of `Nucleus` |

For any installed devices and any processes (`DevsAssumption`, `NoneAssumption`):

| Theorem | States |
|---|---|
| `OperationsAndWaiters` | `Spec => []OneWaiterPerOperation` |
| `StatusIsOwn` | `Spec => OwnStatus` |
| `SoftBlocksCounted` | `Spec => []SoftBlockCounted` |
| `DeviceTypes` | `Spec => []TypeOK` |

For any number of programs, support structures, pages, frames and versions, whatever
flash operations fail and whether programs are executed twice or not:

| Theorem | States |
|---|---|
| `SupportInductive` | `Spec => [](ControlInv /\ DataInv)` |
| `SupportTypes` | `Spec => []TypeOK` |
| `SwapPoolHeldOnce` | `Spec => []SwapPoolExact` |
| `OneProgramAtATime` | `Spec => []ShellWaits` |
| `OneProcessPerDevice` | `Spec => []DevicesExclusive` |
| `DeviceWaitsSurvive` | `Spec => NoIoKilled` |
| `SupportUsesPromise` | `Spec => UsesPromisedSemaphores` |

Where no flash operation fails, and, for the last three, no program is executed twice:

| Theorem | States |
|---|---|
| `TerminalHeldOnce` | `Spec => [](~IoErrors => TerminalExact)` |
| `SupportsAccounted` | `Spec => [](~IoErrors => SupportAccounted)` |
| `PagingInductive` | `Spec => [](~IoErrors => TableInv)` |
| `FramesAlwaysOwned` | `Spec => [](~IoErrors => FramesOwned)` |
| `TablesAgree` | `Spec => [](~IoErrors => PageTableAgrees)` |
| `TlbNeverStale` | `Spec => [](~IoErrors /\ ~Rerun => TlbAgrees)` |
| `NoStoreLost` | `Spec => [](~IoErrors /\ ~Rerun => NoLostStore)` |
| `PagingIsPrivateMemory` | `~IoErrors /\ ~Rerun` gives `Spec => ImplementsPrivateMemory` |

Those of the nucleus assume what `Nucleus` assumes of its constants (`PcbsAssumption`,
`KeysAssumption`, `PriosAssumption`, `BoundsAssumption`): a finite non-empty set of
PCBs, distinct keys, integer priorities with 0 among them. The bounds `MaxValue` and
`MaxSoftBlock` are constants like the others: no proof needs them small. Those of
`Lists` assume a positive `MaxProc` (`TableAssumption`), and a walk along a queue
needs it to have no more PCBs than that. Those of `Links` add `AddressesAssumption`
(NULL and what `findBlockedPcb` may return are no PCB and no key, the pseudo-clock is
no user semaphore), `PrioritiesAssumption` and `LimitsAssumption`; from these follow
the assumptions of `Nucleus` on the instance (`NucleusAssumptions`). Those of
`Support` assume `ProcsAssumption` and `SizesAssumption`: `test`, the shell and the
programs are different processes, and there is at least one support structure, page
(the code has USERPGTBLSIZE = 32), frame and version. The conditions `~IoErrors` and
`~Rerun` are those of the runs of the same properties, and are not for convenience:
without them the code breaks the property, as section 6 says of each.

**The argument.** None of `SemdAvailable`,
`HaltWhenAllDead` and `PanicOnlyInDeadlock` is inductive: a PANIC is sound because
`softBlockCount` covers the processes that wait for interrupts, which is kept by a
wakeup only because a woken process was counted, which needs the queues and
`p_semAdd` to agree. `IInv` is the conjunction that closes the circle:

* `OneQueueAtATime`: each queue has no duplicates, `p_semAdd[p] = k` exactly when
  `p` is in `s_procq[k]`, and ready, blocked, free and running exclude each other;
* `DescriptorsInv`: `semd_h` lists, once, the keys with waiters. With the previous
  one and a running process it bounds the descriptors in use by MAXPROC - 1:
  distinct keys have distinct first waiters, none of which is the running process
  (`SemdAlwaysAvailable`);
* `SemaphoreInv`: a positive semaphore has no waiters;
* `ProcessCountInv` (equality) and `SoftBlockCovers` (only an inequality: a killed
  device waiter stays counted);
* `CpuInv`: when the CPU idles nothing is ready and the counters still justify it;
* `ParentsInv`: the parent of a live process is live, so a subtree of a live
  process is live and its removal lowers the count by its size.

`ProcQueueProofs` states what `Append`, `Head`, `Tail`, `InsertProcQ`, `Without`
and `Wakeups` do to the range, length and injectivity of a queue.
`NucleusProofs` then has one lemma per effect (`BlockLemma`, `WakeLemma`,
`KillLemma`, `RequeueInv`, ...) and one per action, and joins them in `NextInv`.

*The contract.* `ContractInv` strengthens `IInv` by what only such programs keep:
device and clock semaphores are 0 (no interrupt was ever counted up, so DOIO always
queues its caller), a device is busy exactly for the one process that waits for it,
the soft-block count is the number of waiters, and nobody is lost. The first
depends on the second at each completion, the second on the contract at each DOIO
and each kill. `WaitHasWakeup` then follows from a count above 0.

*The tree.* `Subtree` is the smallest set closed under children, as an intersection.
A process is the root when every closed set that holds it holds all live processes
(`RootFromClosed`); creation and termination carry such sets over, without induction.

*The promise.* Each handler maps to one step of `Semaphores` or to a stutter:
`BlockIsP`, `WakeIsV`, `KillIsDie`; a V is a V because taking the head off an
injective queue is its tail (`WithoutHead`), a tick because taking all waiters off
leaves nobody (`WithoutAll`). `NobodyOvertakes` is then about steps of `Semaphores`
only: appending, and taking processes out, keep the positions of the rest in order
(`AppendKeepsOrder`, `WithoutKeepsOrder`).

*Pointers.* `IsList(m, h, s)` says that `next` and `prev` go round a circle from `h`
through the different links `s` and back; `Nth` counts round it, so that the sentinel
needs no case of its own. `JoinInserts` and `DelRemoves` follow the four writes of
`__list_add` and `list_del`, for any list; `OthersStay` is their frame condition, and
`JoinKeepsPaired`, `DelKeepsPaired` say the same of lists nobody looks at. The walk of
`list_for_each` is `s` by the least step at which it could differ (`IteratorLemma`); that
makes the item at which `insertProcQ` stops the slot of `ProcQueue` (`SlotIsUnique`).

*Handlers on pointers.* `Good(m)` is what a call may count on and must leave:
`Linked`, every list in use is a circle of its items, two lists of a kind share none,
and a link on no list points to itself or nowhere; and `Tables`, the items of a
`p_child` are those with that `p_parent`, and a descriptor is free, or has a key of
its own and waiters. Each function has a lemma of the form `OneListChanges`: one list
becomes another sequence and all others stay. `LInv` is `Good(mem)`, that the running
PCB is on the free list just when its own TERMPROCESS has killed it (`Zombie`), and
the invariants `IInv`, `OneTree` and `ContractInv` of `Nucleus` said of what the
pointers stand for. They are needed to know that a call may be made: that an inserted
PCB is on no list (`NobodyLost`: whoever is not running is in a queue), that
`insertBlocked` finds a descriptor (`SemdAvailable`), that `outBlocked` finds the
process it is given. They need no second proof: each handler is first shown to be a
step of `Nucleus` (`PasserenStep`, `CreateProcessStep`, ...), and then `NextInv`,
`NextTree` and `NextContract` of `NucleusProofs` give them for the next state. Without
devices the contract is kept by every program.

*The recursion.* `Killing` is the invariant of `killProcess(t)` between two steps: the
set K of PCBs freed so far has left every queue and lowered the counters once each, is
closed under children, and lies inside the subtree of `t`; the calls that have not
returned are different PCBs, each the child of the one before and out of its list. After
n steps twice the size of K plus the number of calls is n + 1 (`AfterSteps`), and calls
and K together are at most MAXPROC, so all calls have returned after 2 * MAXPROC steps.
Then `t` is in K, and K, closed under children, is all of `Subtree(t)` (`KillEnd`,
`KillIsStep`). The clock's loop needs only that the pseudo-clock's queue gets shorter
(`WakeAllLemma`).

*Device I/O.* `IndexOfAddresses` is the arithmetic: for every register, the index
from the command's address and the index from the handler's address agree, differ
from those of all other registers and from the pseudo-clock, and stay within the
array. `DInv` then keeps one waiter for each operation. With it every interrupt
takes exactly one register out of `InProgress` and one off `softBlockCount`, which is
all there is to know why that unsigned count does not pass zero.

*The support level.* `ShellWaits` and `SwapPoolExact` need each other: a holder of
the swap pool is not killed by another process because only the ends of the shell and
of `test` kill more than their caller, and they come only while no program works; that
no program works is known from a semaphore that a program signals after its last use
of the swap pool. `ControlInv` joins them:

* `PlacesInv`, `QueuesInv`: a queue holds the processes at its wait places, once;
* `MutexInv`: a mutex is 1 and nobody holds it, or 0 and one process does; `Holds`
  includes a page fault taken inside a terminal call, where an error may lose a half
  of the terminal, and only then;
* `TurnInv`, `SignalInv`: of `test`, the shell and a working program at most one has
  the turn that the semaphores `shell` and `test` hand over, signals included that
  were given and not yet taken;
* `StatusInv`: without errors every status is that of success.

`DataInv` adds that support structures are free once or belong to one process, and
their ASIDs agree with the handlers' copies. The deaths are one lemma (`Deaths`):
whoever a step removes stands at a place where nothing is held. `SupportUsesPromise`
then maps each step to at most one step of `Semaphores`.

*Paging.* `PageTableAgrees` and `FramesOwned` are not inductive either: a replacement
ends in a table entry for the page that faulted, which is new only if that page had
no frame, and the fault was taken on the word of the TLB. `TableInv` adds

* `FaultInv`: the page a process in the pager waits for is not valid in its table;
* `TlbInvalid`: a TLB entry that says "invalid" is right about the table (one that
  says "valid" is another question, below);
* `EvictInv`: the page being written out is already invalid in its owner's table.

`TlbInv` adds to `TlbAgrees` that an ASID that has not been executed has nothing in
the TLB; that is where `~Rerun` is needed. `StoreInv` says where a page's last
content is: in its frame (`InFrame`), in the frame being written out (`OnTheWay`), in
its flash block (`InFlash`), and in the frame just read (`Loaded`). A store goes
through the TLB, so it reaches the page's frame by `TlbAgrees`, and no other frame is
that page's by `PageTableAgrees`. With `TlbAgrees` and `StoreInv`, what a load would
return, through whatever it goes, is what was stored last (`SeenIsLatest`): both
variables of `PrivateMemory` are one function of the address space, and a step of
`Support` starts a space, stores to one page of one, ends some, or changes none.

TLC found each of these invariants to hold on small instances before it was proved.

**Only model-checked:**

* liveness, which is out of the prover's reach: `ReadyEventuallyRuns`,
  `SoftBlockEnds`, `OperationReturns`, `FaultServed`, `ExecuteReturns`, `SystemEnds`;
* the agreement of `Wakeups` with the loop of the code and of `Without` with a filter
  (induction over sequences; assumptions of `MCNucleus` that TLC evaluates over every
  queue of up to three processes and two priorities).

## 5. Coverage

`PROJECT.json` maps each definition to the lines it translates. Not modelled:

* CPU times: no decision of the code depends on `p_time`, and GETTIME does not get
  to it (section 6).
* Addresses given to DOIO that are no device's command register: the code stores to
  them and uses an index of -1 or of the pseudo-clock.
* Page numbers outside the page table (`findPageIndex` does not bound its result),
  the width of `frameIndex` and of a semaphore's integer.
* Contents of frames after a failed transfer: what should survive one is said nowhere.
* The kernel log, a debugging buffer: nothing in the repository calls `klog_print`,
  and nothing reads what it writes.
* Test and user programs: they are the environment, which may do what they do.
* List operations the kernel does not use, and copies of processor states.

## 6. Where code and text disagree

The first five are runs that must fail, with one property that states the text.

1. `zombie_caller`: `p2test.c:741` expects a process to die with the parent it
   terminates; `exceptions.c:92` resumes it after freeing its PCB.
2. `pid_search`: `exceptions.c:99` says the caller of TERMPROCESS goes on;
   `asl.c:168-175` shares one iterator between two loops and does not return
   unless the pid is on the newest semaphore.
3. `terminal_error`: `sysSupport.c:48` handles error statuses; `interrupts.c:37-61`
   does not deliver them.
4. `leaked_soft_block`: `scheduler.c:21` names the branch for deadlock; the count
   that `functions.c:77` leaves behind when a device waiter is terminated leads to
   WAIT instead.
5. `stale_tlb`: `vmSupport.c:65` says a cached entry is updated with its page;
   `TerminateSys` frees the frames of a process and leaves its TLB entries. The
   shell executes the same ASID again for the same command, and the new process
   goes through the entries of the old one.

Seen on the way, without a run of their own:

* GETTIME (`exceptions.c:162-163`) looks for the process whose pid is the number of
  the CPU, 0; pids start at 1. `p2test.c:373` expects CPU time. `Nucleus` has it as
  the undefined step `GetTimeFault`.
* The completion of a device whose waiter was terminated leaves its semaphore at 1
  (`interrupts.c:81` calls that impossible); the next DOIO then queues nobody. This
  is why `NobodyLost` needs the contract.
* A page fault that ends in termination inside a terminal call keeps the terminal's
  mutex, while `sysSupport.c:74` releases it in the one case the handler sees
  itself. `TerminalExact` fails when `IoErrors` is TRUE.
* After a failed write the pager terminates the faulting process with the ASID of
  the page's owner (`vmSupport.c:89`): the owner's frames are freed and those of
  the terminated process stay taken, against `sysSupport.c:10`. `FramesOwned` fails
  with `IoErrors` TRUE, two pages and two frames. If the page was the shell's,
  `test` is woken and everything ends.
* Which status the flash device returns for which failure is not in the repository:
  the code tests 5 after a read and 4 after a write. `FlashStatus` lets both occur
  after either, so the models also cover a device that has them the other way
  round, where a failed transfer passes for a good one.

## 7. Plan

Done: `Nucleus`, `Support`, `Lists`, `Links` and `DeviceIo`; the abstract `Semaphores` and
`PrivateMemory` with their refinements; the proofs of section 4, which cover every
invariant and action property of the runs, and the refinements. Left:

1. What survives a failed transfer: which of `TableInv` the code keeps when `IoErrors`
   is TRUE, should the repository come to say what the pager owes then.
2. The free list of support structures on pointers, of which `Support` has the sequence.
3. CPU times and the kernel log, should other code come to depend on them.
