---------------------------- MODULE SupportProofs ----------------------------
(***************************************************************************)
(* The support level for every number of programs, pages, frames, ASIDs    *)
(* and support structures: its mutexes, the turns of test, the shell and   *)
(* the programs, its support structures, its waits for devices, and that   *)
(* it uses its semaphores as the nucleus promises them.                    *)
(*                                                                         *)
(* The inductive invariant has a part for the control of the processes     *)
(* (ControlInv: who is where, who waits in which queue, who holds which    *)
(* mutex, whose turn it is) and one for the data (DataInv: types, support  *)
(* structures, records of frames that are written out).  The second needs  *)
(* the first: a structure is given back once because one process runs its  *)
(* termination, a record stays because its frame's process has the swap    *)
(* pool.                                                                   *)
(***************************************************************************)
EXTENDS Support, ProcQueueProofs

(* Where processes can be.                                                 *)
TestPlaces == {"testJoin", "testWait", "testEnd", "absent"}
ExecPlaces == {"execJoin", "execWait"}
TermPlaces == {"term", "termWait", "termHold", "termFreed", "termSignal", "termEnd"}
UserPlaces ==
  {"user", "pagerWait", "pagerHold", "evicting", "evicted", "loading", "loaded",
   "pagerEnd", "writeWait", "writeHold", "writeIo", "writeEnd",
   "readWait", "readHold", "readIo", "readStore", "readEnd"}

WaitPlaces(k) ==
  CASE k = "swapPool"  -> {"pagerWait", "termWait"}
    [] k = "master"    -> {"testWait"}
    [] k = "shell"     -> {"execWait"}
    [] k = "termWrite" -> {"writeWait"}
    [] k = "termRead"  -> {"readWait"}

(* test, the shell and the programs are each at places of their own.       *)
PlacesInv ==
  /\ pc \in [Procs -> TestPlaces \cup ExecPlaces \cup TermPlaces \cup UserPlaces]
  /\ back \in [UProcs -> {"user", "writeHold", "readStore"}]
  /\ pc[Test] \in TestPlaces
  /\ \A u \in UProcs : pc[u] \in ExecPlaces \cup TermPlaces \cup UserPlaces \cup {"absent"}
  /\ \A n \in Programs : pc[n] \notin ExecPlaces

(* A queue holds the processes at its wait places, once; a semaphore with  *)
(* waiters is 0.                                                           *)
QueuesInv ==
  /\ sem \in [Sems -> 0..1] /\ waiting \in [Sems -> Seq(Procs)]
  /\ \A k \in Sems :
       /\ IsInjective(waiting[k])
       /\ \A u \in Procs : u \in Range(waiting[k]) <=> pc[u] \in WaitPlaces(k)
       /\ waiting[k] # <<>> => sem[k] = 0

Mutexes == {"swapPool", "termWrite", "termRead"}

(* Does a process at place s, whose pager returns to b, hold mutex k?      *)
Holding(k, s, b) ==
  CASE k = "swapPool"  -> s \in SwapHeld \cup {"termHold"}
    [] k = "termWrite" -> \/ s \in {"writeHold", "writeIo", "writeEnd"}
                          \/ s \in SwapHeld \cup {"pagerWait"} /\ b = "writeHold"
    [] k = "termRead"  -> \/ s \in {"readHold", "readIo", "readStore", "readEnd"}
                          \/ s \in SwapHeld \cup {"pagerWait"} /\ b = "readStore"

Holds(u, k) == Holding(k, pc[u], back[u])

(* A mutex has one holder at most, is 0 then, and 1 without one; a half of *)
(* the terminal may be lost in an error.                                   *)
MutexInv ==
  \A k \in Mutexes :
    /\ \A u, v \in UProcs : Holds(u, k) /\ Holds(v, k) => u = v
    /\ \A u \in UProcs : Holds(u, k) => sem[k] = 0
    /\ (k = "swapPool" \/ ~IoErrors) /\ (\A u \in UProcs : ~Holds(u, k)) => sem[k] = 1

(* Turns of the shell and its programs.                                    *)
ShellRuns == pc[ShellProc] \notin {"execJoin", "execWait", "termEnd", "absent"}
MasterSignalled == sem["master"] = 1 \/ pc[Test] \in {"testEnd", "absent"}

TurnInv ==
  /\ ShellRuns => Working = {} /\ sem["shell"] = 0 /\ ~MasterSignalled
  /\ Working # {} => pc[ShellProc] \in ExecPlaces /\ sem["shell"] = 0 /\ ~MasterSignalled
  /\ \A m, n \in Working : m = n
  /\ pc[ShellProc] \in ExecPlaces /\ sem["shell"] = 1 => ~MasterSignalled
  /\ ~IoErrors /\ MasterSignalled => pc[ShellProc] \in {"termEnd", "absent"}
  /\ pc[Test] = "absent" => \A u \in UProcs : pc[u] = "absent"

(* The ASID in a process' handlers tells whom it signals in the end.       *)
SignalInv ==
  \A u \in UProcs :
    pc[u] \in UserPlaces \cup ExecPlaces \/ (~IoErrors /\ pc[u] # "absent")
      => (asid[u] = SHELL_ASID <=> u = ShellProc)

(* Without errors every status is that of success.                         *)
StatusInv == ~IoErrors => \A u \in UProcs : status[u] = 1

ControlInv ==
  PlacesInv /\ QueuesInv /\ MutexInv /\ TurnInv /\ SignalInv /\ StatusInv

(* A process that has its support structure, and with no error its ASID.   *)
HasSup(u) == pc[u] \notin {"absent", "termSignal", "termEnd"}

(* The types of the data.                                                  *)
DataTyped ==
  /\ sup \in [UProcs -> Sups] /\ asid \in [UProcs -> Asids]
  /\ page \in [UProcs -> Pages] /\ frame \in [UProcs -> Frames]
  /\ status \in [UProcs -> {1, 4, 5}]
  /\ supFree \in Seq(Sups) /\ sup_asid \in [Sups -> Asids \cup {0}]
  /\ pgtbl \in [Sups -> [asid : Asids \cup {0},
                         entry : [Pages -> Frames \cup {Invalid}]]]
  /\ swap_pool \in [Frames -> {FreeFrame} \cup
                                [asid : Asids, pageNo : Pages, sup : Sups]]
  /\ frameIndex \in Frames
  /\ tlb \in [Asids -> [Pages -> Frames \cup {Absent, Invalid}]]
  /\ executed \subseteq Asids

(* A support structure is on the free list once or has one process.        *)
SupInv ==
  /\ IsInjective(supFree)
  /\ \A u \in UProcs : HasSup(u) =>
       /\ sup[u] \notin Range(supFree)
       /\ \A v \in UProcs : HasSup(v) /\ sup[v] = sup[u] => v = u
       /\ sup_asid[sup[u]] \in Asids /\ pgtbl[sup[u]].asid = sup_asid[sup[u]]
       /\ pc[u] \notin TermPlaces \/ ~IoErrors => asid[u] = sup_asid[sup[u]]
  /\ ~IoErrors => \A s \in Sups : s \in Range(supFree) \/
                     \E u \in UProcs : HasSup(u) /\ sup[u] = s

(* A frame being written out keeps its record.                             *)
RecordInv ==
  \A u \in UProcs : pc[u] \in {"evicting", "evicted"} => swap_pool[frame[u]] # FreeFrame

DataInv == DataTyped /\ SupInv /\ RecordInv
-----------------------------------------------------------------------------
(* Semaphores and their queues.                                            *)

Places == TestPlaces \cup ExecPlaces \cup TermPlaces \cup UserPlaces
Waits  == DOMAIN AfterWait

(* Each wait place belongs to one semaphore, and leads to a place where    *)
(* the process does not wait.                                              *)
LEMMA WaitFacts ==
  /\ \A k \in Sems : \A w \in WaitPlaces(k) :
       w \in Waits /\ w \in Places /\ AfterWait[w] \in Places \ Waits
  /\ \A k, j \in Sems : k # j => WaitPlaces(k) \cap WaitPlaces(j) = {}
  /\ \A w \in Waits : \E k \in Sems : w \in WaitPlaces(k)
  BY DEF Sems, WaitPlaces, Waits, AfterWait, Places, TestPlaces, ExecPlaces,
         TermPlaces, UserPlaces

(* PASSEREN: a caller that waits nowhere is served or goes to the end of   *)
(* one queue.                                                              *)
LEMMA PQueues ==
  ASSUME QueuesInv, pc \in [Procs -> Places], NEW k \in Sems, NEW u \in Procs,
         NEW w \in WaitPlaces(k), pc[u] \notin Waits, P(k, u, w)
  PROVE  QueuesInv'
<1>1. CASE sem[k] > 0 /\ sem' = [sem EXCEPT ![k] = @ - 1]
            /\ Goto(u, AfterWait[w]) /\ UNCHANGED waiting
  BY <1>1, WaitFacts DEF QueuesInv, Goto
<1>2. CASE sem[k] <= 0 /\ waiting' = [waiting EXCEPT ![k] = Append(@, u)]
            /\ Goto(u, w) /\ UNCHANGED sem
  <2>1. waiting[k] \in Seq(Procs) /\ u \notin Range(waiting[k]) /\ sem[k] = 0
    BY <1>2, WaitFacts DEF QueuesInv
  <2>2. /\ Append(waiting[k], u) \in Seq(Procs)
        /\ Range(Append(waiting[k], u)) = Range(waiting[k]) \cup {u}
        /\ IsInjective(Append(waiting[k], u))
    BY <2>1, EnqueueLemma DEF QueuesInv
  <2> QED  BY <1>2, <2>1, <2>2, WaitFacts DEF QueuesInv, Goto
<1> QED  BY <1>1, <1>2 DEF P

(* VERHOGEN of a semaphore that is 0: the first in its queue leaves it, or *)
(* it becomes 1.                                                           *)
LEMMA VQueues ==
  ASSUME QueuesInv, pc \in [Procs -> Places], NEW k \in Sems, NEW u \in Procs,
         NEW next \in Places \ Waits, pc[u] \notin Waits, sem[k] = 0, V(k, u, next)
  PROVE  QueuesInv'
<1>1. CASE waiting[k] # <<>>
  <2> DEFINE first == Head(waiting[k])
  <2>1. /\ waiting[k] \in Seq(Procs) /\ IsInjective(waiting[k])
        /\ waiting' = [waiting EXCEPT ![k] = Tail(@)] /\ UNCHANGED sem
        /\ pc' = [pc EXCEPT ![u] = next, ![first] = AfterWait[pc[first]]]
    BY <1>1 DEF V, QueuesInv
  <2>2. /\ first \in Range(waiting[k]) /\ Tail(waiting[k]) \in Seq(Procs)
        /\ Range(Tail(waiting[k])) = Range(waiting[k]) \ {first}
        /\ IsInjective(Tail(waiting[k]))
    BY <1>1, <2>1, DequeueLemma
  <2> HIDE DEF first
  <2>3. first \in Procs /\ pc[first] \in WaitPlaces(k)
    BY <2>1, <2>2 DEF QueuesInv, Range
  <2>4. first # u /\ pc'[first] \in Places \ Waits /\ pc'[u] \in Places \ Waits
        /\ \A v \in Procs \ {u, first} : pc'[v] = pc[v]
    BY <2>1, <2>3, WaitFacts
  <2>5. ASSUME NEW j \in Sems, NEW v \in Procs
        PROVE  v \in Range(waiting'[j]) <=> pc'[v] \in WaitPlaces(j)
    <3>1. waiting'[j] = IF j = k THEN Tail(waiting[k]) ELSE waiting[j]
      BY <2>1 DEF QueuesInv
    <3>2. v \in Range(waiting[j]) <=> pc[v] \in WaitPlaces(j)
      BY DEF QueuesInv
    <3>3. CASE v \in {u, first}
      <4>1. pc'[v] \notin WaitPlaces(j)
        BY <2>4, <3>3, WaitFacts
      <4>2. v = u => v \notin Range(waiting[j])
        BY <3>2, WaitFacts
      <4>3. v = first /\ j # k => v \notin Range(waiting[j])
        BY <2>3, <3>2, WaitFacts
      <4> QED  BY <2>2, <3>1, <3>3, <4>1, <4>2, <4>3
    <3>4. CASE v \notin {u, first}
      BY <2>2, <2>4, <3>1, <3>2, <3>4
    <3> QED  BY <3>3, <3>4
  <2> QED  BY <2>1, <2>2, <2>5 DEF QueuesInv
<1>2. CASE waiting[k] = <<>>
  <2>1. /\ UNCHANGED waiting /\ sem' = [sem EXCEPT ![k] = @ + 1]
        /\ pc' = [pc EXCEPT ![u] = next]
    BY <1>2 DEF V, Goto
  <2>2. sem' \in [Sems -> 0..1] /\ \A j \in Sems \ {k} : sem'[j] = sem[j]
    BY <2>1 DEF QueuesInv
  <2>3. \A j \in Sems : pc[u] \notin WaitPlaces(j) /\ pc'[u] \notin WaitPlaces(j)
    BY <2>1, WaitFacts
  <2> QED  BY <1>2, <2>1, <2>2, <2>3 DEF QueuesInv
<1> QED  BY <1>1, <1>2

(* A step without a semaphore, between places where a process does not     *)
(* wait.                                                                   *)
LEMMA GotoQueues ==
  ASSUME QueuesInv, pc \in [Procs -> Places], NEW u \in Procs, NEW next \in Places \ Waits,
         pc[u] \notin Waits, Goto(u, next), UNCHANGED sems
  PROVE  QueuesInv'
  BY WaitFacts DEF QueuesInv, Goto, sems
-----------------------------------------------------------------------------
(* Who holds which mutex.                                                  *)

Backs == {"user", "writeHold", "readStore"}

(* A process that waits for a mutex does not have it, and holds the others *)
(* it had when it gets it.                                                 *)
LEMMA HoldFacts ==
  ASSUME NEW k \in Mutexes, NEW w \in WaitPlaces(k), NEW b \in Backs
  PROVE  /\ ~Holding(k, w, b) /\ Holding(k, AfterWait[w], b)
         /\ \A j \in Mutexes \ {k} : Holding(j, w, b) <=> Holding(j, AfterWait[w], b)
<1>1. CASE k = "swapPool"
  <2>1. w \in {"pagerWait", "termWait"}
    BY <1>1 DEF WaitPlaces
  <2>2. AfterWait[w] = IF w = "pagerWait" THEN "pagerHold" ELSE "termHold"
    BY <2>1 DEF AfterWait
  <2> QED  BY <1>1, <2>1, <2>2 DEF Mutexes, Holding, SwapHeld
<1>2. CASE k = "termWrite"
  <2>1. w = "writeWait" /\ AfterWait[w] = "writeHold"
    BY <1>2 DEF WaitPlaces, AfterWait
  <2> QED  BY <1>2, <2>1 DEF Mutexes, Holding, SwapHeld
<1>3. CASE k = "termRead"
  <2>1. w = "readWait" /\ AfterWait[w] = "readHold"
    BY <1>3 DEF WaitPlaces, AfterWait
  <2> QED  BY <1>3, <2>1 DEF Mutexes, Holding, SwapHeld
<1> QED  BY <1>1, <1>2, <1>3 DEF Mutexes

(* A step that leaves its process the same mutexes.                        *)
LEMMA GotoMutex ==
  ASSUME PlacesInv, MutexInv, NEW u \in UProcs, NEW next, Goto(u, next),
         UNCHANGED <<back, sem>>,
         \A j \in Mutexes : Holding(j, next, back[u]) <=> Holds(u, j)
  PROVE  MutexInv'
<1>1. \A v \in UProcs, j \in Mutexes : Holds(v, j)' <=> Holds(v, j)
  BY DEF PlacesInv, Goto, Holds, Procs
<1> QED  BY <1>1 DEF MutexInv

(* PASSEREN of a mutex by a process that does not have it; its other       *)
(* mutexes stay the same.                                                  *)
LEMMA PMutex ==
  ASSUME PlacesInv, QueuesInv, MutexInv, NEW k \in Mutexes, NEW u \in UProcs,
         NEW w \in WaitPlaces(k), NEW b \in Backs, back' = [back EXCEPT ![u] = b],
         P(k, u, w), ~Holds(u, k),
         \A j \in Mutexes \ {k} : Holding(j, w, b) <=> Holds(u, j)
  PROVE  MutexInv'
<1>1. k \in Sems /\ Mutexes \subseteq Sems
  BY DEF Mutexes, Sems
<1>2. ~Holding(k, w, b) /\ Holding(k, AfterWait[w], b)
      /\ \A j \in Mutexes \ {k} : Holding(j, AfterWait[w], b) <=> Holds(u, j)
  BY HoldFacts
<1>3. pc'[u] \in {w, AfterWait[w]} /\ back'[u] = b
      /\ \A v \in UProcs \ {u} : pc'[v] = pc[v] /\ back'[v] = back[v]
  BY DEF P, Goto, PlacesInv, Procs
<1>4. \A v \in UProcs, j \in Mutexes : v # u \/ j # k => (Holds(v, j)' <=> Holds(v, j))
  BY <1>2, <1>3 DEF Holds
<1>5. CASE sem[k] > 0 /\ sem' = [sem EXCEPT ![k] = @ - 1] /\ Goto(u, AfterWait[w])
  <2>1. sem[k] = 1 /\ sem'[k] = 0 /\ \A j \in Mutexes \ {k} : sem'[j] = sem[j]
    BY <1>1, <1>5 DEF QueuesInv
  <2>2. Holds(u, k)' /\ \A v \in UProcs \ {u} : ~Holds(v, k)'
    BY <1>2, <1>3, <1>4, <1>5, <2>1 DEF Holds, MutexInv, Goto, PlacesInv, Procs
  <2> QED  BY <1>4, <2>1, <2>2 DEF MutexInv
<1>6. CASE Goto(u, w) /\ UNCHANGED sem
  <2>1. ~Holds(u, k)'
    BY <1>2, <1>3, <1>6 DEF Holds, Goto, PlacesInv, Procs
  <2> QED  BY <1>4, <1>6, <2>1 DEF MutexInv
<1> QED  BY <1>5, <1>6 DEF P

(* Giving mutex k back; on an error a process may lose another one.        *)
LEMMA VMutex ==
  ASSUME PlacesInv, QueuesInv, MutexInv, NEW k \in Mutexes, NEW u \in UProcs,
         NEW next, UNCHANGED back, V(k, u, next), pc[u] \notin Waits,
         Holds(u, k), ~Holding(k, next, back[u]),
         \A j \in Mutexes \ {k} :
           /\ Holding(j, next, back[u]) => Holds(u, j)
           /\ j = "swapPool" \/ ~IoErrors => (Holding(j, next, back[u]) <=> Holds(u, j))
  PROVE  MutexInv'
<1>1. k \in Sems /\ Mutexes \subseteq Sems /\ sem[k] = 0
  BY DEF Mutexes, Sems, MutexInv
<1>2. CASE waiting[k] # <<>>
  <2>1. /\ waiting[k] \in Seq(Procs) /\ IsInjective(waiting[k])
        /\ \A v \in Procs : v \in Range(waiting[k]) => pc[v] \in WaitPlaces(k)
    BY <1>1 DEF QueuesInv
  <2>2. Head(waiting[k]) \in Range(waiting[k]) /\ Head(waiting[k]) \in Procs
    BY <1>2, <2>1, DequeueLemma DEF Range
  <2>3. PICK first \in Procs : first = Head(waiting[k]) /\ pc[first] \in WaitPlaces(k)
    BY <2>1, <2>2
  <2>4. first \in UProcs /\ first # u
    BY <1>1, <2>3, WaitFacts DEF Procs, PlacesInv, TestPlaces, Mutexes, WaitPlaces
  <2>5. pc'[first] = AfterWait[pc[first]] /\ pc'[u] = next
        /\ \A v \in UProcs \ {u, first} : pc'[v] = pc[v]
    BY <1>2, <2>3, <2>4 DEF V, PlacesInv, Procs
  <2>6. back[first] \in Backs
    BY <2>4 DEF PlacesInv, Backs
  <2>7. Holds(first, k)' /\ ~Holds(u, k)'
    <3>1. Holding(k, AfterWait[pc[first]], back[first])
      BY <2>3, <2>6, HoldFacts
    <3> QED  BY <2>5, <3>1 DEF Holds
  <2>8. \A j \in Mutexes \ {k} : Holds(first, j)' <=> Holds(first, j)
    <3>1. \A j \in Mutexes \ {k} :
            Holding(j, pc[first], back[first])
              <=> Holding(j, AfterWait[pc[first]], back[first])
      BY <2>3, <2>6, HoldFacts
    <3> QED  BY <2>5, <3>1 DEF Holds
  <2>9. \A v \in UProcs \ {u, first}, j \in Mutexes : Holds(v, j)' <=> Holds(v, j)
    BY <2>5 DEF Holds
  <2>10. \A v \in UProcs : Holds(v, k)' <=> v = first
    <3>1. \A v \in UProcs \ {u} : ~Holds(v, k)
      BY DEF MutexInv
    <3> QED  BY <2>4, <2>7, <2>9, <3>1
  <2>11. ASSUME NEW v \in UProcs, NEW j \in Mutexes \ {k}
         PROVE  /\ Holds(v, j)' => Holds(v, j)
                /\ j = "swapPool" \/ ~IoErrors => (Holds(v, j)' <=> Holds(v, j))
    <3>1. CASE v = u
      BY <2>5, <3>1 DEF Holds
    <3>2. CASE v = first
      BY <2>8, <3>2
    <3>3. CASE v \notin {u, first}
      BY <2>9, <3>3
    <3> QED  BY <3>1, <3>2, <3>3
  <2>12. UNCHANGED sem
    BY <1>2 DEF V
  <2> QED  BY <1>1, <2>4, <2>10, <2>11, <2>12 DEF MutexInv
<1>3. CASE waiting[k] = <<>>
  <2>1. pc'[u] = next /\ \A v \in UProcs \ {u} : pc'[v] = pc[v]
    BY <1>3 DEF V, Goto, PlacesInv, Procs
  <2>2. sem'[k] = 1 /\ \A j \in Mutexes \ {k} : sem'[j] = sem[j]
    BY <1>1, <1>3 DEF V, QueuesInv
  <2>3. \A v \in UProcs : ~Holds(v, k)'
    BY <2>1 DEF Holds, MutexInv
  <2>4. \A v \in UProcs, j \in Mutexes \ {k} :
           /\ Holds(v, j)' => Holds(v, j)
           /\ j = "swapPool" \/ ~IoErrors => (Holds(v, j)' <=> Holds(v, j))
    BY <2>1 DEF Holds
  <2> QED  BY <2>2, <2>3, <2>4 DEF MutexInv
<1> QED  BY <1>2, <1>3
-----------------------------------------------------------------------------
(* Moves of a U-proc between two places where it is neither in EXECUTE nor *)
(* at its end, other processes at most being served after a wait.          *)

Active == (TermPlaces \ {"termEnd"}) \cup UserPlaces

Moves(u) ==
  /\ pc' \in [Procs -> Places]
  /\ pc'[Test] = pc[Test]
  /\ \A v \in UProcs :
       /\ pc'[v] \in Active <=> pc[v] \in Active
       /\ pc[v] \notin Active => pc'[v] = pc[v]
  /\ \A v \in UProcs \ {u} : pc'[v] \in UserPlaces <=> pc[v] \in UserPlaces
  /\ pc'[u] \in UserPlaces => pc[u] \in UserPlaces
  /\ sem'["shell"] = sem["shell"] /\ sem'["master"] = sem["master"]

(* test is not a U-proc; a U-proc is the shell or a program.               *)
LEMMA ProcFacts ==
  /\ Test \notin UProcs /\ ShellProc \in UProcs /\ ShellProc \notin Programs
  /\ \A n \in Programs : n \in UProcs
  /\ \A u \in UProcs : u \in Procs /\ (u = ShellProc \/ u \in Programs)
  /\ Test \in Procs /\ \A v \in Procs : v = Test \/ v \in UProcs
  BY ProcsAssumption DEF UProcs, Procs

(* The places, by what a process is at.                                    *)
LEMMA PlaceFacts ==
  /\ Active \subseteq Places \ (TestPlaces \cup ExecPlaces \cup {"termEnd"})
  /\ UserPlaces \subseteq Active
  /\ Places = Active \cup ExecPlaces \cup TestPlaces \cup {"termEnd"}
  BY DEF Active, Places, TestPlaces, ExecPlaces, TermPlaces, UserPlaces

(* A process that waits for a mutex is active, and stays where it was: in  *)
(* a program or in its termination.                                        *)
LEMMA MutexWaits ==
  ASSUME NEW k \in Mutexes, NEW w \in WaitPlaces(k)
  PROVE  /\ w \in Active /\ AfterWait[w] \in Active
         /\ w \in UserPlaces <=> AfterWait[w] \in UserPlaces
  BY DEF Mutexes, WaitPlaces, AfterWait, Active, TermPlaces, UserPlaces

(* The three ways to move: without a semaphore, ...                        *)
LEMMA GotoMoves ==
  ASSUME PlacesInv, NEW u \in UProcs, NEW next \in Active, pc[u] \in Active,
         next \in UserPlaces => pc[u] \in UserPlaces, Goto(u, next), UNCHANGED sem
  PROVE  Moves(u)
  BY ProcFacts, PlaceFacts DEF PlacesInv, Goto, Moves, Places

(* ... with PASSEREN of a mutex, ...                                       *)
LEMMA PMoves ==
  ASSUME PlacesInv, QueuesInv, NEW k \in Mutexes, NEW u \in UProcs,
         NEW w \in WaitPlaces(k), P(k, u, w), pc[u] \in Active,
         w \in UserPlaces => pc[u] \in UserPlaces
  PROVE  Moves(u)
<1>1. k \in Sems /\ k # "shell" /\ k # "master"
  BY DEF Mutexes, Sems
<1>2. sem'["shell"] = sem["shell"] /\ sem'["master"] = sem["master"]
  BY <1>1 DEF P, QueuesInv, Sems
<1>3. PICK next \in {w, AfterWait[w]} : pc' = [pc EXCEPT ![u] = next]
  BY DEF P, Goto
<1>4. next \in Active /\ (next \in UserPlaces => pc[u] \in UserPlaces)
  BY <1>3, MutexWaits
<1> QED  BY <1>2, <1>3, <1>4, ProcFacts, PlaceFacts DEF PlacesInv, Moves, Places

(* ... with VERHOGEN of a mutex, which may serve another active process.   *)
LEMMA VMoves ==
  ASSUME PlacesInv, QueuesInv, NEW k \in Mutexes, NEW u \in UProcs,
         NEW next \in Active, V(k, u, next), pc[u] \in Active, pc[u] \notin Waits,
         next \in UserPlaces => pc[u] \in UserPlaces
  PROVE  Moves(u)
<1>1. k \in Sems /\ k # "shell" /\ k # "master"
  BY DEF Mutexes, Sems
<1>2. sem'["shell"] = sem["shell"] /\ sem'["master"] = sem["master"]
  BY <1>1 DEF V, QueuesInv, Sems
<1>3. CASE waiting[k] # <<>>
  <2>1. /\ waiting[k] \in Seq(Procs) /\ IsInjective(waiting[k])
        /\ \A v \in Procs : v \in Range(waiting[k]) => pc[v] \in WaitPlaces(k)
    BY <1>1 DEF QueuesInv
  <2>2. Head(waiting[k]) \in Range(waiting[k]) /\ Head(waiting[k]) \in Procs
    BY <1>3, <2>1, DequeueLemma DEF Range
  <2>3. PICK first \in Procs : first = Head(waiting[k]) /\ pc[first] \in WaitPlaces(k)
    BY <2>1, <2>2
  <2>4. /\ pc[first] \in Active /\ AfterWait[pc[first]] \in Active
        /\ pc[first] \in UserPlaces <=> AfterWait[pc[first]] \in UserPlaces
    BY <2>3, MutexWaits
  <2>5. first # u /\ first # Test
    BY <1>1, <2>3, <2>4, WaitFacts, ProcFacts, PlaceFacts DEF PlacesInv
  <2>6. pc' = [pc EXCEPT ![u] = next, ![first] = AfterWait[pc[first]]]
    BY <1>3, <2>3 DEF V
  <2> QED  BY <1>2, <2>4, <2>5, <2>6, ProcFacts, PlaceFacts DEF PlacesInv, Moves, Places
<1>4. CASE waiting[k] = <<>>
  BY <1>2, <1>4, ProcFacts, PlaceFacts DEF V, Goto, PlacesInv, Moves, Places
<1> QED  BY <1>3, <1>4

(* A move changes no turn, and a process keeps its ASID in its handlers    *)
(* but for an error on the way into its termination.                       *)
LEMMA MovesControl ==
  ASSUME ControlInv, NEW u \in UProcs, Moves(u),
         back' \in [UProcs -> Backs], QueuesInv', MutexInv', StatusInv',
         \A v \in UProcs :
           \/ asid'[v] = asid[v]
           \/ v = u /\ IoErrors /\ pc'[u] \in TermPlaces
  PROVE  ControlInv'
<1>1. PlacesInv'
  BY ProcFacts, PlaceFacts DEF ControlInv, PlacesInv, Moves, Places, Backs
<1>2. ASSUME NEW v \in UProcs
      PROVE  /\ pc'[v] = "absent" <=> pc[v] = "absent"
             /\ pc'[v] = "termEnd" <=> pc[v] = "termEnd"
             /\ pc'[v] \in ExecPlaces <=> pc[v] \in ExecPlaces
  BY PlaceFacts DEF Moves, TestPlaces, ExecPlaces
<1>3. TurnInv'
  <2>1. Working' = Working
    BY <1>2, ProcFacts DEF Working
  <2>2. ShellRuns' <=> ShellRuns
    BY <1>2, ProcFacts DEF ShellRuns, ExecPlaces
  <2>3. MasterSignalled' <=> MasterSignalled
    BY DEF MasterSignalled, Moves
  <2>4. sem'["shell"] = sem["shell"] /\ pc'[Test] = pc[Test]
    BY DEF Moves
  <2> QED  BY <1>2, <2>1, <2>2, <2>3, <2>4, ProcFacts DEF ControlInv, TurnInv
<1>4. SignalInv'
  <2> SUFFICES ASSUME NEW v \in UProcs,
                      \/ pc'[v] \in UserPlaces \cup ExecPlaces
                      \/ ~IoErrors /\ pc'[v] # "absent"
               PROVE  asid'[v] = SHELL_ASID <=> v = ShellProc
    BY DEF SignalInv
  <2>1. \/ pc[v] \in UserPlaces \cup ExecPlaces
        \/ ~IoErrors /\ pc[v] # "absent"
    BY <1>2 DEF Moves
  <2>2. asid'[v] = asid[v]
    BY DEF TermPlaces, UserPlaces, ExecPlaces
  <2> QED  BY <2>1, <2>2 DEF ControlInv, SignalInv
<1> QED  BY <1>1, <1>3, <1>4 DEF ControlInv
-----------------------------------------------------------------------------
(* ControlInv through a step of a U-proc among active places: without a    *)
(* semaphore, ...                                                          *)
LEMMA GotoControl ==
  ASSUME ControlInv, NEW u \in UProcs, NEW next \in Active \ Waits, Goto(u, next),
         pc[u] \in Active \ Waits, next \in UserPlaces => pc[u] \in UserPlaces,
         \A j \in Mutexes : Holding(j, next, back[u]) <=> Holds(u, j),
         UNCHANGED <<back, asid, sems>>, StatusInv'
  PROVE  ControlInv'
<1>1. Moves(u)
  BY GotoMoves DEF ControlInv, sems
<1>2. QueuesInv'
  BY GotoQueues, ProcFacts, PlaceFacts DEF ControlInv, PlacesInv, Places
<1>3. MutexInv'
  BY GotoMutex DEF ControlInv, sems
<1> QED  BY <1>1, <1>2, <1>3, MovesControl DEF ControlInv, PlacesInv, Backs

(* ... through PASSEREN of a mutex, ...                                    *)
LEMMA PControl ==
  ASSUME ControlInv, NEW u \in UProcs, NEW k \in Mutexes, NEW w \in WaitPlaces(k),
         NEW b \in Backs, back' = [back EXCEPT ![u] = b], P(k, u, w),
         pc[u] \in Active \ Waits, w \in UserPlaces => pc[u] \in UserPlaces,
         ~Holds(u, k), \A j \in Mutexes \ {k} : Holding(j, w, b) <=> Holds(u, j),
         UNCHANGED asid, StatusInv'
  PROVE  ControlInv'
<1>1. Moves(u)
  BY PMoves DEF ControlInv
<1>2. QueuesInv'
  BY PQueues, ProcFacts DEF ControlInv, PlacesInv, Places, Mutexes, Sems
<1>3. MutexInv'
  BY PMutex DEF ControlInv
<1> QED  BY <1>1, <1>2, <1>3, MovesControl DEF ControlInv, PlacesInv, Backs

(* ... and through VERHOGEN of a mutex, which may be on the way into its   *)
(* termination after an error.                                             *)
LEMMA VControl ==
  ASSUME ControlInv, NEW u \in UProcs, NEW k \in Mutexes, NEW next \in Active \ Waits,
         V(k, u, next), pc[u] \in Active \ Waits,
         next \in UserPlaces => pc[u] \in UserPlaces,
         Holds(u, k), ~Holding(k, next, back[u]),
         \A j \in Mutexes \ {k} :
           /\ Holding(j, next, back[u]) => Holds(u, j)
           /\ j = "swapPool" \/ ~IoErrors => (Holding(j, next, back[u]) <=> Holds(u, j)),
         UNCHANGED back, StatusInv',
         \A v \in UProcs : \/ asid'[v] = asid[v]
                           \/ v = u /\ IoErrors /\ next \in TermPlaces
  PROVE  ControlInv'
<1>1. Moves(u)
  BY VMoves DEF ControlInv
<1>2. sem[k] = 0
  BY DEF ControlInv, MutexInv
<1>3. QueuesInv'
  BY <1>2, VQueues, ProcFacts, PlaceFacts DEF ControlInv, PlacesInv, Places, Mutexes, Sems
<1>4. MutexInv'
  BY VMutex DEF ControlInv
<1>5. pc'[u] = next
  <2>1. CASE waiting[k] # <<>>
    <3>1. k \in Sems /\ u \in Procs /\ pc[u] \notin WaitPlaces(k)
      BY WaitFacts, ProcFacts DEF Mutexes, Sems
    <3>2. Head(waiting[k]) \in Range(waiting[k])
      BY <2>1, <3>1, DequeueLemma DEF ControlInv, QueuesInv
    <3>3. Head(waiting[k]) # u
      BY <3>1, <3>2 DEF ControlInv, QueuesInv
    <3> QED  BY <2>1, <3>1, <3>3 DEF V, ControlInv, PlacesInv
  <2>2. CASE waiting[k] = <<>>
    BY <2>2, ProcFacts DEF V, Goto, ControlInv, PlacesInv
  <2> QED  BY <2>1, <2>2
<1> QED  BY <1>1, <1>3, <1>4, <1>5, MovesControl DEF ControlInv, PlacesInv, Backs
-----------------------------------------------------------------------------
(* ControlInv through every action.                                        *)
LEMMA SameControl ==
  ASSUME ControlInv, UNCHANGED <<pc, back, asid, status, sems>>
  PROVE  ControlInv'
<1>1. PlacesInv' /\ QueuesInv'
  BY DEF ControlInv, PlacesInv, QueuesInv, sems
<1>2. MutexInv'
  BY DEF ControlInv, MutexInv, Holds, sems
<1>3. TurnInv' /\ SignalInv' /\ StatusInv'
  BY DEF ControlInv, TurnInv, SignalInv, StatusInv, ShellRuns, MasterSignalled,
         Working, sems
<1> QED  BY <1>1, <1>2, <1>3 DEF ControlInv

(* Steps of a U-proc that touch no semaphore: the same mutexes before and  *)
(* after.                                                                  *)
LEMMA PlainSteps ==
  ASSUME ControlInv, DataInv, NEW u \in UProcs,
         \/ Evict(u) \/ FlashWrite(u) \/ FlashRead(u) \/ Commit(u)
         \/ Terminate(u) \/ TermDealloc(u)
         \/ WriteEmpty(u) \/ WriteDone(u) \/ ReadDone(u)
         \/ \E g \in Pages : WriteChar(u, g) \/ ReadStore(u, g)
  PROVE  ControlInv'
<1>1. back[u] \in Backs /\ pc \in [Procs -> Places]
  BY DEF ControlInv, PlacesInv, Places, Backs
<1> DEFINE Keeps(next) == \A j \in Mutexes : Holding(j, next, back[u]) <=> Holds(u, j)
<1>2. CASE Evict(u)
  <2>1. PICK next \in {"loading", "evicting"} :
          Goto(u, next) /\ UNCHANGED <<back, asid, sems, status>> /\ pc[u] = "pagerHold"
    BY <1>2 DEF Evict
  <2>2. next \in Active \ Waits /\ pc[u] \in Active \ Waits /\ pc[u] \in UserPlaces
    BY <2>1 DEF Active, TermPlaces, UserPlaces, Waits, AfterWait
  <2>3. Keeps(next)
    BY <2>1 DEF Mutexes, Holding, Holds, SwapHeld
  <2> QED  BY <2>1, <2>2, <2>3, GotoControl DEF ControlInv, StatusInv
<1>3. CASE FlashWrite(u) \/ FlashRead(u)
  <2>1. PICK next \in {"evicted", "loaded"} :
          /\ Goto(u, next) /\ UNCHANGED <<back, asid, sems>>
          /\ pc[u] \in {"evicting", "loading"}
          /\ \E st \in FlashStatus : status' = [status EXCEPT ![u] = st]
    BY <1>3 DEF FlashWrite, FlashRead
  <2>2. next \in Active \ Waits /\ pc[u] \in Active \ Waits /\ pc[u] \in UserPlaces
    BY <2>1 DEF Active, TermPlaces, UserPlaces, Waits, AfterWait
  <2>3. Keeps(next)
    BY <2>1 DEF Mutexes, Holding, Holds, SwapHeld
  <2>4. StatusInv'
    BY <2>1 DEF ControlInv, StatusInv, FlashStatus, DataInv, DataTyped
  <2> QED  BY <2>1, <2>2, <2>3, <2>4, GotoControl
<1>4. CASE Commit(u)
  <2>1. Goto(u, "pagerEnd") /\ UNCHANGED <<back, asid, sems, status>> /\ pc[u] = "loaded"
    BY <1>4 DEF Commit, local
  <2>2. /\ "pagerEnd" \in Active \ Waits /\ pc[u] \in Active \ Waits
        /\ pc[u] \in UserPlaces
    BY <2>1 DEF Active, TermPlaces, UserPlaces, Waits, AfterWait
  <2>3. Keeps("pagerEnd")
    BY <2>1 DEF Mutexes, Holding, Holds, SwapHeld
  <2> QED  BY <2>1, <2>2, <2>3, GotoControl DEF ControlInv, StatusInv
<1>5. CASE Terminate(u)
  <2>1. Goto(u, "term") /\ UNCHANGED <<back, asid, sems, status>> /\ pc[u] = "user"
    BY <1>5 DEF Terminate, local
  <2>2. /\ "term" \in Active \ Waits /\ pc[u] \in Active \ Waits
        /\ "term" \notin UserPlaces
    BY <2>1 DEF Active, TermPlaces, UserPlaces, Waits, AfterWait
  <2>3. Keeps("term")
    BY <2>1 DEF Mutexes, Holding, Holds, SwapHeld
  <2> QED  BY <2>1, <2>2, <2>3, GotoControl DEF ControlInv, StatusInv
<1>6. CASE TermDealloc(u)
  <2>1. /\ Goto(u, "termSignal") /\ UNCHANGED <<back, asid, sems, status>>
        /\ pc[u] = "termFreed"
    BY <1>6 DEF TermDealloc, local
  <2>2. /\ "termSignal" \in Active \ Waits /\ pc[u] \in Active \ Waits
        /\ "termSignal" \notin UserPlaces
    BY <2>1 DEF Active, TermPlaces, UserPlaces, Waits, AfterWait
  <2>3. Keeps("termSignal")
    BY <2>1 DEF Mutexes, Holding, Holds, SwapHeld
  <2> QED  BY <2>1, <2>2, <2>3, GotoControl DEF ControlInv, StatusInv
<1>7. CASE WriteEmpty(u) \/ WriteDone(u) \/ \E g \in Pages : WriteChar(u, g)
  <2>1. PICK next \in {"writeIo", "writeHold", "writeEnd"} :
          /\ Goto(u, next) /\ UNCHANGED <<back, asid, sems, status>>
          /\ pc[u] \in {"writeIo", "writeHold"}
    BY <1>7 DEF WriteEmpty, WriteDone, WriteChar, local
  <2>2. next \in Active \ Waits /\ pc[u] \in Active \ Waits /\ pc[u] \in UserPlaces
    BY <2>1 DEF Active, TermPlaces, UserPlaces, Waits, AfterWait
  <2>3. Keeps(next)
    BY <2>1 DEF Mutexes, Holding, Holds, SwapHeld
  <2> QED  BY <2>1, <2>2, <2>3, GotoControl DEF ControlInv, StatusInv
<1>8. CASE ReadDone(u) \/ \E g \in Pages : ReadStore(u, g)
  <2>1. PICK next \in {"readStore", "readHold", "readEnd"} :
          /\ Goto(u, next) /\ UNCHANGED <<back, asid, sems, status>>
          /\ pc[u] \in {"readIo", "readStore"}
    BY <1>8 DEF ReadDone, ReadStore, local
  <2>2. next \in Active \ Waits /\ pc[u] \in Active \ Waits /\ pc[u] \in UserPlaces
    BY <2>1 DEF Active, TermPlaces, UserPlaces, Waits, AfterWait
  <2>3. Keeps(next)
    BY <2>1 DEF Mutexes, Holding, Holds, SwapHeld
  <2> QED  BY <2>1, <2>2, <2>3, GotoControl DEF ControlInv, StatusInv
<1> QED  BY <1>2, <1>3, <1>4, <1>5, <1>6, <1>7, <1>8

(* Steps that ask for a mutex.                                             *)
LEMMA WaitSteps ==
  ASSUME ControlInv, NEW u \in UProcs,
         \/ \E g \in Pages : PageFault(u, g)
         \/ TermBegin(u) \/ WriteTerminal(u) \/ ReadTerminal(u)
  PROVE  ControlInv'
<1>1. /\ back[u] \in Backs /\ back \in [UProcs -> Backs]
      /\ back = [back EXCEPT ![u] = back[u]]
  BY DEF ControlInv, PlacesInv, Backs
<1>2. ASSUME NEW g \in Pages, PageFault(u, g)  PROVE ControlInv'
  <2>1. /\ back' = [back EXCEPT ![u] = pc[u]] /\ P("swapPool", u, "pagerWait")
        /\ pc[u] \in Backs /\ UNCHANGED <<asid, status>>
    BY <1>2 DEF PageFault, Accessing, Backs
  <2>2. /\ "swapPool" \in Mutexes /\ "pagerWait" \in WaitPlaces("swapPool")
        /\ pc[u] \in Active \ Waits /\ pc[u] \in UserPlaces /\ ~Holds(u, "swapPool")
    BY <2>1 DEF Mutexes, WaitPlaces, Backs, Active, UserPlaces, Waits, AfterWait, Holds,
                Holding, SwapHeld
  <2>3. \A j \in Mutexes \ {"swapPool"} :
          Holding(j, "pagerWait", pc[u]) <=> Holds(u, j)
    BY <2>1 DEF Mutexes, Backs, Holds, Holding, SwapHeld
  <2> QED  BY <2>1, <2>2, <2>3, PControl DEF ControlInv, StatusInv
<1>3. CASE TermBegin(u)
  <2>1. P("swapPool", u, "termWait") /\ pc[u] = "term" /\ UNCHANGED <<back, asid, status>>
    BY <1>3 DEF TermBegin, local
  <2>2. /\ "swapPool" \in Mutexes /\ "termWait" \in WaitPlaces("swapPool")
        /\ pc[u] \in Active \ Waits /\ "termWait" \notin UserPlaces
        /\ ~Holds(u, "swapPool")
    BY <2>1 DEF Mutexes, WaitPlaces, Active, TermPlaces, UserPlaces, Waits, AfterWait,
                Holds, Holding, SwapHeld
  <2>3. \A j \in Mutexes \ {"swapPool"} :
          Holding(j, "termWait", back[u]) <=> Holds(u, j)
    BY <2>1 DEF Mutexes, Holds, Holding, SwapHeld
  <2> QED  BY <1>1, <2>1, <2>2, <2>3, PControl DEF ControlInv, StatusInv
<1>4. CASE WriteTerminal(u)
  <2>1. P("termWrite", u, "writeWait") /\ pc[u] = "user" /\ UNCHANGED <<back, asid, status>>
    BY <1>4 DEF WriteTerminal, local
  <2>2. /\ "termWrite" \in Mutexes /\ "writeWait" \in WaitPlaces("termWrite")
        /\ pc[u] \in Active \ Waits /\ pc[u] \in UserPlaces /\ ~Holds(u, "termWrite")
    BY <2>1 DEF Mutexes, WaitPlaces, Active, UserPlaces, Waits, AfterWait, Holds,
                Holding, SwapHeld
  <2>3. \A j \in Mutexes \ {"termWrite"} :
          Holding(j, "writeWait", back[u]) <=> Holds(u, j)
    BY <2>1 DEF Mutexes, Holds, Holding, SwapHeld
  <2> QED  BY <1>1, <2>1, <2>2, <2>3, PControl DEF ControlInv, StatusInv
<1>5. CASE ReadTerminal(u)
  <2>1. P("termRead", u, "readWait") /\ pc[u] = "user" /\ UNCHANGED <<back, asid, status>>
    BY <1>5 DEF ReadTerminal, local
  <2>2. /\ "termRead" \in Mutexes /\ "readWait" \in WaitPlaces("termRead")
        /\ pc[u] \in Active \ Waits /\ pc[u] \in UserPlaces /\ ~Holds(u, "termRead")
    BY <2>1 DEF Mutexes, WaitPlaces, Active, UserPlaces, Waits, AfterWait, Holds,
                Holding, SwapHeld
  <2>3. \A j \in Mutexes \ {"termRead"} :
          Holding(j, "readWait", back[u]) <=> Holds(u, j)
    BY <2>1 DEF Mutexes, Holds, Holding, SwapHeld
  <2> QED  BY <1>1, <2>1, <2>2, <2>3, PControl DEF ControlInv, StatusInv
<1> QED  BY <1>2, <1>3, <1>4, <1>5

(* Steps that give a mutex back, the failures of the pager included.       *)
LEMMA ReleaseSteps ==
  ASSUME ControlInv, DataInv, NEW u \in UProcs,
         \/ AfterEvict(u) \/ LoadFailed(u) \/ PagerEnd(u) \/ TermFree(u)
         \/ WriteEnd(u) \/ ReadChar(u) \/ ReadEnd(u)
  PROVE  ControlInv'
<1>1. back[u] \in Backs /\ pc \in [Procs -> Places] /\ asid \in [UProcs -> Asids]
  BY DEF ControlInv, PlacesInv, Places, Backs, DataInv, DataTyped
<1> DEFINE Failing == /\ pc[u] \in {"evicted", "loaded"} /\ status[u] # 1
                      /\ \A v \in UProcs : v = u \/ asid'[v] = asid[v]
                      /\ V("swapPool", u, "term") /\ UNCHANGED <<back, status>>
<1>2. CASE Failing
  <2>1. /\ "swapPool" \in Mutexes /\ "term" \in Active \ Waits /\ "term" \in TermPlaces
        /\ pc[u] \in Active \ Waits /\ "term" \notin UserPlaces
        /\ Holds(u, "swapPool") /\ ~Holding("swapPool", "term", back[u])
    BY <1>2 DEF Mutexes, Active, TermPlaces, UserPlaces, Waits, AfterWait, Holds,
                Holding, SwapHeld
  <2>2. IoErrors
    BY <1>2 DEF ControlInv, StatusInv
  <2>3. \A j \in Mutexes \ {"swapPool"} : ~Holding(j, "term", back[u])
    BY DEF Mutexes, Holding, SwapHeld
  <2>4. \A v \in UProcs : v = u \/ asid'[v] = asid[v]
    BY <1>2
  <2>5. StatusInv'
    BY <1>2 DEF ControlInv, StatusInv
  <2>6. V("swapPool", u, "term") /\ UNCHANGED back
    BY <1>2
  <2> HIDE DEF Failing
  <2> QED  BY <2>1, <2>2, <2>3, <2>4, <2>5, <2>6, VControl
<1>3. CASE AfterEvict(u)
  <2>1. CASE status[u] = 4 /\ V("swapPool", u, "term")
               /\ asid' = [asid EXCEPT ![u] = swap_pool[frame[u]].asid]
    <3>1. Failing
      BY <1>1, <1>3, <2>1 DEF AfterEvict
    <3> QED  BY <1>2, <3>1
  <2>2. CASE Goto(u, "loading") /\ UNCHANGED <<asid, sems>>
    <3>1. pc[u] = "evicted" /\ UNCHANGED <<back, status>>
      BY <1>3 DEF AfterEvict
    <3>2. /\ "loading" \in Active \ Waits /\ pc[u] \in Active \ Waits
          /\ pc[u] \in UserPlaces
      BY <3>1 DEF Active, UserPlaces, Waits, AfterWait
    <3>3. \A j \in Mutexes : Holding(j, "loading", back[u]) <=> Holds(u, j)
      BY <3>1 DEF Mutexes, Holding, Holds, SwapHeld
    <3> QED  BY <2>2, <3>1, <3>2, <3>3, GotoControl DEF ControlInv, StatusInv
  <2> QED  BY <1>3, <2>1, <2>2 DEF AfterEvict
<1>4. CASE LoadFailed(u)
  <2>1. asid' = [asid EXCEPT ![u] = pgtbl[sup[u]].asid]
    BY <1>4 DEF LoadFailed
  <2>2. /\ pc[u] = "loaded" /\ status[u] = 5 /\ V("swapPool", u, "term")
        /\ UNCHANGED <<back, status>>
    BY <1>4 DEF LoadFailed
  <2>3. Failing
    BY <1>1, <2>1, <2>2
  <2> QED  BY <1>2, <2>3
<1>5. CASE PagerEnd(u)
  <2>1. pc[u] = "pagerEnd" /\ V("swapPool", u, back[u]) /\ UNCHANGED <<back, asid, status>>
    BY <1>5 DEF PagerEnd, local
  <2>2. /\ "swapPool" \in Mutexes /\ back[u] \in Active \ Waits
        /\ pc[u] \in Active \ Waits /\ pc[u] \in UserPlaces
        /\ Holds(u, "swapPool") /\ ~Holding("swapPool", back[u], back[u])
    BY <1>1, <2>1 DEF Mutexes, Backs, Active, UserPlaces, Waits, AfterWait, Holds,
                Holding, SwapHeld
  <2>3. \A j \in Mutexes \ {"swapPool"} : Holding(j, back[u], back[u]) <=> Holds(u, j)
    BY <1>1, <2>1 DEF Mutexes, Backs, Holds, Holding, SwapHeld
  <2> QED  BY <2>1, <2>2, <2>3, VControl DEF ControlInv, StatusInv
<1>6. CASE TermFree(u)
  <2>1. /\ pc[u] = "termHold" /\ V("swapPool", u, "termFreed")
        /\ UNCHANGED <<back, asid, status>>
    BY <1>6 DEF TermFree, local
  <2>2. /\ "swapPool" \in Mutexes /\ "termFreed" \in Active \ Waits
        /\ pc[u] \in Active \ Waits /\ "termFreed" \notin UserPlaces
        /\ Holds(u, "swapPool") /\ ~Holding("swapPool", "termFreed", back[u])
    BY <2>1 DEF Mutexes, Active, TermPlaces, UserPlaces, Waits, AfterWait, Holds,
                Holding, SwapHeld
  <2>3. \A j \in Mutexes \ {"swapPool"} : Holding(j, "termFreed", back[u]) <=> Holds(u, j)
    BY <2>1 DEF Mutexes, Holds, Holding, SwapHeld
  <2> QED  BY <2>1, <2>2, <2>3, VControl DEF ControlInv, StatusInv
<1>7. CASE WriteEnd(u)
  <2>1. /\ pc[u] = "writeEnd" /\ V("termWrite", u, "user")
        /\ UNCHANGED <<back, asid, status>>
    BY <1>7 DEF WriteEnd, local
  <2>2. /\ "termWrite" \in Mutexes /\ "user" \in Active \ Waits
        /\ pc[u] \in Active \ Waits /\ pc[u] \in UserPlaces
        /\ Holds(u, "termWrite") /\ ~Holding("termWrite", "user", back[u])
    BY <2>1 DEF Mutexes, Active, UserPlaces, Waits, AfterWait, Holds, Holding, SwapHeld
  <2>3. \A j \in Mutexes \ {"termWrite"} : Holding(j, "user", back[u]) <=> Holds(u, j)
    BY <2>1 DEF Mutexes, Holds, Holding, SwapHeld
  <2> QED  BY <2>1, <2>2, <2>3, VControl DEF ControlInv, StatusInv
<1>8. CASE ReadEnd(u) \/ ReadChar(u)
  <2>1. CASE Goto(u, "readIo") /\ UNCHANGED sems /\ pc[u] = "readHold"
    <3>1. UNCHANGED <<back, status, asid>>
      BY <1>8 DEF ReadChar, ReadEnd, local
    <3>2. /\ "readIo" \in Active \ Waits /\ pc[u] \in Active \ Waits
          /\ pc[u] \in UserPlaces
      BY <2>1 DEF Active, UserPlaces, Waits, AfterWait
    <3>3. \A j \in Mutexes : Holding(j, "readIo", back[u]) <=> Holds(u, j)
      BY <2>1 DEF Mutexes, Holding, Holds, SwapHeld
    <3> QED  BY <2>1, <3>1, <3>2, <3>3, GotoControl DEF ControlInv, StatusInv
  <2>2. ASSUME NEW next \in {"user", "term"}, V("termRead", u, next),
               pc[u] \in {"readHold", "readEnd"}
        PROVE  ControlInv'
    <3>1. UNCHANGED <<back, status, asid>>
      BY <1>8 DEF ReadChar, ReadEnd, local
    <3>2. /\ "termRead" \in Mutexes /\ next \in Active \ Waits
          /\ pc[u] \in Active \ Waits /\ pc[u] \in UserPlaces
          /\ Holds(u, "termRead") /\ ~Holding("termRead", next, back[u])
      BY <2>2 DEF Mutexes, Active, TermPlaces, UserPlaces, Waits, AfterWait, Holds,
                  Holding, SwapHeld
    <3>3. \A j \in Mutexes \ {"termRead"} : Holding(j, next, back[u]) <=> Holds(u, j)
      BY <2>2 DEF Mutexes, Holds, Holding, SwapHeld
    <3> QED  BY <2>2, <3>1, <3>2, <3>3, VControl DEF ControlInv, StatusInv
  <2>3. \/ Goto(u, "readIo") /\ UNCHANGED sems /\ pc[u] = "readHold"
        \/ V("termRead", u, "term") /\ pc[u] = "readHold"
        \/ V("termRead", u, "user") /\ pc[u] = "readEnd"
    BY <1>8 DEF ReadChar, ReadEnd
  <2> QED  BY <2>1, <2>2, <2>3
<1> QED  BY <1>3, <1>4, <1>5, <1>6, <1>7, <1>8
-----------------------------------------------------------------------------
(* EXECUTE, the signals, and the ends of processes.                        *)

(* Places of a process that has no mutex.                                  *)
NoMutex == {"absent", "user", "execJoin", "execWait", "termSignal", "termEnd"}

(* A step between places where a process has no mutex at all.              *)
LEMMA FreeMutex ==
  ASSUME MutexInv, \A k \in Mutexes : sem'[k] = sem[k], UNCHANGED back,
         \A v \in UProcs : \/ pc'[v] = pc[v]
                           \/ pc'[v] \in NoMutex /\ pc[v] \in NoMutex
  PROVE  MutexInv'
<1>1. \A j \in Mutexes, s \in NoMutex : \A b : ~Holding(j, s, b)
  BY DEF Mutexes, NoMutex, Holding, SwapHeld
<1>2. \A v \in UProcs, j \in Mutexes : Holds(v, j)' <=> Holds(v, j)
  BY <1>1 DEF Holds
<1> QED  BY <1>2 DEF MutexInv

(* Nobody signals twice: with a signaller at work both semaphores are 0.   *)
LEMMA Signaller ==
  ASSUME ControlInv, NEW u \in UProcs, pc[u] = "termSignal"
  PROVE  /\ sem["shell"] = 0 /\ sem["master"] = 0
         /\ pc[Test] \notin {"testEnd", "absent"}
         /\ u = ShellProc => Working = {}
         /\ u \in Programs => Working = {u} /\ pc[ShellProc] \in ExecPlaces
<1>1. sem["master"] \in 0..1
  BY DEF ControlInv, QueuesInv, Sems
<1>2. CASE u = ShellProc
  BY <1>1, <1>2, ProcFacts DEF ControlInv, TurnInv, ShellRuns, MasterSignalled
<1>3. CASE u \in Programs
  <2>1. u \in Working
    BY <1>3 DEF Working
  <2> QED  BY <1>1, <1>3, <2>1, ProcFacts DEF ControlInv, TurnInv, MasterSignalled
<1> QED  BY <1>2, <1>3, ProcFacts

(* test waits for the shell, or finds that it has signalled.               *)
LEMMA TestJoinControl ==
  ASSUME ControlInv, TestJoin
  PROVE  ControlInv'
<1>1. /\ pc[Test] = "testJoin" /\ P("master", Test, "testWait")
      /\ UNCHANGED <<back, asid, status>>
  BY DEF TestJoin, local
<1>2. PICK next \in {"testWait", "testEnd"} :
        /\ pc' = [pc EXCEPT ![Test] = next]
        /\ next = "testEnd" <=> sem["master"] > 0
        /\ next = "testEnd" => sem' = [sem EXCEPT !["master"] = @ - 1]
        /\ next = "testWait" => UNCHANGED sem
  <2>1. AfterWait["testWait"] = "testEnd"
    BY DEF AfterWait
  <2>2. sem["master"] \in 0..1
    BY DEF ControlInv, QueuesInv, Sems
  <2> QED  BY <1>1, <2>1, <2>2 DEF P, Goto
<1>3. /\ pc'[Test] = next /\ \A u \in UProcs : pc'[u] = pc[u]
      /\ sem'["shell"] = sem["shell"] /\ sem["master"] \in 0..1
      /\ sem'["master"] = 0 \/ next = "testWait"
      /\ \A k \in Mutexes : sem'[k] = sem[k]
  BY <1>2, ProcFacts DEF ControlInv, PlacesInv, QueuesInv, Sems, Mutexes
<1>4. PlacesInv'
  BY <1>1, <1>2, <1>3, ProcFacts DEF ControlInv, PlacesInv, TestPlaces
<1>5. QueuesInv'
  <2>1. "master" \in Sems /\ "testWait" \in WaitPlaces("master") /\ pc[Test] \notin Waits
    BY <1>1 DEF Sems, WaitPlaces, Waits, AfterWait
  <2> QED  BY <1>1, <2>1, PQueues, ProcFacts DEF ControlInv, PlacesInv, Places
<1>6. MutexInv'
  BY <1>1, <1>3, FreeMutex DEF ControlInv
<1>7. TurnInv'
  <2>1. Working' = Working /\ (ShellRuns' <=> ShellRuns)
    BY <1>3, ProcFacts DEF Working, ShellRuns
  <2>2. MasterSignalled' <=> MasterSignalled
    BY <1>1, <1>2, <1>3 DEF MasterSignalled
  <2> QED  BY <1>2, <1>3, <2>1, <2>2, ProcFacts DEF ControlInv, TurnInv
<1>8. SignalInv' /\ StatusInv'
  BY <1>1, <1>3 DEF ControlInv, SignalInv, StatusInv
<1> QED  BY <1>4, <1>5, <1>6, <1>7, <1>8 DEF ControlInv

(* The shell waits for its program, or finds that it has signalled; the    *)
(* next EXECUTE starts from 0 again.                                       *)
LEMMA ExecuteJoinControl ==
  ASSUME ControlInv, NEW u \in UProcs, ExecuteJoin(u)
  PROVE  ControlInv'
<1>1. /\ pc[u] = "execJoin" /\ P("shell", u, "execWait")
      /\ UNCHANGED <<back, asid, status>> /\ u = ShellProc
  BY ProcFacts DEF ExecuteJoin, local, ControlInv, PlacesInv, ExecPlaces
<1>2. PICK next \in {"execWait", "user"} :
        /\ pc' = [pc EXCEPT ![u] = next]
        /\ next = "user" => sem' = [sem EXCEPT !["shell"] = @ - 1] /\ sem["shell"] > 0
        /\ next = "execWait" => UNCHANGED sem
  <2>1. AfterWait["execWait"] = "user"
    BY DEF AfterWait
  <2> QED  BY <1>1, <2>1 DEF P, Goto
<1>3. /\ pc'[u] = next /\ pc'[Test] = pc[Test]
      /\ \A v \in UProcs \ {u} : pc'[v] = pc[v]
      /\ sem'["master"] = sem["master"] /\ sem["shell"] \in 0..1
      /\ next = "user" => sem'["shell"] = 0 /\ sem["shell"] = 1
      /\ next = "execWait" => sem'["shell"] = sem["shell"]
      /\ \A k \in Mutexes : sem'[k] = sem[k]
  BY <1>2, ProcFacts DEF ControlInv, PlacesInv, QueuesInv, Sems, Mutexes
<1>4. PlacesInv'
  BY <1>1, <1>2, <1>3, ProcFacts DEF ControlInv, PlacesInv, ExecPlaces, UserPlaces
<1>5. QueuesInv'
  <2>1. "shell" \in Sems /\ "execWait" \in WaitPlaces("shell") /\ pc[u] \notin Waits
    BY <1>1 DEF Sems, WaitPlaces, Waits, AfterWait
  <2> QED  BY <1>1, <2>1, PQueues, ProcFacts DEF ControlInv, PlacesInv, Places
<1>6. MutexInv'
  <2>1. pc[u] \in NoMutex /\ next \in NoMutex
    BY <1>1, <1>2 DEF NoMutex
  <2> QED  BY <1>1, <1>3, <2>1, FreeMutex DEF ControlInv
<1>7. TurnInv'
  <2>1. Working' = Working
    BY <1>1, <1>3, ProcFacts DEF Working
  <2>2. MasterSignalled' <=> MasterSignalled
    BY <1>3 DEF MasterSignalled
  <2>3. CASE next = "execWait"
    <3>1. ~ShellRuns' /\ pc'[ShellProc] \in ExecPlaces /\ pc[ShellProc] \in ExecPlaces
      BY <1>1, <1>3, <2>3 DEF ShellRuns, ExecPlaces
    <3> QED  BY <1>1, <1>3, <2>1, <2>2, <2>3, <3>1 DEF ControlInv, TurnInv, ExecPlaces
  <2>4. CASE next = "user"
    <3>1. ~MasterSignalled /\ Working = {} /\ pc'[ShellProc] \notin ExecPlaces
      BY <1>1, <1>3, <2>4 DEF ControlInv, TurnInv, ExecPlaces
    <3> QED  BY <1>1, <1>3, <2>1, <2>2, <2>4, <3>1 DEF ControlInv, TurnInv
  <2> QED  BY <1>2, <2>3, <2>4
<1>8. SignalInv' /\ StatusInv'
  BY <1>1, <1>3 DEF ControlInv, SignalInv, StatusInv, ExecPlaces
<1> QED  BY <1>4, <1>5, <1>6, <1>7, <1>8 DEF ControlInv

(* EXECUTE: only the shell has ASID 1 in its handlers, so only the shell   *)
(* executes, and it does so when nothing else works.                       *)
LEMMA ExecuteControl ==
  ASSUME ControlInv, DataInv, NEW u \in UProcs, NEW n \in Programs, NEW a \in Asids,
         Execute(u, n, a)
  PROVE  ControlInv'
<1>1. /\ pc[u] = "user" /\ asid[u] = SHELL_ASID /\ a # SHELL_ASID /\ pc[n] = "absent"
      /\ pc' = [pc EXCEPT ![u] = "execJoin", ![n] = "user"]
      /\ asid' = [asid EXCEPT ![n] = a] /\ UNCHANGED <<back, status, sem, waiting>>
  BY DEF Execute, sems
<1>2. u = ShellProc
  BY <1>1 DEF ControlInv, SignalInv, UserPlaces
<1>3. /\ pc'[u] = "execJoin" /\ pc'[n] = "user" /\ pc'[Test] = pc[Test]
      /\ \A v \in UProcs \ {u, n} : pc'[v] = pc[v]
      /\ \A v \in UProcs \ {n} : asid'[v] = asid[v]
      /\ asid'[n] = a
  BY <1>1, <1>2, ProcFacts DEF ControlInv, PlacesInv, DataInv, DataTyped
<1>4. Working = {} /\ sem["shell"] = 0 /\ ~MasterSignalled /\ pc[Test] # "absent"
  BY <1>1, <1>2, ProcFacts DEF ControlInv, TurnInv, ShellRuns
<1>5. PlacesInv'
  BY <1>1, <1>2, <1>3, ProcFacts DEF ControlInv, PlacesInv, ExecPlaces, UserPlaces
<1>6. QueuesInv'
  <2>1. \A k \in Sems : \A s \in {"user", "execJoin", "absent"} : s \notin WaitPlaces(k)
    BY DEF Sems, WaitPlaces
  <2>2. ASSUME NEW k \in Sems, NEW v \in Procs
        PROVE  pc'[v] \in WaitPlaces(k) <=> pc[v] \in WaitPlaces(k)
    <3>1. CASE v \in {u, n}
      BY <1>1, <1>3, <2>1, <3>1
    <3>2. CASE v \notin {u, n}
      BY <1>3, <3>2, ProcFacts
    <3> QED  BY <3>1, <3>2
  <2> QED  BY <1>1, <2>2 DEF ControlInv, QueuesInv
<1>7. MutexInv'
  BY <1>1, <1>3, FreeMutex DEF ControlInv, NoMutex
<1>8. TurnInv'
  <2>1. Working' = {n}
    BY <1>1, <1>2, <1>3, <1>4, ProcFacts DEF Working
  <2>2. ~ShellRuns' /\ ~MasterSignalled' /\ pc'[ShellProc] \in ExecPlaces
    BY <1>1, <1>2, <1>3, <1>4 DEF ShellRuns, MasterSignalled, ExecPlaces
  <2> QED  BY <1>1, <1>3, <1>4, <2>1, <2>2 DEF TurnInv
<1>9. SignalInv' /\ StatusInv'
  BY <1>1, <1>2, <1>3, ProcFacts DEF ControlInv, SignalInv, StatusInv, UserPlaces
<1> QED  BY <1>5, <1>6, <1>7, <1>8, <1>9 DEF ControlInv

(* The signal of a process that ends, to test or to the shell: nobody else *)
(* is at the same point, and what it starts does not start twice.          *)
LEMMA TermSignalControl ==
  ASSUME ControlInv, NEW u \in UProcs, TermSignal(u)
  PROVE  ControlInv'
<1>1. PICK k \in {"master", "shell"} :
        /\ V(k, u, "termEnd")
        /\ k = "master" <=> asid[u] = SHELL_ASID
  BY DEF TermSignal
<1>2. pc[u] = "termSignal" /\ UNCHANGED <<back, asid, status>>
  BY DEF TermSignal, local
<1>3. /\ sem["shell"] = 0 /\ sem["master"] = 0
      /\ pc[Test] \notin {"testEnd", "absent"}
      /\ u = ShellProc => Working = {}
      /\ u \in Programs => Working = {u} /\ pc[ShellProc] \in ExecPlaces
  BY <1>2, Signaller
<1>4. ~IoErrors => (k = "master" <=> u = ShellProc)
  BY <1>1, <1>2 DEF ControlInv, SignalInv
<1>5. k \in Sems /\ pc[u] \notin Waits /\ "termEnd" \in Places \ Waits
  BY <1>2 DEF Sems, Waits, AfterWait, Places, TermPlaces
<1>6. QueuesInv'
  BY <1>1, <1>3, <1>5, VQueues, ProcFacts DEF ControlInv, PlacesInv, Places
<1>7. PICK first \in {Test, ShellProc}, served \in BOOLEAN :
        /\ first = Test <=> k = "master"
        /\ served => /\ pc[first] \in WaitPlaces(k) /\ UNCHANGED sem
                     /\ pc' = [pc EXCEPT ![u] = "termEnd", ![first] = AfterWait[pc[first]]]
        /\ ~served => /\ pc[first] \notin WaitPlaces(k)
                      /\ sem' = [sem EXCEPT ![k] = @ + 1]
                      /\ pc' = [pc EXCEPT ![u] = "termEnd"]
  <2>1. /\ waiting[k] \in Seq(Procs) /\ IsInjective(waiting[k])
        /\ \A v \in Procs : v \in Range(waiting[k]) <=> pc[v] \in WaitPlaces(k)
    BY <1>5 DEF ControlInv, QueuesInv
  <2>2. PICK f \in {Test, ShellProc} : f = Test <=> k = "master"
    BY <1>1, ProcFacts
  <2>3. \A v \in Procs : pc[v] \in WaitPlaces(k) => v = f
    BY <2>2, ProcFacts DEF WaitPlaces, ControlInv, PlacesInv, TestPlaces, ExecPlaces,
       TermPlaces, UserPlaces
  <2>4. CASE waiting[k] # <<>>
    <3>1. Head(waiting[k]) \in Range(waiting[k]) /\ Head(waiting[k]) \in Procs
      BY <2>1, <2>4, DequeueLemma DEF Range
    <3>2. Head(waiting[k]) = f /\ pc[f] \in WaitPlaces(k)
      BY <2>1, <2>3, <3>1
    <3> QED  BY <1>1, <2>2, <2>4, <3>2 DEF V
  <2>5. CASE waiting[k] = <<>>
    <3>1. Range(waiting[k]) = {}
      BY <2>1, <2>5, EmptyQueueLemma
    <3>2. pc[f] \notin WaitPlaces(k)
      BY <2>1, <2>2, <3>1, ProcFacts
    <3> QED  BY <1>1, <2>2, <2>5, <3>2 DEF V, Goto
  <2> QED  BY <2>4, <2>5
<1>8. served => first # u
  BY <1>2, <1>5, <1>7, WaitFacts
<1>9. /\ pc'[u] = "termEnd"
      /\ \A v \in UProcs \ {u, first} : pc'[v] = pc[v]
      /\ first # Test => pc'[Test] = pc[Test]
      /\ first = Test => /\ \A v \in UProcs \ {u} : pc'[v] = pc[v]
                         /\ pc'[Test] = IF served THEN "testEnd" ELSE pc[Test]
      /\ served /\ first = ShellProc => /\ pc[ShellProc] = "execWait"
                                        /\ pc'[ShellProc] = "user"
      /\ ~served /\ first # u => pc'[first] = pc[first]
  <2>1. first # Test => k = "shell"
    BY <1>1, <1>7
  <2>2. served => pc[first] = IF first = Test THEN "testWait" ELSE "execWait"
    BY <1>7, <2>1 DEF WaitPlaces
  <2>3. AfterWait["testWait"] = "testEnd" /\ AfterWait["execWait"] = "user"
    BY DEF AfterWait
  <2> QED  BY <1>7, <1>8, <2>2, <2>3, ProcFacts DEF ControlInv, PlacesInv
<1>10. /\ \A j \in Mutexes : sem'[j] = sem[j]
       /\ sem'["shell"] = IF k = "shell" /\ ~served THEN 1 ELSE 0
       /\ sem'["master"] = IF k = "master" /\ ~served THEN 1 ELSE 0
  BY <1>1, <1>3, <1>7 DEF ControlInv, QueuesInv, Sems, Mutexes
<1>11. PlacesInv'
  BY <1>1, <1>2, <1>7, <1>9, ProcFacts DEF ControlInv, PlacesInv, TestPlaces, ExecPlaces,
     TermPlaces, UserPlaces, Procs
<1>12. MutexInv'
  <2>1. ASSUME NEW v \in UProcs
        PROVE  \/ pc'[v] = pc[v]
               \/ pc'[v] \in NoMutex /\ pc[v] \in NoMutex
    <3>1. CASE v = u
      BY <1>2, <1>9, <3>1 DEF NoMutex
    <3>2. CASE v # u /\ v = first /\ served
      BY <1>7, <1>9, <3>2, ProcFacts DEF NoMutex
    <3>3. CASE v # u /\ ~(v = first /\ served)
      BY <1>7, <1>9, <3>3, ProcFacts
    <3> QED  BY <3>1, <3>2, <3>3
  <2> QED  BY <1>2, <1>10, <2>1, FreeMutex DEF ControlInv
<1>13. TurnInv'
  <2>1. Working' = {} /\ pc'[Test] # "absent"
    <3>1. \A n \in Programs : n \notin Working' <=> pc'[n] \in {"absent", "termEnd"}
      BY DEF Working
    <3>2. \A n \in Programs : n = u \/ (pc'[n] = pc[n] /\ n \notin Working)
      BY <1>3, <1>7, <1>9, ProcFacts
    <3>3. \A n \in Programs : pc'[n] \in {"absent", "termEnd"}
      BY <1>9, <3>2 DEF Working
    <3>4. Working' \subseteq Programs
      BY DEF Working
    <3> QED  BY <1>3, <1>9, <3>1, <3>3, <3>4
  <2>2. CASE u = ShellProc
    BY <1>9, <2>1, <2>2 DEF TurnInv, ShellRuns, ExecPlaces
  <2>3. CASE u \in Programs /\ k = "shell"
    <3>1. first = ShellProc /\ u # ShellProc /\ pc'[Test] = pc[Test] /\ ~MasterSignalled'
      BY <1>3, <1>7, <1>9, <1>10, <2>3, ProcFacts DEF MasterSignalled
    <3>2. CASE served
      BY <1>9, <1>10, <2>1, <2>3, <3>1, <3>2 DEF TurnInv, ExecPlaces
    <3>3. CASE ~served
      <4>1. pc'[ShellProc] \in ExecPlaces /\ ~ShellRuns'
        BY <1>3, <1>9, <2>3, <3>1, <3>3 DEF ShellRuns, ExecPlaces
      <4> QED  BY <2>1, <3>1, <4>1 DEF TurnInv
    <3> QED  BY <3>2, <3>3
  <2>4. CASE u \in Programs /\ k = "master"
    <3>1. pc'[ShellProc] \in ExecPlaces /\ ~ShellRuns' /\ IoErrors
      BY <1>3, <1>4, <1>7, <1>9, <2>4, ProcFacts DEF ShellRuns, ExecPlaces
    <3>2. sem'["shell"] = 0
      BY <1>10, <2>4
    <3> QED  BY <2>1, <3>1, <3>2 DEF TurnInv
  <2> QED  BY <1>1, <2>2, <2>3, <2>4, ProcFacts
<1>14. SignalInv'
  <2> SUFFICES ASSUME NEW v \in UProcs,
                      \/ pc'[v] \in UserPlaces \cup ExecPlaces
                      \/ ~IoErrors /\ pc'[v] # "absent"
               PROVE  asid[v] = SHELL_ASID <=> v = ShellProc
    BY <1>2 DEF SignalInv
  <2>1. CASE v = u
    BY <1>2, <1>9, <2>1 DEF ControlInv, SignalInv, UserPlaces, ExecPlaces
  <2>2. CASE v # u /\ v = first /\ served
    BY <1>7, <1>9, <2>2, ProcFacts DEF ControlInv, SignalInv, ExecPlaces
  <2>3. CASE v # u /\ ~(v = first /\ served)
    <3>1. pc'[v] = pc[v]
      BY <1>7, <1>9, <2>3, ProcFacts
    <3> QED  BY <3>1 DEF ControlInv, SignalInv
  <2> QED  BY <2>1, <2>2, <2>3
<1>15. StatusInv'
  BY <1>2 DEF ControlInv, StatusInv
<1> QED  BY <1>6, <1>11, <1>12, <1>13, <1>14, <1>15 DEF ControlInv

(* The death of processes that hold and wait for nothing.                  *)
LEMMA KillQueues ==
  ASSUME QueuesInv, NEW u \in Procs, TermProcess(u),
         pc \in [Procs -> Places]
  PROVE  QueuesInv'
<1>1. /\ UNCHANGED sem
      /\ waiting' = [k \in Sems |-> Without(waiting[k], Subtree(u))]
      /\ \A v \in Procs : pc'[v] = IF v \in Subtree(u) THEN "absent" ELSE pc[v]
  BY DEF TermProcess, sems
<1>2. ASSUME NEW k \in Sems
      PROVE  /\ waiting'[k] \in Seq(Procs) /\ IsInjective(waiting'[k])
             /\ Range(waiting'[k]) = Range(waiting[k]) \ Subtree(u)
  BY <1>1, WithoutLemma DEF QueuesInv
<1>3. ASSUME NEW k \in Sems
      PROVE  waiting'[k] # <<>> => waiting[k] # <<>>
  <2>1. waiting[k] \in Seq(Procs)
    BY DEF QueuesInv
  <2> QED  BY <1>2, <2>1, EmptyQueueLemma
<1>4. \A k \in Sems : "absent" \notin WaitPlaces(k)
  BY DEF Sems, WaitPlaces
<1>5. waiting' \in [Sems -> Seq(Procs)]
  BY <1>1, <1>2
<1>6. ASSUME NEW k \in Sems, NEW v \in Procs
      PROVE  v \in Range(waiting'[k]) <=> pc'[v] \in WaitPlaces(k)
  BY <1>1, <1>2, <1>4 DEF QueuesInv
<1> QED  BY <1>1, <1>2, <1>3, <1>5, <1>6 DEF QueuesInv

(* A program that ends is alone in its subtree; the shell ends when no     *)
(* program works.                                                          *)
LEMMA TermEndControl ==
  ASSUME ControlInv, NEW u \in UProcs, TermEnd(u)
  PROVE  ControlInv'
<1>1. /\ pc[u] = "termEnd" /\ TermProcess(u)
      /\ UNCHANGED <<back, asid, status, sem>>
      /\ \A v \in Procs : pc'[v] = IF v \in Subtree(u) THEN "absent" ELSE pc[v]
  BY DEF TermEnd, TermProcess, local, sems
<1>2. u = ShellProc => Working = {}
  BY <1>1 DEF ControlInv, TurnInv, ExecPlaces
<1>3. /\ Test \notin Subtree(u) /\ Subtree(u) \subseteq UProcs
      /\ \A v \in Subtree(u) : pc[v] \in {"absent", "termEnd"}
      /\ u \in Subtree(u) /\ (ShellProc \in Subtree(u) => u = ShellProc)
  <2>1. CASE u = ShellProc
    BY <1>1, <1>2, <2>1, ProcFacts DEF Subtree, Working
  <2>2. CASE u \in Programs
    BY <1>1, <2>2, ProcFacts DEF Subtree
  <2> QED  BY <2>1, <2>2, ProcFacts
<1>4. \A v \in UProcs : /\ pc'[v] = pc[v] \/ pc'[v] = "absent"
                        /\ pc'[v] # pc[v] => pc[v] \in {"absent", "termEnd"}
  BY <1>1, <1>3, ProcFacts
<1>5. pc'[Test] = pc[Test]
  BY <1>1, <1>3, ProcFacts
<1>6. PlacesInv'
  <2>1. pc' = [v \in Procs |-> IF v \in Subtree(u) THEN "absent" ELSE pc[v]]
    BY <1>1 DEF TermProcess
  <2> QED  BY <1>1, <1>4, <1>5, <2>1, ProcFacts DEF ControlInv, PlacesInv, TestPlaces, ExecPlaces
<1>7. QueuesInv'
  BY <1>1, KillQueues, ProcFacts DEF ControlInv, PlacesInv, Places
<1>8. MutexInv'
  BY <1>1, <1>4, FreeMutex DEF ControlInv, NoMutex
<1>9. TurnInv'
  <2>1. Working' = Working
    BY <1>4, ProcFacts DEF Working
  <2>2. (ShellRuns' <=> ShellRuns) /\ (pc'[ShellProc] \in ExecPlaces <=> pc[ShellProc] \in ExecPlaces)
    BY <1>4, ProcFacts DEF ShellRuns, ExecPlaces
  <2>3. MasterSignalled' <=> MasterSignalled
    BY <1>1, <1>5 DEF MasterSignalled
  <2>4. pc[ShellProc] \in {"termEnd", "absent"} => pc'[ShellProc] \in {"termEnd", "absent"}
    BY <1>4, ProcFacts
  <2>5. (\A v \in UProcs : pc[v] = "absent") => (\A v \in UProcs : pc'[v] = "absent")
    BY <1>4
  <2> QED  BY <1>1, <1>5, <2>1, <2>2, <2>3, <2>4, <2>5 DEF ControlInv, TurnInv
<1>10. SignalInv' /\ StatusInv'
  BY <1>1, <1>4 DEF ControlInv, SignalInv, StatusInv, UserPlaces, ExecPlaces
<1> QED  BY <1>6, <1>7, <1>8, <1>9, <1>10 DEF ControlInv

(* The end of test takes everything with it, the shell in the middle of    *)
(* EXECUTE included; nobody has a mutex then.                              *)
LEMMA TestEndControl ==
  ASSUME ControlInv, TestEnd
  PROVE  ControlInv'
<1>1. /\ pc[Test] = "testEnd" /\ TermProcess(Test)
      /\ UNCHANGED <<back, asid, status, sem>>
      /\ pc' = [v \in Procs |-> "absent"]
  BY ProcFacts DEF TestEnd, TermProcess, local, sems, Subtree
<1>2. Working = {} /\ ~ShellRuns
  BY <1>1 DEF ControlInv, TurnInv, MasterSignalled
<1>3. \A v \in UProcs : pc[v] \in NoMutex /\ pc'[v] \in NoMutex
  BY <1>1, <1>2, ProcFacts DEF Working, ShellRuns, NoMutex
<1>4. PlacesInv'
  BY <1>1, ProcFacts DEF ControlInv, PlacesInv, TestPlaces, ExecPlaces
<1>5. QueuesInv'
  BY <1>1, KillQueues, ProcFacts DEF ControlInv, PlacesInv, Places
<1>6. MutexInv'
  BY <1>1, <1>3, FreeMutex DEF ControlInv
<1>7. TurnInv'
  BY <1>1, ProcFacts DEF TurnInv, Working, ShellRuns, MasterSignalled, ExecPlaces
<1>8. SignalInv' /\ StatusInv'
  BY <1>1, ProcFacts DEF ControlInv, SignalInv, StatusInv, UserPlaces, ExecPlaces
<1> QED  BY <1>4, <1>5, <1>6, <1>7, <1>8 DEF ControlInv

(* test has created the shell: both are at their first place, all mutexes  *)
(* are free.                                                               *)
LEMMA InitControl ==
  ASSUME Init
  PROVE  ControlInv
<1>1. /\ pc[Test] = "testJoin" /\ pc[ShellProc] = "user"
      /\ \A n \in Programs : pc[n] = "absent"
      /\ pc \in [Procs -> {"testJoin", "user", "absent"}]
      /\ \A u \in UProcs : asid[u] = SHELL_ASID /\ status[u] = 1 /\ back[u] = "user"
      /\ back \in [UProcs -> {"user"}]
  BY ProcFacts, ProcsAssumption DEF Init, Procs, UProcs
<1>2. /\ sem \in [Sems -> 0..1] /\ waiting = [k \in Sems |-> <<>>]
      /\ sem["shell"] = 0 /\ sem["master"] = 0 /\ \A k \in Mutexes : sem[k] = 1
  BY DEF Init, InitialValue, Sems, Mutexes
<1>3. PlacesInv
  BY <1>1, ProcFacts DEF PlacesInv, TestPlaces, ExecPlaces, UserPlaces
<1>4. QueuesInv
  <2>1. \A k \in Sems : waiting[k] \in Seq(Procs) /\ waiting[k] = <<>>
    BY <1>2
  <2>2. \A k \in Sems : Range(waiting[k]) = {} /\ IsInjective(waiting[k])
    BY <2>1, EmptyQueueLemma DEF IsInjective
  <2>3. \A k \in Sems : \A s \in {"user", "testJoin", "absent"} : s \notin WaitPlaces(k)
    BY DEF Sems, WaitPlaces
  <2> QED  BY <1>1, <1>2, <2>1, <2>2, <2>3 DEF QueuesInv
<1>5. MutexInv
  <2>1. \A u \in UProcs, j \in Mutexes : ~Holds(u, j)
    BY <1>1, ProcFacts DEF Holds, Holding, SwapHeld, Mutexes
  <2> QED  BY <1>2, <2>1 DEF MutexInv
<1>6. TurnInv
  BY <1>1, <1>2, ProcFacts DEF TurnInv, Working, MasterSignalled, ExecPlaces
<1>7. SignalInv /\ StatusInv
  BY <1>1, ProcFacts DEF SignalInv, StatusInv, UserPlaces, ExecPlaces
<1> QED  BY <1>3, <1>4, <1>5, <1>6, <1>7 DEF ControlInv

(* All steps together.                                                     *)
LEMMA NextControl ==
  ASSUME ControlInv, DataInv, [Next]_vars
  PROVE  ControlInv'
<1>1. CASE UNCHANGED vars
  BY <1>1, SameControl DEF vars, local
<1>2. ASSUME NEW u \in UProcs, NEW g \in Pages, Refill(u, g) \/ Store(u, g)
      PROVE  ControlInv'
  BY <1>2, SameControl DEF Refill, Store, local
<1>3. ASSUME NEW u \in UProcs,
             Choice(u) \/ Access(u) \/ Pager(u) \/ Terminal(u) \/ Ending(u) \/ Device(u)
      PROVE  ControlInv'
  BY <1>2, <1>3, PlainSteps, WaitSteps, ReleaseSteps, ExecuteControl, ExecuteJoinControl,
     TermSignalControl, TermEndControl
     DEF Choice, Access, Pager, Terminal, Ending, Device
<1> QED  BY <1>1, <1>3, TestJoinControl, TestEndControl DEF Next, Halted
-----------------------------------------------------------------------------
(* Who moves in a step of u: u, and a process that waited and is served.   *)

Others(u) ==
  \A v \in Procs \ {u} :
    \/ pc'[v] = pc[v]
    \/ pc[v] \in Waits /\ pc'[v] = AfterWait[pc[v]]

(* u goes where its step says, for each of the three ways.                 *)
LEMMA GotoMove ==
  ASSUME ControlInv, NEW u \in UProcs, NEW next, Goto(u, next)
  PROVE  pc'[u] = next /\ Others(u)
  BY ProcFacts DEF Goto, Others, ControlInv, PlacesInv

(* PASSEREN moves its caller only.                                         *)
LEMMA PMove ==
  ASSUME ControlInv, NEW u \in UProcs, NEW k, NEW w, P(k, u, w)
  PROVE  pc'[u] \in {w, AfterWait[w]} /\ Others(u)
  BY ProcFacts DEF P, Goto, Others, ControlInv, PlacesInv

(* VERHOGEN moves its caller and the first in the queue.                   *)
LEMMA VMove ==
  ASSUME ControlInv, NEW u \in UProcs, NEW k \in Sems, NEW next, V(k, u, next),
         pc[u] \notin Waits
  PROVE  pc'[u] = next /\ Others(u)
<1>1. CASE waiting[k] # <<>>
  <2>1. /\ waiting[k] \in Seq(Procs) /\ IsInjective(waiting[k])
        /\ \A v \in Procs : v \in Range(waiting[k]) => pc[v] \in WaitPlaces(k)
    BY DEF ControlInv, QueuesInv
  <2>2. Head(waiting[k]) \in Range(waiting[k]) /\ Head(waiting[k]) \in Procs
    BY <1>1, <2>1, DequeueLemma DEF Range
  <2>3. PICK first \in Procs : first = Head(waiting[k]) /\ pc[first] \in Waits
    BY <2>1, <2>2, WaitFacts
  <2>4. first # u /\ pc' = [pc EXCEPT ![u] = next, ![first] = AfterWait[pc[first]]]
    BY <1>1, <2>3 DEF V
  <2> QED  BY <2>3, <2>4, ProcFacts DEF Others, ControlInv, PlacesInv
<1>2. CASE waiting[k] = <<>>
  BY <1>2, ProcFacts DEF V, Goto, Others, ControlInv, PlacesInv
<1> QED  BY <1>1, <1>2

(* Places that differ in nothing that matters for structures and records.  *)
NoSup   == {"absent", "termSignal", "termEnd"}
Evicts  == {"evicting", "evicted"}

Alike(s, t) ==
  /\ s \in NoSup <=> t \in NoSup
  /\ t \notin TermPlaces => s \notin TermPlaces
  /\ t \in Evicts => s \in Evicts

(* What is alike for the process that steps is alike for all: a wait and   *)
(* what follows it are.                                                    *)
LEMMA AllAlike ==
  ASSUME ControlInv, NEW u \in UProcs, Others(u), Alike(pc[u], pc'[u])
  PROVE  \A v \in UProcs : Alike(pc[v], pc'[v])
<1>1. \A w \in Waits : Alike(w, AfterWait[w])
  BY DEF Waits, AfterWait, Alike, NoSup, Evicts, TermPlaces
<1>2. \A s : Alike(s, s)
  BY DEF Alike
<1> QED  BY <1>1, <1>2, ProcFacts DEF Others
-----------------------------------------------------------------------------
(* DataInv through every action.                                           *)

(* Structures stay where they are.                                         *)
LEMMA SameSup ==
  ASSUME ControlInv, SupInv, UNCHANGED <<sup, supFree, sup_asid>>,
         \A s \in Sups : pgtbl'[s].asid = pgtbl[s].asid, sup \in [UProcs -> Sups],
         \A v \in UProcs : /\ HasSup(v)' => HasSup(v)
                           /\ ~IoErrors => (HasSup(v)' <=> HasSup(v))
                           /\ pc'[v] \notin TermPlaces => pc[v] \notin TermPlaces
                           /\ \/ asid'[v] = asid[v]
                              \/ IoErrors /\ pc'[v] \in TermPlaces
  PROVE  SupInv'
  BY DEF SupInv

(* A step between places that are alike, without effect on structures,     *)
(* tables and records.                                                     *)
LEMMA PlainData ==
  ASSUME ControlInv, DataInv, \A v \in UProcs : Alike(pc[v], pc'[v]),
         UNCHANGED <<sup, frame, supFree, sup_asid, pgtbl, swap_pool, frameIndex,
                     tlb, executed>>,
         page' \in [UProcs -> Pages], asid' \in [UProcs -> Asids],
         status' \in [UProcs -> {1, 4, 5}],
         \A v \in UProcs : \/ asid'[v] = asid[v]
                           \/ IoErrors /\ pc'[v] \in TermPlaces
  PROVE  DataInv'
<1>1. DataTyped'
  BY DEF DataInv, DataTyped
<1>2. SupInv'
  BY SameSup DEF DataInv, DataTyped, Alike, HasSup, NoSup
<1>3. RecordInv'
  BY DEF DataInv, RecordInv, Alike, Evicts
<1> QED  BY <1>1, <1>2, <1>3 DEF DataInv

(* The actions that change no structure, table or record.                  *)
PlainStep(u) ==
  \/ FlashWrite(u) \/ FlashRead(u) \/ AfterEvict(u) \/ LoadFailed(u) \/ PagerEnd(u)
  \/ Terminate(u) \/ TermBegin(u) \/ TermSignal(u) \/ ExecuteJoin(u)
  \/ WriteTerminal(u) \/ WriteDone(u) \/ WriteEmpty(u) \/ WriteEnd(u)
  \/ ReadTerminal(u) \/ ReadChar(u) \/ ReadDone(u) \/ ReadEnd(u)
  \/ \E g \in Pages : \/ Store(u, g) \/ PageFault(u, g)
                      \/ WriteChar(u, g) \/ ReadStore(u, g)

(* They end at a place that is alike the one they started from.            *)
LEMMA PlainMoves ==
  ASSUME ControlInv, NEW u \in UProcs, PlainStep(u)
  PROVE  Others(u) /\ Alike(pc[u], pc'[u])
<1>1. back[u] \in Backs /\ u \in Procs
  BY ProcFacts DEF ControlInv, PlacesInv, Backs
<1>2. CASE \/ FlashWrite(u) \/ FlashRead(u) \/ (AfterEvict(u) /\ Goto(u, "loading"))
           \/ Terminate(u) \/ WriteDone(u) \/ WriteEmpty(u) \/ ReadDone(u)
           \/ ReadChar(u) /\ Goto(u, "readIo")
           \/ \E g \in Pages : WriteChar(u, g) \/ ReadStore(u, g)
  <2>1. PICK next \in {"evicted", "loaded", "loading", "term", "writeHold", "writeIo",
                       "writeEnd", "readIo", "readHold", "readStore", "readEnd"} :
          /\ Goto(u, next) /\ Alike(pc[u], next)
    BY <1>2 DEF FlashWrite, FlashRead, AfterEvict, Terminate, WriteDone, WriteEmpty,
       ReadDone, ReadChar, WriteChar, ReadStore, Alike, NoSup, Evicts, TermPlaces
  <2> QED  BY <2>1, GotoMove
<1>3. CASE \/ TermBegin(u) \/ ExecuteJoin(u) \/ WriteTerminal(u) \/ ReadTerminal(u)
           \/ \E g \in Pages : PageFault(u, g)
  <2>1. PICK k \in Sems, w \in {"termWait", "execWait", "writeWait", "readWait", "pagerWait"} :
          /\ P(k, u, w) /\ Alike(pc[u], w) /\ Alike(pc[u], AfterWait[w])
    <3>1. \A k : k \in {"swapPool", "shell", "termWrite", "termRead"} => k \in Sems
      BY DEF Sems
    <3>2. /\ TermBegin(u) => P("swapPool", u, "termWait") /\ pc[u] = "term"
          /\ ExecuteJoin(u) => P("shell", u, "execWait") /\ pc[u] = "execJoin"
          /\ WriteTerminal(u) => P("termWrite", u, "writeWait") /\ pc[u] = "user"
          /\ ReadTerminal(u) => P("termRead", u, "readWait") /\ pc[u] = "user"
          /\ (\E g \in Pages : PageFault(u, g))
                => P("swapPool", u, "pagerWait") /\ pc[u] \in Backs
      BY DEF TermBegin, ExecuteJoin, WriteTerminal, ReadTerminal, PageFault, Accessing, Backs
    <3>3. /\ pc[u] = "term" => Alike(pc[u], "termWait") /\ Alike(pc[u], "termHold")
          /\ pc[u] = "execJoin" => Alike(pc[u], "execWait") /\ Alike(pc[u], "user")
          /\ pc[u] = "user" => /\ Alike(pc[u], "writeWait") /\ Alike(pc[u], "writeHold")
                               /\ Alike(pc[u], "readWait") /\ Alike(pc[u], "readHold")
          /\ pc[u] \in Backs => Alike(pc[u], "pagerWait") /\ Alike(pc[u], "pagerHold")
      BY DEF Backs, Alike, NoSup, Evicts, TermPlaces
    <3> HIDE DEF Sems
    <3> QED  BY <1>3, <3>1, <3>2, <3>3 DEF AfterWait
  <2> QED  BY <2>1, PMove
<1>4. CASE \/ (AfterEvict(u) /\ V("swapPool", u, "term"))
           \/ LoadFailed(u) \/ PagerEnd(u) \/ TermSignal(u) \/ WriteEnd(u) \/ ReadEnd(u)
           \/ ReadChar(u) /\ V("termRead", u, "term")
  <2>1. PICK k \in Sems, next \in Backs \cup {"term", "termEnd"} :
          /\ V(k, u, next) /\ Alike(pc[u], next) /\ pc[u] \notin Waits
    <3>1. \A k : k \in {"swapPool", "shell", "master", "termWrite", "termRead"} => k \in Sems
      BY DEF Sems
    <3>2. \/ V("swapPool", u, "term") /\ pc[u] \in {"evicted", "loaded"}
          \/ V("swapPool", u, back[u]) /\ pc[u] = "pagerEnd"
          \/ V("shell", u, "termEnd") /\ pc[u] = "termSignal"
          \/ V("master", u, "termEnd") /\ pc[u] = "termSignal"
          \/ V("termWrite", u, "user") /\ pc[u] = "writeEnd"
          \/ V("termRead", u, "user") /\ pc[u] = "readEnd"
          \/ V("termRead", u, "term") /\ pc[u] = "readHold"
      BY <1>4 DEF AfterEvict, LoadFailed, PagerEnd, TermSignal, WriteEnd, ReadEnd, ReadChar
    <3>3. /\ pc[u] \in {"evicted", "loaded", "readHold"} => Alike(pc[u], "term")
          /\ pc[u] = "termSignal" => Alike(pc[u], "termEnd")
          /\ pc[u] \in {"writeEnd", "readEnd"} => Alike(pc[u], "user")
          /\ pc[u] = "pagerEnd" => Alike(pc[u], back[u])
      BY <1>1 DEF Backs, Alike, NoSup, Evicts, TermPlaces
    <3>4. pc[u] \in {"evicted", "loaded", "readHold", "termSignal", "writeEnd", "readEnd",
                     "pagerEnd"} => pc[u] \notin Waits
      BY DEF Waits, AfterWait
    <3>5. "user" \in Backs
      BY DEF Backs
    <3> HIDE DEF Sems, Waits
    <3> QED  BY <1>1, <3>1, <3>2, <3>3, <3>4, <3>5
  <2> QED  BY <2>1, VMove
<1>5. CASE \E g \in Pages : Store(u, g)
  <2>1. UNCHANGED pc
    BY <1>5 DEF Store
  <2> QED  BY <2>1 DEF Others, Alike
<1> QED  BY <1>2, <1>3, <1>4, <1>5 DEF PlainStep, AfterEvict, ReadChar

(* DataInv through these actions: on an error the ASID in the handlers may *)
(* become that of another process, but only in a termination.              *)
LEMMA PlainStepData ==
  ASSUME ControlInv, DataInv, NEW u \in UProcs, PlainStep(u)
  PROVE  DataInv'
<1>1. \A v \in UProcs : Alike(pc[v], pc'[v])
  BY PlainMoves, AllAlike
<1>2. UNCHANGED <<sup, frame, supFree, sup_asid, pgtbl, swap_pool, frameIndex,
                  tlb, executed>>
  BY DEF PlainStep, FlashWrite, FlashRead, AfterEvict, LoadFailed, PagerEnd, Terminate,
     TermBegin, TermSignal, ExecuteJoin, WriteTerminal, WriteDone, WriteEmpty, WriteEnd,
     ReadTerminal, ReadChar, ReadDone, ReadEnd, Store, PageFault, WriteChar, ReadStore,
     StoreTo, local, sups, pool, memory
<1>3. page' \in [UProcs -> Pages]
  <2>1. page' = page \/ \E g \in Pages : page' = [page EXCEPT ![u] = g]
    BY DEF PlainStep, FlashWrite, FlashRead, AfterEvict, LoadFailed, PagerEnd, Terminate,
     TermBegin, TermSignal, ExecuteJoin, WriteTerminal, WriteDone, WriteEmpty, WriteEnd,
     ReadTerminal, ReadChar, ReadDone, ReadEnd, Store, PageFault, WriteChar, ReadStore, local
  <2> QED  BY <2>1 DEF DataInv, DataTyped
<1>4. status' \in [UProcs -> {1, 4, 5}]
  <2>1. status' = status \/ \E st \in {1, 4, 5} : status' = [status EXCEPT ![u] = st]
    BY DEF PlainStep, FlashWrite, FlashRead, AfterEvict, LoadFailed, PagerEnd, Terminate,
     TermBegin, TermSignal, ExecuteJoin, WriteTerminal, WriteDone, WriteEmpty, WriteEnd,
     ReadTerminal, ReadChar, ReadDone, ReadEnd, Store, PageFault, WriteChar, ReadStore, local,
     FlashStatus
  <2> QED  BY <2>1 DEF DataInv, DataTyped
<1>5. /\ asid' \in [UProcs -> Asids]
      /\ \A v \in UProcs : \/ asid'[v] = asid[v]
                           \/ IoErrors /\ pc'[v] \in TermPlaces
  <2>1. CASE asid' = asid
    BY <2>1 DEF DataInv, DataTyped
  <2>2. CASE asid' # asid
    <3>1. AfterEvict(u) \/ LoadFailed(u)
      BY <2>2 DEF PlainStep, FlashWrite, FlashRead, PagerEnd, Terminate,
         TermBegin, TermSignal, ExecuteJoin, WriteTerminal, WriteDone, WriteEmpty, WriteEnd,
         ReadTerminal, ReadChar, ReadDone, ReadEnd, Store, PageFault, WriteChar, ReadStore,
         local
    <3>2. /\ status[u] # 1 /\ V("swapPool", u, "term") /\ pc[u] \in {"evicted", "loaded"}
          /\ asid' = [asid EXCEPT ![u] = IF pc[u] = "evicted" THEN swap_pool[frame[u]].asid
                                         ELSE pgtbl[sup[u]].asid]
      BY <2>2, <3>1 DEF AfterEvict, LoadFailed
    <3>3. IoErrors
      BY <3>2 DEF ControlInv, StatusInv
    <3>4. pc'[u] = "term"
      <4>1. "swapPool" \in Sems /\ pc[u] \notin Waits
        BY <3>2 DEF Sems, Waits, AfterWait
      <4> QED  BY <3>2, <4>1, VMove
    <3>5. CASE pc[u] = "evicted"
      <4>1. swap_pool[frame[u]] \in [asid : Asids, pageNo : Pages, sup : Sups]
        BY <3>5 DEF DataInv, RecordInv, DataTyped
      <4>2. swap_pool[frame[u]].asid \in Asids
        BY <4>1
      <4> QED  BY <3>2, <3>3, <3>4, <3>5, <4>2 DEF DataInv, DataTyped, TermPlaces
    <3>6. CASE pc[u] = "loaded"
      <4>1. pgtbl[sup[u]].asid \in Asids
        BY <3>6 DEF DataInv, SupInv, HasSup
      <4> QED  BY <3>2, <3>3, <3>4, <3>6, <4>1 DEF DataInv, DataTyped, TermPlaces
    <3> QED  BY <3>2, <3>5, <3>6
  <2> QED  BY <2>1, <2>2
<1> QED  BY <1>1, <1>2, <1>3, <1>4, <1>5, PlainData

(* Updates of tables of tables.                                            *)
LEMMA ExceptTwice ==
  ASSUME NEW A, NEW G, NEW T, NEW F \in [A -> [G -> T]],
         NEW a \in A, NEW g \in G, NEW e \in T
  PROVE  /\ [F EXCEPT ![a][g] = e] \in [A -> [G -> T]]
         /\ \A c \in A, i \in G :
              [F EXCEPT ![a][g] = e][c][i] = IF c = a /\ i = g THEN e ELSE F[c][i]
  OBVIOUS

(* The types of TLB and page tables.                                       *)
TlbEntries == Frames \cup {Absent, Invalid}
Tlbs       == [Asids -> [Pages -> TlbEntries]]
Table      == [asid : Asids \cup {0}, entry : [Pages -> Frames \cup {Invalid}]]

(* After TLBWR the entry is there, and others are as they were or gone.    *)
LEMMA TlbwrFacts ==
  ASSUME tlb \in Tlbs, NEW a \in Asids, NEW g \in Pages, NEW e \in TlbEntries,
         TLBWR(a, g, e)
  PROVE  /\ tlb' \in Tlbs
         /\ tlb'[a][g] = e
         /\ \A c \in Asids, i \in Pages :
              c # a \/ i # g => tlb'[c][i] \in {Absent, tlb[c][i]}
<1>1. PICK b \in Asids, h \in Pages :
        tlb' = [[tlb EXCEPT ![b][h] = Absent] EXCEPT ![a][g] = e]
  BY DEF TLBWR
<1> DEFINE mid == [tlb EXCEPT ![b][h] = Absent]
<1>2. /\ mid \in Tlbs
      /\ \A c \in Asids, i \in Pages :
           mid[c][i] = IF c = b /\ i = h THEN Absent ELSE tlb[c][i]
  BY ExceptTwice DEF Tlbs, TlbEntries
<1>3. tlb' = [mid EXCEPT ![a][g] = e]
  BY <1>1
<1> HIDE DEF mid
<1>4. /\ tlb' \in Tlbs
      /\ \A c \in Asids, i \in Pages :
           tlb'[c][i] = IF c = a /\ i = g THEN e ELSE mid[c][i]
  <2>1. /\ [mid EXCEPT ![a][g] = e] \in Tlbs
        /\ \A c \in Asids, i \in Pages :
             [mid EXCEPT ![a][g] = e][c][i] = IF c = a /\ i = g THEN e ELSE mid[c][i]
    BY <1>2 DEF Tlbs
  <2> QED  BY <1>3, <2>1
<1>5. ASSUME NEW c \in Asids, NEW i \in Pages, c # a \/ i # g
      PROVE  tlb'[c][i] \in {Absent, tlb[c][i]}
  <2>1. tlb'[c][i] = mid[c][i]
    BY <1>4, <1>5
  <2>2. mid[c][i] \in {Absent, tlb[c][i]}
    BY <1>2
  <2> QED  BY <2>1, <2>2
<1> QED  BY <1>4, <1>5

(* After TLBP and TLBWI the entry is rewritten where it was present.       *)
LEMMA RewrittenFacts ==
  ASSUME tlb \in Tlbs, NEW a \in Asids \cup {0}, NEW g \in Pages, NEW e \in TlbEntries
  PROVE  /\ Rewritten(a, g, e) \in Tlbs
         /\ \A c \in Asids, i \in Pages :
              Rewritten(a, g, e)[c][i] = IF c = a /\ i = g /\ tlb[a][g] # Absent THEN e
                                         ELSE tlb[c][i]
<1>1. CASE a \in Asids
  <2>1. /\ [tlb EXCEPT ![a][g] = e] \in Tlbs
        /\ \A c \in Asids, i \in Pages :
             [tlb EXCEPT ![a][g] = e][c][i] = IF c = a /\ i = g THEN e ELSE tlb[c][i]
    BY <1>1, ExceptTwice DEF Tlbs
  <2> QED  BY <2>1 DEF Rewritten
<1>2. CASE a \notin Asids
  <2>1. [tlb EXCEPT ![a][g] = e] = tlb
    BY <1>2 DEF Tlbs
  <2> QED  BY <1>2, <2>1 DEF Rewritten
<1> QED  BY <1>1, <1>2

(* The types of TLB and page tables by their names.                        *)
LEMMA TypedTables ==
  ASSUME DataTyped
  PROVE  /\ tlb \in Tlbs /\ pgtbl \in [Sups -> Table]
         /\ \A s \in Sups : pgtbl[s].asid \in Asids \cup {0}
  BY DEF DataTyped, Tlbs, TlbEntries, Table

(* pageReplacement always finds a frame.                                   *)
LEMMA ReplacedFrame ==
  ASSUME DataTyped
  PROVE  /\ Replaced \in Frames
         /\ FreeFrames # {} => Replaced \in FreeFrames
<1>1. CASE FreeFrames # {}
  <2>1. FreeFrames \subseteq Nat /\ FreeFrames \subseteq Frames
    BY DEF FreeFrames, Frames
  <2>2. PICK f \in FreeFrames : \A h \in FreeFrames : ~ (<<h, f>> \in OpToRel(<, Nat))
    BY <1>1, <2>1, NatLessThanWellFounded, WFMin
  <2>3. \A h \in FreeFrames : ~ (h < f)
    BY <2>1, <2>2 DEF OpToRel
  <2>4. \A h \in FreeFrames : f <= h
    BY <2>1, <2>3
  <2> QED  BY <1>1, <2>1, <2>4 DEF Replaced
<1>2. CASE FreeFrames = {}
  <2>1. Replaced = (frameIndex + 1) % PoolSize /\ frameIndex \in Frames
    BY <1>2 DEF Replaced, DataTyped
  <2> QED  BY <1>2, <2>1, SizesAssumption DEF Frames
<1> QED  BY <1>1, <1>2

(* A refill takes the entry of the process that runs.                      *)
LEMMA RefillData ==
  ASSUME ControlInv, DataInv, NEW u \in UProcs, NEW g \in Pages, Refill(u, g)
  PROVE  DataInv'
<1>1. UNCHANGED <<pc, local, sems, sups, pool, executed>>
  BY DEF Refill
<1>2. Accessing(u) /\ TLBWR(pgtbl[sup[u]].asid, g, pgtbl[sup[u]].entry[g])
  BY DEF Refill
<1>3. /\ pgtbl[sup[u]].asid \in Asids
      /\ pgtbl[sup[u]].entry[g] \in Frames \cup {Absent, Invalid}
  <2>1. sup[u] \in Sups /\ HasSup(u)
    BY <1>2 DEF Accessing, HasSup, DataInv, DataTyped
  <2>2. pgtbl[sup[u]] \in [asid : Asids \cup {0}, entry : [Pages -> Frames \cup {Invalid}]]
    BY <2>1 DEF DataInv, DataTyped
  <2> QED  BY <2>1, <2>2 DEF DataInv, SupInv
<1>4. tlb' \in [Asids -> [Pages -> Frames \cup {Absent, Invalid}]]
  <2>1. tlb' \in Tlbs
    BY <1>2, <1>3, TypedTables, TlbwrFacts DEF DataInv, TlbEntries
  <2> QED  BY <2>1 DEF Tlbs, TlbEntries
<1>5. DataTyped'
  BY <1>1, <1>4 DEF DataInv, DataTyped, local, sups, pool
<1>6. SupInv' /\ RecordInv'
  BY <1>1 DEF DataInv, SupInv, RecordInv, HasSup, local, sups, pool
<1> QED  BY <1>5, <1>6 DEF DataInv

(* pageReplacement: the record of an occupied frame names the table whose  *)
(* entry is made invalid.                                                  *)
LEMMA EvictData ==
  ASSUME ControlInv, DataInv, NEW u \in UProcs, Evict(u)
  PROVE  DataInv'
<1> DEFINE old == swap_pool[Replaced]
           s   == old.sup
<1>1. /\ Replaced \in Frames
      /\ FreeFrames = {} => old \in [asid : Asids, pageNo : Pages, sup : Sups]
  BY ReplacedFrame DEF DataInv, DataTyped, FreeFrames
<1>2. /\ pc[u] = "pagerHold" /\ frame' = [frame EXCEPT ![u] = Replaced]
      /\ frameIndex' = IF FreeFrames # {} THEN frameIndex ELSE Replaced
      /\ UNCHANGED <<sup, asid, page, back, status, supFree, sup_asid, swap_pool, executed>>
  BY DEF Evict
<1>3. \/ FreeFrames # {} /\ Goto(u, "loading") /\ UNCHANGED <<pgtbl, tlb>>
      \/ /\ FreeFrames = {} /\ Goto(u, "evicting")
         /\ pgtbl' = EntryOff(s, old.pageNo)
         /\ tlb' = Rewritten(pgtbl[s].asid, old.pageNo, Invalid)
  BY DEF Evict
<1> HIDE DEF old, s
<1>4. /\ pgtbl' \in [Sups -> [asid : Asids \cup {0}, entry : [Pages -> Frames \cup {Invalid}]]]
      /\ \A t \in Sups : pgtbl'[t].asid = pgtbl[t].asid
      /\ tlb' \in [Asids -> [Pages -> Frames \cup {Absent, Invalid}]]
  <2>1. CASE FreeFrames # {}
    BY <1>3, <2>1 DEF DataInv, DataTyped
  <2>2. CASE FreeFrames = {}
    <3>1. s \in Sups /\ old.pageNo \in Pages
      BY <1>1, <2>2 DEF s
    <3>2. pgtbl' = [pgtbl EXCEPT ![s].entry[old.pageNo] = Invalid]
      BY <1>3, <2>2 DEF EntryOff
    <3>3. pgtbl' \in [Sups -> Table] /\ \A t \in Sups : pgtbl'[t].asid = pgtbl[t].asid
      <4>1. pgtbl \in [Sups -> Table] /\ Invalid \in Frames \cup {Invalid}
        BY TypedTables DEF DataInv
      <4>2. /\ [pgtbl EXCEPT ![s].entry[old.pageNo] = Invalid] \in [Sups -> Table]
            /\ \A t \in Sups :
                 [pgtbl EXCEPT ![s].entry[old.pageNo] = Invalid][t].asid = pgtbl[t].asid
        BY <3>1, <4>1 DEF Table
      <4> QED  BY <3>2, <4>2
    <3>4. tlb' \in Tlbs
      BY <1>3, <2>2, <3>1, TypedTables, RewrittenFacts DEF DataInv, TlbEntries
    <3> QED  BY <3>3, <3>4 DEF Tlbs, TlbEntries, Table
  <2> QED  BY <2>1, <2>2
<1>5. DataTyped'
  BY <1>1, <1>2, <1>4 DEF DataInv, DataTyped
<1>6. /\ pc'[u] \in {"loading", "evicting"} /\ \A v \in UProcs \ {u} : pc'[v] = pc[v]
      /\ pc'[u] = "evicting" => FreeFrames = {}
  BY <1>3, ProcFacts DEF Goto, ControlInv, PlacesInv
<1>7. SupInv'
  BY <1>2, <1>4, <1>6, SameSup DEF DataInv, DataTyped, HasSup, TermPlaces
<1>8. RecordInv'
  <2> SUFFICES ASSUME NEW v \in UProcs, pc'[v] \in {"evicting", "evicted"}
               PROVE  swap_pool[frame'[v]] # FreeFrame
    BY <1>2 DEF RecordInv
  <2>1. CASE v = u
    BY <1>1, <1>2, <1>6, <2>1 DEF DataInv, DataTyped, FreeFrames
  <2>2. CASE v # u
    BY <1>2, <1>6, <2>2 DEF DataInv, DataTyped, RecordInv
  <2> QED  BY <2>1, <2>2
<1> QED  BY <1>5, <1>7, <1>8 DEF DataInv

(* The rest of the pager: record, entry and TLB of the page that was read. *)
LEMMA CommitData ==
  ASSUME ControlInv, DataInv, NEW u \in UProcs, Commit(u)
  PROVE  DataInv'
<1> DEFINE s == sup[u]
           g == page[u]
           f == frame[u]
<1>1. s \in Sups /\ g \in Pages /\ f \in Frames
  BY DEF DataInv, DataTyped
<1>2. /\ pc[u] = "loaded" /\ Goto(u, "pagerEnd")
      /\ UNCHANGED <<sup, asid, page, frame, back, status, supFree, sup_asid,
                     frameIndex, executed>>
      /\ swap_pool' = [swap_pool EXCEPT ![f] = [asid |-> sup_asid[s], pageNo |-> g, sup |-> s]]
      /\ pgtbl' = [pgtbl EXCEPT ![s].entry[g] = f]
      /\ tlb' = Rewritten(pgtbl[s].asid, g, f) \/ TLBWR(pgtbl[s].asid, g, f)
  BY DEF Commit, local
<1>3. sup_asid[s] \in Asids /\ pgtbl[s].asid = sup_asid[s]
  BY <1>2 DEF DataInv, SupInv, HasSup
<1>4. tlb' \in [Asids -> [Pages -> Frames \cup {Absent, Invalid}]]
  <2>1. f \in TlbEntries /\ pgtbl[s].asid \in Asids
    BY <1>1, <1>3 DEF TlbEntries
  <2>2. tlb' \in Tlbs
    BY <1>1, <1>2, <2>1, TypedTables, RewrittenFacts, TlbwrFacts DEF DataInv
  <2> QED  BY <2>2 DEF Tlbs, TlbEntries
<1>5. /\ pgtbl' \in [Sups -> [asid : Asids \cup {0}, entry : [Pages -> Frames \cup {Invalid}]]]
      /\ \A t \in Sups : pgtbl'[t].asid = pgtbl[t].asid
  BY <1>1, <1>2 DEF DataInv, DataTyped
<1>6. swap_pool' \in [Frames -> {FreeFrame} \cup [asid : Asids, pageNo : Pages, sup : Sups]]
  BY <1>1, <1>2, <1>3 DEF DataInv, DataTyped
<1>7. DataTyped'
  BY <1>2, <1>4, <1>5, <1>6 DEF DataInv, DataTyped
<1>8. pc'[u] = "pagerEnd" /\ \A v \in UProcs \ {u} : pc'[v] = pc[v]
  BY <1>2, ProcFacts DEF Goto, ControlInv, PlacesInv
<1>9. SupInv'
  BY <1>2, <1>5, <1>8, SameSup DEF DataInv, DataTyped, HasSup, TermPlaces
<1>10. RecordInv'
  <2> SUFFICES ASSUME NEW v \in UProcs, pc'[v] \in {"evicting", "evicted"}
               PROVE  swap_pool'[frame[v]] # FreeFrame
    BY <1>2 DEF RecordInv
  <2>1. swap_pool[frame[v]] # FreeFrame /\ frame[v] \in Frames
    BY <1>8 DEF DataInv, DataTyped, RecordInv
  <2>2. [asid |-> sup_asid[s], pageNo |-> g, sup |-> s] # FreeFrame
    BY <1>1 DEF FreeFrame, Sups
  <2> QED  BY <1>2, <2>1, <2>2 DEF DataInv, DataTyped
<1> QED  BY <1>7, <1>9, <1>10 DEF DataInv

(* Who frees frames has the swap pool, so nobody is writing one out.       *)
LEMMA TermFreeData ==
  ASSUME ControlInv, DataInv, NEW u \in UProcs, TermFree(u)
  PROVE  DataInv'
<1>1. /\ pc[u] = "termHold" /\ V("swapPool", u, "termFreed")
      /\ UNCHANGED <<local, sups, frameIndex, memory, executed>>
      /\ swap_pool' = [f \in Frames |-> IF swap_pool[f].asid = asid[u] THEN FreeFrame
                                        ELSE swap_pool[f]]
  BY DEF TermFree, FreeSwapFrames
<1>2. DataTyped'
  BY <1>1 DEF DataInv, DataTyped, local, sups, memory
<1>3. \A v \in UProcs : Alike(pc[v], pc'[v])
  <2>1. "swapPool" \in Sems /\ pc[u] \notin Waits /\ Alike(pc[u], "termFreed")
    BY <1>1 DEF Sems, Waits, AfterWait, Alike, NoSup, TermPlaces, Evicts
  <2> QED  BY <1>1, <2>1, VMove, AllAlike
<1>4. SupInv'
  BY <1>1, <1>3, SameSup DEF DataInv, DataTyped, Alike, HasSup, NoSup, local, sups
<1>5. RecordInv'
  <2>1. \A v \in UProcs : pc[v] \in Evicts => Holds(v, "swapPool") /\ v # u
    BY <1>1 DEF Holds, Holding, SwapHeld, Evicts
  <2>2. Holds(u, "swapPool") /\ "swapPool" \in Mutexes
    BY <1>1 DEF Holds, Holding, Mutexes
  <2>3. \A v \in UProcs : pc[v] \notin Evicts
    BY <2>1, <2>2 DEF ControlInv, MutexInv
  <2> QED  BY <1>3, <2>3 DEF RecordInv, Alike, Evicts
<1> QED  BY <1>2, <1>4, <1>5 DEF DataInv

(* deallocateSupport puts a structure on the free list that was not there: *)
(* nobody else has it.                                                     *)
LEMMA TermDeallocData ==
  ASSUME ControlInv, DataInv, NEW u \in UProcs, TermDealloc(u)
  PROVE  DataInv'
<1>1. /\ pc[u] = "termFreed" /\ pc' = [pc EXCEPT ![u] = "termSignal"]
      /\ sup_asid' = [sup_asid EXCEPT ![sup[u]] = 0]
      /\ supFree' = <<sup[u]>> \o supFree
      /\ UNCHANGED <<local, sems, pgtbl, pool, memory, executed>>
  BY DEF TermDealloc, Goto
<1>2. sup[u] \in Sups /\ HasSup(u) /\ sup[u] \notin Range(supFree)
      /\ supFree \in Seq(Sups) /\ IsInjective(supFree)
  BY <1>1 DEF DataInv, DataTyped, SupInv, HasSup
<1>3. /\ supFree' \in Seq(Sups) /\ IsInjective(supFree')
      /\ Range(supFree') = Range(supFree) \cup {sup[u]}
  BY <1>1, <1>2, ConsLemma
<1>4. DataTyped'
  BY <1>1, <1>2, <1>3 DEF DataInv, DataTyped, local, pool, memory
<1>5. /\ pc'[u] = "termSignal" /\ \A v \in UProcs \ {u} : pc'[v] = pc[v]
      /\ ~HasSup(u)' /\ \A v \in UProcs \ {u} : HasSup(v)' <=> HasSup(v)
  BY <1>1, ProcFacts DEF ControlInv, PlacesInv, HasSup
<1>6. SupInv'
  <2>1. ASSUME NEW v \in UProcs, HasSup(v)'
        PROVE  /\ sup'[v] \notin Range(supFree')
               /\ \A w \in UProcs : HasSup(w)' /\ sup'[w] = sup'[v] => w = v
               /\ sup_asid'[sup'[v]] \in Asids /\ pgtbl'[sup'[v]].asid = sup_asid'[sup'[v]]
               /\ pc'[v] \notin TermPlaces \/ ~IoErrors => asid'[v] = sup_asid'[sup'[v]]
    <3>1. v # u /\ HasSup(v) /\ pc'[v] = pc[v] /\ UNCHANGED <<sup, asid, pgtbl>>
      BY <1>1, <1>5, <2>1 DEF local
    <3>2. sup[v] # sup[u] /\ sup[v] \in Sups
      BY <1>2, <3>1 DEF DataInv, DataTyped, SupInv
    <3>3. sup_asid'[sup[v]] = sup_asid[sup[v]]
      BY <1>1, <1>2, <3>2 DEF DataInv, DataTyped
    <3> QED  BY <1>2, <1>3, <1>5, <3>1, <3>2, <3>3 DEF DataInv, SupInv
  <2>2. ASSUME ~IoErrors, NEW s \in Sups
        PROVE  s \in Range(supFree') \/ \E v \in UProcs : HasSup(v)' /\ sup'[v] = s
    <3>1. UNCHANGED sup
      BY <1>1 DEF local
    <3>2. s \in Range(supFree) \/ \E v \in UProcs : HasSup(v) /\ sup[v] = s
      BY <2>2 DEF DataInv, SupInv
    <3> QED  BY <1>3, <1>5, <3>1, <3>2
  <2> QED  BY <1>3, <2>1, <2>2 DEF SupInv
<1>7. RecordInv'
  BY <1>1, <1>5 DEF DataInv, RecordInv, local, pool
<1> QED  BY <1>4, <1>6, <1>7 DEF DataInv

(* allocateSupport takes the first structure of the free list, which       *)
(* nobody has.                                                             *)
LEMMA ExecuteData ==
  ASSUME ControlInv, DataInv, NEW u \in UProcs, NEW n \in Programs, NEW a \in Asids,
         Execute(u, n, a)
  PROVE  DataInv'
<1>1. PICK s \in Sups :
        /\ s = Head(supFree) /\ s \in Range(supFree)
        /\ Tail(supFree) \in Seq(Sups) /\ IsInjective(Tail(supFree))
        /\ Range(Tail(supFree)) = Range(supFree) \ {s}
  <2>1. supFree # <<>> /\ supFree \in Seq(Sups) /\ IsInjective(supFree)
    BY DEF Execute, DataInv, DataTyped, SupInv
  <2>2. Head(supFree) \in Range(supFree) /\ Head(supFree) \in Sups
    BY <2>1, DequeueLemma DEF Range
  <2> QED  BY <2>1, <2>2, DequeueLemma
<1>2. /\ pc[u] = "user" /\ asid[u] = SHELL_ASID /\ pc[n] = "absent"
      /\ pc' = [pc EXCEPT ![u] = "execJoin", ![n] = "user"]
      /\ supFree' = Tail(supFree)
      /\ sup_asid' = [sup_asid EXCEPT ![s] = a]
      /\ pgtbl' = [pgtbl EXCEPT ![s] = EmptyTable(a)]
      /\ sup' = [sup EXCEPT ![n] = s]
      /\ asid' = [asid EXCEPT ![n] = a]
      /\ executed' = executed \cup {a}
      /\ UNCHANGED <<page, frame, back, status, sems, pool, tlb, mem, flash>>
  BY <1>1 DEF Execute
<1>3. EmptyTable(a) \in [asid : Asids \cup {0}, entry : [Pages -> Frames \cup {Invalid}]]
  BY DEF EmptyTable
<1>4. DataTyped'
  <2>1. sup' \in [UProcs -> Sups] /\ asid' \in [UProcs -> Asids]
        /\ sup_asid' \in [Sups -> Asids \cup {0}]
    BY <1>1, <1>2 DEF DataInv, DataTyped
  <2>2. pgtbl' \in [Sups -> [asid : Asids \cup {0}, entry : [Pages -> Frames \cup {Invalid}]]]
    BY <1>2, <1>3 DEF DataInv, DataTyped
  <2> QED  BY <1>1, <1>2, <2>1, <2>2 DEF DataInv, DataTyped, pool
<1>5. u # n /\ pc'[u] = "execJoin" /\ pc'[n] = "user"
      /\ \A v \in UProcs \ {u, n} : pc'[v] = pc[v]
  BY <1>2, ProcFacts DEF ControlInv, PlacesInv
<1>6. ~HasSup(n) /\ HasSup(n)' /\ \A v \in UProcs \ {n} : HasSup(v)' <=> HasSup(v)
  BY <1>2, <1>5 DEF HasSup
<1>7. /\ sup'[n] = s /\ asid'[n] = a /\ sup_asid'[s] = a /\ pgtbl'[s].asid = a
      /\ \A v \in UProcs \ {n} : sup'[v] = sup[v] /\ asid'[v] = asid[v]
      /\ \A t \in Sups \ {s} : sup_asid'[t] = sup_asid[t] /\ pgtbl'[t] = pgtbl[t]
  BY <1>2, ProcFacts DEF DataInv, DataTyped, EmptyTable
<1>8. SupInv'
  <2>1. \A v \in UProcs : HasSup(v) => sup[v] # s /\ sup[v] \in Sups
    BY <1>1 DEF DataInv, DataTyped, SupInv
  <2>2. ASSUME NEW v \in UProcs, HasSup(v)'
        PROVE  /\ sup'[v] \notin Range(supFree')
               /\ \A w \in UProcs : HasSup(w)' /\ sup'[w] = sup'[v] => w = v
               /\ sup_asid'[sup'[v]] \in Asids /\ pgtbl'[sup'[v]].asid = sup_asid'[sup'[v]]
               /\ pc'[v] \notin TermPlaces \/ ~IoErrors => asid'[v] = sup_asid'[sup'[v]]
    <3>1. CASE v = n
      BY <1>1, <1>2, <1>6, <1>7, <2>1, <3>1
    <3>2. CASE v # n
      <4>1. HasSup(v) /\ sup'[v] = sup[v] /\ asid'[v] = asid[v] /\ sup[v] # s
        BY <1>6, <1>7, <2>1, <2>2, <3>2
      <4>2. sup_asid'[sup[v]] = sup_asid[sup[v]] /\ pgtbl'[sup[v]] = pgtbl[sup[v]]
        BY <1>7, <2>1, <4>1
      <4>3. pc'[v] \notin TermPlaces => pc[v] \notin TermPlaces
        BY <1>2, <1>5, <3>2 DEF TermPlaces
      <4>4. sup[v] \notin Range(supFree')
        BY <1>1, <1>2, <4>1 DEF DataInv, SupInv
      <4>5. \A w \in UProcs : HasSup(w)' /\ sup'[w] = sup[v] => w = v
        BY <1>6, <1>7, <4>1 DEF DataInv, SupInv
      <4> QED  BY <4>1, <4>2, <4>3, <4>4, <4>5 DEF DataInv, SupInv
    <3> QED  BY <3>1, <3>2
  <2>3. ASSUME ~IoErrors, NEW t \in Sups
        PROVE  t \in Range(supFree') \/ \E v \in UProcs : HasSup(v)' /\ sup'[v] = t
    <3>1. t \in Range(supFree) \/ \E v \in UProcs : HasSup(v) /\ sup[v] = t
      BY <2>3 DEF DataInv, SupInv
    <3>2. CASE t = s
      BY <1>6, <1>7, <3>2, ProcFacts
    <3>3. CASE t # s
      BY <1>1, <1>2, <1>6, <1>7, <3>1, <3>3
    <3> QED  BY <3>2, <3>3
  <2> QED  BY <1>1, <1>2, <2>2, <2>3 DEF SupInv
<1>9. RecordInv'
  BY <1>2, <1>5 DEF DataInv, RecordInv, pool
<1> QED  BY <1>4, <1>8, <1>9 DEF DataInv

(* The death of processes: where no flash operation fails they have given  *)
(* their structures back.                                                  *)
LEMMA KillData ==
  ASSUME ControlInv, DataInv, NEW u \in Procs, TermProcess(u),
         ~IoErrors => \A v \in UProcs : v \in Subtree(u) => ~HasSup(v)
  PROVE  DataInv'
<1>1. /\ \A v \in UProcs : pc'[v] = IF v \in Subtree(u) THEN "absent" ELSE pc[v]
      /\ UNCHANGED <<sup, asid, page, frame, status, supFree, sup_asid, pgtbl,
                     swap_pool, frameIndex, tlb, executed>>
  <2>1. pc' = [v \in Procs |-> IF v \in Subtree(u) THEN "absent" ELSE pc[v]]
    BY DEF TermProcess
  <2>2. UNCHANGED <<sup, asid, page, frame, status, supFree, sup_asid, pgtbl,
                    swap_pool, frameIndex, tlb, executed>>
    BY DEF TermProcess, local, sups, pool, memory
  <2> QED  BY <2>1, <2>2, ProcFacts
<1>2. DataTyped'
  BY <1>1 DEF DataInv, DataTyped
<1>3. ASSUME NEW v \in UProcs
      PROVE  /\ HasSup(v)' => HasSup(v)
             /\ ~IoErrors => (HasSup(v)' <=> HasSup(v))
  BY <1>1 DEF HasSup
<1>4. SupInv'
  <2>1. \A v \in UProcs : HasSup(v)' => pc'[v] = pc[v]
    BY <1>1 DEF HasSup
  <2> QED  BY <1>1, <1>3, <2>1 DEF DataInv, SupInv
<1>5. RecordInv'
  BY <1>1 DEF DataInv, RecordInv
<1> QED  BY <1>2, <1>4, <1>5 DEF DataInv

(* The ends of programs, of the shell and of test.                         *)
LEMMA EndData ==
  ASSUME ControlInv, DataInv, TestEnd \/ \E u \in UProcs : TermEnd(u)
  PROVE  DataInv'
<1>1. ASSUME NEW u \in UProcs, TermEnd(u)  PROVE DataInv'
  <2>1. pc[u] = "termEnd" /\ TermProcess(u) /\ u \in Procs
    BY <1>1, ProcFacts DEF TermEnd
  <2>2. u = ShellProc => Working = {}
    BY <2>1 DEF ControlInv, TurnInv, ExecPlaces
  <2>3. \A v \in UProcs : v \in Subtree(u) => ~HasSup(v)
    BY <2>1, <2>2, ProcFacts DEF Subtree, Working, HasSup
  <2> QED  BY <2>1, <2>3, KillData
<1>2. CASE TestEnd
  <2>1. pc[Test] = "testEnd" /\ TermProcess(Test)
    BY <1>2 DEF TestEnd
  <2>2. Working = {} /\ (~IoErrors => pc[ShellProc] \in {"termEnd", "absent"})
    BY <2>1 DEF ControlInv, TurnInv, MasterSignalled
  <2>3. ~IoErrors => \A v \in UProcs : ~HasSup(v)
    BY <2>2, ProcFacts DEF Working, HasSup
  <2> QED  BY <2>1, <2>3, KillData, ProcFacts
<1> QED  BY <1>1, <1>2

(* The wait of test touches no data.                                       *)
LEMMA TestJoinData ==
  ASSUME ControlInv, DataInv, TestJoin
  PROVE  DataInv'
<1>1. UNCHANGED <<local, sups, pool, memory, executed>> /\ P("master", Test, "testWait")
  BY DEF TestJoin
<1>2. \A v \in UProcs : pc'[v] = pc[v]
  BY <1>1, ProcFacts DEF P, Goto, ControlInv, PlacesInv
<1>3. DataTyped'
  BY <1>1 DEF DataInv, DataTyped, local, sups, pool, memory
<1>4. SupInv' /\ RecordInv'
  BY <1>1, <1>2 DEF DataInv, SupInv, RecordInv, HasSup, local, sups, pool
<1> QED  BY <1>3, <1>4 DEF DataInv

(* All steps together.                                                     *)
LEMMA NextData ==
  ASSUME ControlInv, DataInv, [Next]_vars
  PROVE  DataInv'
<1>1. CASE UNCHANGED vars
  BY <1>1 DEF vars, local, sups, pool, memory, DataInv, DataTyped, SupInv, RecordInv, HasSup
<1>2. ASSUME NEW u \in UProcs,
             Choice(u) \/ Access(u) \/ Pager(u) \/ Terminal(u) \/ Ending(u) \/ Device(u)
      PROVE  DataInv'
  <2>1. \/ PlainStep(u) \/ Evict(u) \/ Commit(u) \/ TermFree(u) \/ TermDealloc(u)
        \/ TermEnd(u) \/ \E g \in Pages : Refill(u, g)
        \/ \E n \in Programs, a \in Asids : Execute(u, n, a)
    BY <1>2 DEF Choice, Access, Pager, Terminal, Ending, Device, PlainStep
  <2> QED  BY <2>1, PlainStepData, RefillData, EvictData, CommitData, TermFreeData,
              TermDeallocData, ExecuteData, EndData
<1> QED  BY <1>1, <1>2, TestJoinData, EndData DEF Next, Halted

(* All structures but one are free; the last belongs to the shell.         *)
LEMMA InitData ==
  ASSUME Init
  PROVE  DataInv
<1>1. /\ sup = [u \in UProcs |-> UProcMax] /\ asid = [u \in UProcs |-> SHELL_ASID]
      /\ frame = [u \in UProcs |-> 0] /\ status = [u \in UProcs |-> 1]
      /\ page = [u \in UProcs |-> CHOOSE g \in Pages : TRUE]
      /\ supFree = [i \in 1..(UProcMax - 1) |-> UProcMax - i]
      /\ sup_asid = [s \in Sups |-> IF s = UProcMax THEN SHELL_ASID ELSE 0]
      /\ pgtbl = [s \in Sups |-> EmptyTable(sup_asid[s])]
      /\ swap_pool = [f \in Frames |-> FreeFrame] /\ frameIndex = 0
      /\ tlb = [a \in Asids |-> [g \in Pages |-> Absent]] /\ executed = {}
  BY DEF Init
<1>2. /\ UProcMax \in Sups /\ SHELL_ASID \in Asids /\ 0 \in Frames
      /\ (CHOOSE g \in Pages : TRUE) \in Pages
  BY SizesAssumption DEF Sups, Asids, Frames, SHELL_ASID
<1>3. /\ supFree \in Seq(Sups) /\ IsInjective(supFree)
      /\ \A s \in Sups : s \in Range(supFree) <=> s # UProcMax
  <2>1. UProcMax - 1 \in Nat /\ \A i \in 1..(UProcMax - 1) : UProcMax - i \in Sups
    BY SizesAssumption DEF Sups
  <2>2. supFree \in Seq(Sups)
    BY <1>1, <2>1, IsASeq
  <2>3. IsInjective(supFree)
    BY <1>1, SizesAssumption DEF IsInjective
  <2>4. ASSUME NEW s \in Sups
        PROVE  s \in Range(supFree) <=> s # UProcMax
    <3>1. s # UProcMax => /\ UProcMax - s \in 1..(UProcMax - 1)
                          /\ UProcMax - (UProcMax - s) = s
      BY SizesAssumption DEF Sups
    <3>2. s # UProcMax => supFree[UProcMax - s] = s
      BY <1>1, <3>1
    <3>3. s # UProcMax => s \in Range(supFree)
      BY <1>1, <3>1, <3>2 DEF Range
    <3>4. \A i \in 1..(UProcMax - 1) : supFree[i] # UProcMax
      BY <1>1, SizesAssumption
    <3> QED  BY <1>1, <3>3, <3>4 DEF Range
  <2> QED  BY <2>2, <2>3, <2>4
<1>4. /\ pgtbl \in [Sups -> [asid : Asids \cup {0},
                             entry : [Pages -> Frames \cup {Invalid}]]]
      /\ sup_asid \in [Sups -> Asids \cup {0}]
      /\ \A s \in Sups : pgtbl[s].asid = sup_asid[s]
  BY <1>1, <1>2 DEF EmptyTable
<1>5. DataTyped
  BY <1>1, <1>2, <1>3, <1>4 DEF DataTyped
<1>6. \A u \in UProcs : HasSup(u) <=> u = ShellProc
  BY ProcFacts, ProcsAssumption DEF Init, HasSup
<1>7. SupInv
  BY <1>1, <1>2, <1>3, <1>4, <1>6, ProcFacts DEF SupInv
<1>8. RecordInv
  BY ProcFacts, ProcsAssumption DEF Init, RecordInv
<1> QED  BY <1>5, <1>7, <1>8 DEF DataInv

(* Every reachable state.                                                  *)
THEOREM SupportInductive == Spec => [](ControlInv /\ DataInv)
<1>1. Init => ControlInv /\ DataInv
  BY InitControl, InitData
<1>2. ControlInv /\ DataInv /\ [Next]_vars => (ControlInv /\ DataInv)'
  BY NextControl, NextData
<1> QED  BY <1>1, <1>2, PTL DEF Spec
-----------------------------------------------------------------------------
(* What the runs check, for every number of programs, pages, frames and    *)
(* support structures.                                                     *)

(* The type invariant of the module.                                       *)
THEOREM SupportTypes == Spec => []TypeOK
<1>1. ASSUME ControlInv, DataInv  PROVE TypeOK
  <2>1. Places = DOMAIN AfterWait \cup {AfterWait[w] : w \in DOMAIN AfterWait}
              \cup {"absent", "evicting", "evicted", "loading", "loaded",
                    "pagerEnd", "term", "termFreed", "termSignal", "termEnd",
                    "execJoin", "writeIo", "writeEnd", "readIo", "readStore",
                    "readEnd", "testJoin"}
    BY DEF Places, TestPlaces, ExecPlaces, TermPlaces, UserPlaces, AfterWait
  <2>2. pc \in [Procs -> Places]
    BY <1>1 DEF ControlInv, PlacesInv, Places
  <2> QED  BY <1>1, <2>1, <2>2 DEF TypeOK, ControlInv, PlacesInv, QueuesInv, DataInv, DataTyped
<1> QED  BY <1>1, SupportInductive, PTL

(* The swap pool belongs to at most one process at a time and is free when *)
(* nobody has it, whatever fails in the pager.                             *)
THEOREM SwapPoolHeldOnce == Spec => []SwapPoolExact
<1>1. ASSUME ControlInv  PROVE SwapPoolExact
  <2> DEFINE H == Holders("swapPool")
  <2>1. /\ "swapPool" \in Mutexes
        /\ \A u \in UProcs : u \in H <=> Holds(u, "swapPool")
    BY DEF Holders, Holds, Holding, Mutexes
  <2>2. H \subseteq UProcs
    BY DEF Holders
  <2> HIDE DEF H
  <2>3. CASE H = {}
    <3>1. sem["swapPool"] = 1
      BY <1>1, <2>1, <2>3 DEF ControlInv, MutexInv
    <3>2. Cardinality(H) = 0
      BY <2>3, FS_EmptySet
    <3> QED  BY <3>1, <3>2 DEF SwapPoolExact, H
  <2>4. CASE H # {}
    <3>1. PICK u \in H : TRUE
      BY <2>4
    <3>2. H = {u} /\ sem["swapPool"] = 0
      BY <1>1, <2>1, <2>2, <3>1 DEF ControlInv, MutexInv
    <3>3. Cardinality(H) = 1
      BY <3>2, FS_Singleton
    <3> QED  BY <3>2, <3>3 DEF SwapPoolExact, H
  <2> QED  BY <2>3, <2>4
<1> QED  BY <1>1, SupportInductive, PTL

(* So do the halves of the terminal, where no flash operation fails: with  *)
(* errors a process may be terminated inside a page fault of its terminal  *)
(* call, and the mutex is lost.                                            *)
THEOREM TerminalHeldOnce == Spec => [](~IoErrors => TerminalExact)
<1>1. ASSUME ControlInv, ~IoErrors  PROVE TerminalExact
  <2> SUFFICES ASSUME NEW k \in {"termWrite", "termRead"}
               PROVE  sem[k] + Cardinality(Holders(k)) = 1
    BY DEF TerminalExact
  <2>1. k \in Mutexes
    BY DEF Mutexes
  <2>2. \A u \in UProcs : u \in Holders(k) <=> Holds(u, k)
    <3>1. CASE k = "termWrite"
      BY <3>1 DEF Holders, Holds, Holding, InPager
    <3>2. CASE k = "termRead"
      BY <3>2 DEF Holders, Holds, Holding, InPager
    <3> QED  BY <3>1, <3>2
  <2>3. Holders(k) \subseteq UProcs
    BY DEF Holders
  <2>4. CASE Holders(k) = {}
    <3>1. sem[k] = 1
      BY <1>1, <2>1, <2>2, <2>4 DEF ControlInv, MutexInv
    <3>2. Cardinality(Holders(k)) = 0
      BY <2>4, FS_EmptySet
    <3> QED  BY <3>1, <3>2
  <2>5. CASE Holders(k) # {}
    <3>1. PICK u \in Holders(k) : TRUE
      BY <2>5
    <3>2. Holders(k) = {u} /\ sem[k] = 0
      BY <1>1, <2>1, <2>2, <2>3, <3>1 DEF ControlInv, MutexInv
    <3>3. Cardinality(Holders(k)) = 1
      BY <3>2, FS_Singleton
    <3> QED  BY <3>2, <3>3
  <2> QED  BY <2>4, <2>5
<1>2. ControlInv => (~IoErrors => TerminalExact)
  BY <1>1
<1> QED  BY <1>2, SupportInductive, PTL

(* One program works at a time, and the shell stands still meanwhile.      *)
THEOREM OneProgramAtATime == Spec => []ShellWaits
<1>1. ASSUME ControlInv  PROVE ShellWaits
  <2> SUFFICES ASSUME Working # {}
               PROVE  /\ Cardinality(Working) = 1
                      /\ pc[ShellProc] \in {"execJoin", "execWait"}
                      /\ sem["shell"] = 0
    BY DEF ShellWaits
  <2>1. PICK n \in Working : TRUE
    OBVIOUS
  <2>2. Working = {n}
    BY <1>1, <2>1 DEF ControlInv, TurnInv
  <2> QED  BY <1>1, <2>2, FS_Singleton DEF ControlInv, TurnInv, ExecPlaces
<1> QED  BY <1>1, SupportInductive, PTL

(* Two processes never wait for one device.                                *)
THEOREM OneProcessPerDevice == Spec => []DevicesExclusive
<1>1. ASSUME ControlInv  PROVE DevicesExclusive
  <2> SUFFICES ASSUME NEW u \in AtDevice, NEW v \in AtDevice, DeviceOf(u) = DeviceOf(v)
               PROVE  u = v
    BY DEF DevicesExclusive
  <2>1. PICK k \in Mutexes : Holds(u, k) /\ Holds(v, k)
    <3>1. /\ pc[u] \in {"evicting", "loading"} \/ pc[u] = "writeIo" \/ pc[u] = "readIo"
          /\ pc[v] \in {"evicting", "loading"} \/ pc[v] = "writeIo" \/ pc[v] = "readIo"
      BY DEF AtDevice
    <3>2. ASSUME NEW w
          PROVE  /\ pc[w] \in {"evicting", "loading"} =>
                      Holds(w, "swapPool") /\ DeviceOf(w)[1] = "flash"
                 /\ pc[w] = "writeIo" =>
                      Holds(w, "termWrite") /\ DeviceOf(w)[1] = "transmitter"
                 /\ pc[w] = "readIo" =>
                      Holds(w, "termRead") /\ DeviceOf(w)[1] = "receiver"
      BY DEF Holds, Holding, SwapHeld, DeviceOf
    <3> QED  BY <3>1, <3>2 DEF Mutexes
  <2> QED  BY <1>1, <2>1 DEF ControlInv, MutexInv, AtDevice
<1> QED  BY <1>1, SupportInductive, PTL
-----------------------------------------------------------------------------
(* What a step of u does to the semaphores.                                *)

SemStep(u) ==
  \/ \E next \in Places \ {"absent"} : Goto(u, next) /\ UNCHANGED sems
  \/ \E k \in Sems : \E w \in WaitPlaces(k) : P(k, u, w)
  \/ \E k \in Sems : \E next \in Places \ {"absent"} : V(k, u, next)
  \/ UNCHANGED <<pc, sems>>

(* All actions of a U-proc but EXECUTE and its end.                        *)
OtherStep(u) ==
  \/ PlainStep(u) \/ Evict(u) \/ Commit(u) \/ TermFree(u) \/ TermDealloc(u)
  \/ \E g \in Pages : Refill(u, g)

(* A process that steps does not wait, and uses at most one semaphore.     *)
LEMMA SemSteps ==
  ASSUME ControlInv, NEW u \in UProcs, OtherStep(u)
  PROVE  pc[u] \notin Waits \cup {"absent"} /\ SemStep(u)
<1> DEFINE Going == \E next \in Places \ {"absent"} : Goto(u, next) /\ UNCHANGED sems
           Asking == \E k \in Sems : \E w \in WaitPlaces(k) : P(k, u, w)
           Giving == \E k \in Sems : \E next \in Places \ {"absent"} : V(k, u, next)
           Out(s) == s \notin Waits \cup {"absent"}
<1>1. back[u] \in Backs
  BY DEF ControlInv, PlacesInv, Backs
<1>2. \A s : s \in {"user", "writeHold", "readStore", "term", "execJoin", "evicting",
                    "evicted", "loading", "loaded", "pagerHold", "pagerEnd", "termHold",
                    "termFreed", "termSignal", "writeIo", "writeEnd", "readIo",
                    "readHold", "readEnd", "termEnd"}
               => Out(s) /\ s \in Places \ {"absent"}
  BY DEF Waits, AfterWait, Places, TestPlaces, ExecPlaces, TermPlaces, UserPlaces
<1>3. /\ "pagerWait" \in WaitPlaces("swapPool") /\ "termWait" \in WaitPlaces("swapPool")
      /\ "execWait" \in WaitPlaces("shell") /\ "writeWait" \in WaitPlaces("termWrite")
      /\ "readWait" \in WaitPlaces("termRead")
  BY DEF WaitPlaces
<1>4. \A k : k \in {"swapPool", "shell", "master", "termWrite", "termRead"} => k \in Sems
  BY DEF Sems
<1> HIDE DEF Out
<1>5. CASE \/ FlashWrite(u) \/ FlashRead(u) \/ Terminate(u)
           \/ WriteDone(u) \/ WriteEmpty(u) \/ ReadDone(u)
           \/ Evict(u) \/ Commit(u) \/ TermDealloc(u)
           \/ \E g \in Pages : WriteChar(u, g) \/ ReadStore(u, g)
  <2>1. Out(pc[u])
    BY <1>2, <1>5 DEF FlashWrite, FlashRead, Terminate, WriteDone, WriteEmpty, ReadDone,
       Evict, Commit, TermDealloc, WriteChar, ReadStore
  <2>2. Going
    BY <1>2, <1>5 DEF FlashWrite, FlashRead, Terminate, WriteDone, WriteEmpty, ReadDone,
       Evict, Commit, TermDealloc, WriteChar, ReadStore
  <2> QED  BY <2>1, <2>2 DEF Out, SemStep
<1>6. CASE \/ TermBegin(u) \/ ExecuteJoin(u) \/ WriteTerminal(u) \/ ReadTerminal(u)
           \/ \E g \in Pages : PageFault(u, g)
  <2>1. Out(pc[u])
    BY <1>2, <1>6 DEF TermBegin, ExecuteJoin, WriteTerminal, ReadTerminal, PageFault,
       Accessing
  <2>2. Asking
    BY <1>3, <1>4, <1>6 DEF TermBegin, ExecuteJoin, WriteTerminal, ReadTerminal, PageFault
  <2> QED  BY <2>1, <2>2 DEF Out, SemStep
<1>7. CASE \/ AfterEvict(u) \/ LoadFailed(u) \/ PagerEnd(u) \/ TermSignal(u)
           \/ WriteEnd(u) \/ ReadEnd(u) \/ ReadChar(u) \/ TermFree(u)
  <2>1. Out(pc[u])
    BY <1>2, <1>7 DEF AfterEvict, LoadFailed, PagerEnd, TermSignal, WriteEnd, ReadEnd,
       ReadChar, TermFree
  <2>2. Going \/ Giving
    <3>1. back[u] \in Places \ {"absent"}
      BY <1>1, <1>2 DEF Backs
    <3>2. \/ Goto(u, "loading") /\ UNCHANGED sems
          \/ Goto(u, "readIo") /\ UNCHANGED sems
          \/ V("swapPool", u, "term") \/ V("swapPool", u, "termFreed")
          \/ V("swapPool", u, back[u])
          \/ V("shell", u, "termEnd") \/ V("master", u, "termEnd")
          \/ V("termWrite", u, "user") \/ V("termRead", u, "user")
          \/ V("termRead", u, "term")
      BY <1>7 DEF AfterEvict, LoadFailed, PagerEnd, TermSignal, WriteEnd, ReadEnd,
         ReadChar, TermFree
    <3> QED  BY <1>2, <1>4, <3>1, <3>2
  <2> QED  BY <2>1, <2>2 DEF Out, SemStep
<1>8. CASE \E g \in Pages : Store(u, g) \/ Refill(u, g)
  <2>1. Out(pc[u]) /\ UNCHANGED <<pc, sems>>
    BY <1>2, <1>8 DEF Store, Refill, Accessing
  <2> QED  BY <2>1 DEF Out, SemStep
<1> QED  BY <1>5, <1>6, <1>7, <1>8 DEF OtherStep, PlainStep

(* Nobody else dies in it, and nobody is born.                             *)
LEMMA SemStepAlive ==
  ASSUME ControlInv, NEW u \in UProcs, OtherStep(u)
  PROVE  \A v \in Procs : pc'[v] = "absent" <=> pc[v] = "absent"
<1>1. pc[u] \notin Waits /\ pc[u] # "absent" /\ SemStep(u)
  BY SemSteps
<1>2. \A w \in Waits : w # "absent" /\ AfterWait[w] # "absent"
  BY DEF Waits, AfterWait
<1>3. UNCHANGED pc \/ (pc'[u] # "absent" /\ Others(u))
  <2>1. ASSUME NEW next \in Places \ {"absent"}, Goto(u, next)
        PROVE  pc'[u] # "absent" /\ Others(u)
    BY <2>1, GotoMove
  <2>2. ASSUME NEW k \in Sems, NEW w \in WaitPlaces(k), P(k, u, w)
        PROVE  pc'[u] # "absent" /\ Others(u)
    <3>1. w \in Waits
      BY WaitFacts
    <3> QED  BY <1>2, <2>2, <3>1, PMove
  <2>3. ASSUME NEW k \in Sems, NEW next \in Places \ {"absent"}, V(k, u, next)
        PROVE  pc'[u] # "absent" /\ Others(u)
    BY <1>1, <2>3, VMove
  <2> QED  BY <1>1, <2>1, <2>2, <2>3 DEF SemStep
<1> QED  BY <1>1, <1>2, <1>3, ProcFacts DEF Others

(* The disjuncts of Next by what they do to processes.                     *)
LEMMA StepKinds ==
  ASSUME Next
  PROVE  \/ UNCHANGED vars
         \/ TestJoin \/ TestEnd
         \/ \E u \in UProcs : \/ OtherStep(u) \/ TermEnd(u)
                              \/ \E n \in Programs, a \in Asids : Execute(u, n, a)
<1>1. ASSUME NEW u \in UProcs,
             Choice(u) \/ Access(u) \/ Pager(u) \/ Terminal(u) \/ Ending(u) \/ Device(u)
      PROVE  \/ OtherStep(u) \/ TermEnd(u)
             \/ \E n \in Programs, a \in Asids : Execute(u, n, a)
  BY <1>1 DEF Choice, Access, Pager, Terminal, Ending, Device, PlainStep, OtherStep
<1> QED  BY <1>1 DEF Next, Halted

(* Only the ends of processes kill, and they kill nobody who has a mutex   *)
(* or waits.                                                               *)
LEMMA Deaths ==
  ASSUME ControlInv, Next, NEW v \in UProcs, pc'[v] = "absent", pc[v] # "absent"
  PROVE  pc[v] \in NoMutex
<1>1. ASSUME NEW u \in UProcs, OtherStep(u)  PROVE FALSE
  BY <1>1, SemStepAlive, ProcFacts
<1>2. ASSUME NEW u \in UProcs, TermEnd(u)  PROVE pc[v] \in NoMutex
  <2>1. pc[u] = "termEnd" /\ TermProcess(u)
    BY <1>2 DEF TermEnd
  <2>2. u = ShellProc => Working = {}
    BY <2>1 DEF ControlInv, TurnInv, ExecPlaces
  <2>3. v \in Subtree(u)
    BY <2>1, ProcFacts DEF TermProcess
  <2> QED  BY <2>1, <2>2, <2>3, ProcFacts DEF Subtree, Working, NoMutex
<1>3. ASSUME NEW u \in UProcs, NEW n \in Programs, NEW a \in Asids, Execute(u, n, a)
      PROVE  FALSE
  <2>1. pc' = [pc EXCEPT ![u] = "execJoin", ![n] = "user"]
    BY <1>3 DEF Execute
  <2> QED  BY <2>1, ProcFacts DEF ControlInv, PlacesInv
<1>4. ASSUME TestEnd  PROVE pc[v] \in NoMutex
  <2>1. Working = {} /\ ~ShellRuns
    BY <1>4 DEF TestEnd, ControlInv, TurnInv, MasterSignalled
  <2> QED  BY <2>1, ProcFacts DEF Working, ShellRuns, NoMutex
<1>5. ASSUME TestJoin  PROVE FALSE
  BY <1>5, ProcFacts DEF TestJoin, P, Goto, ControlInv, PlacesInv
<1>6. ASSUME UNCHANGED vars  PROVE FALSE
  BY <1>6 DEF vars
<1> QED  BY <1>1, <1>2, <1>3, <1>4, <1>5, <1>6, StepKinds

(* Nobody is killed while it waits for a device: the nucleus would have to *)
(* take its word back (its softBlockCount and device semaphore).           *)
THEOREM DeviceWaitsSurvive == Spec => NoIoKilled
<1>1. ASSUME ControlInv, Next, NEW u \in AtDevice  PROVE pc'[u] # "absent"
  <2>1. u \in UProcs /\ pc[u] \notin NoMutex
    BY DEF AtDevice, NoMutex
  <2> QED  BY <1>1, <2>1, Deaths DEF NoMutex
<1>2. ControlInv /\ [Next]_vars => [\A u \in AtDevice : pc'[u] # "absent"]_vars
  BY <1>1
<1> QED  BY <1>2, SupportInductive, PTL DEF Spec, NoIoKilled
-----------------------------------------------------------------------------
(* The semaphores of the support level are those of the nucleus' promise.  *)

Alive == {u \in Procs : pc[u] # "absent"}

(* What Without leaves depends on the members of the queue only.           *)
LEMMA WithoutDepends ==
  ASSUME NEW q, NEW K, NEW L, \A i \in DOMAIN q : q[i] \in K <=> q[i] \in L
  PROVE  Without(q, K) = Without(q, L)
<1>1. Kept(q, K) = Kept(q, L)
  BY DEF Kept
<1> QED  BY <1>1 DEF Without

(* The operators of ProcQueue are the same in Semaphores.                  *)
LEMMA SupportPromisedWithout == \A q, K : Promised!Without(q, K) = Without(q, K)
<1>1. \A T : Promised!Cardinality(T) = Cardinality(T)
  BY DEF Promised!Cardinality, Cardinality
<1>2. \A q, K : Promised!Kept(q, K) = Kept(q, K)
  BY DEF Promised!Kept, Kept
<1>3. \A I, i : Promised!Rank(I, i) = Rank(I, i)
  BY <1>1 DEF Promised!Rank, Rank
<1> DEFINE old(I, j) == CHOOSE i \in I : Rank(I, i) = j - 1
           new(I, j) == CHOOSE i \in I : Promised!Rank(I, i) = j - 1
<1>4. \A I, j : new(I, j) = old(I, j)
  BY <1>3, Zenon
<1>5. \A q, K : Without(q, K) =
                  [j \in 1..Cardinality(Kept(q, K)) |-> q[old(Kept(q, K), j)]]
  BY DEF Without
<1>6. \A q, K : Promised!Without(q, K) =
        [j \in 1..Cardinality(Promised!Kept(q, K)) |-> q[new(Promised!Kept(q, K), j)]]
  BY <1>1 DEF Promised!Without
<1> HIDE DEF old, new
<1> QED
  BY <1>2, <1>4, <1>5, <1>6

(* TERMPROCESS takes the living members of the subtree out of all queues,  *)
(* as Die does.                                                            *)
LEMMA KillIsPromised ==
  ASSUME ControlInv, NEW u \in Procs, pc[u] # "absent", u \in Subtree(u), TermProcess(u)
  PROVE  Promised!Next
<1>0. PICK K \in SUBSET Procs : K = Subtree(u) \cap Alive
  BY DEF Alive
<1>1. /\ pc' = [v \in Procs |-> IF v \in Subtree(u) THEN "absent" ELSE pc[v]]
      /\ waiting' = [k \in Sems |-> Without(waiting[k], Subtree(u))]
      /\ UNCHANGED sem
  BY DEF TermProcess, sems
<1>2. K # {} /\ K \subseteq Alive /\ Alive' = Alive \ K
  BY <1>0, <1>1 DEF Alive
<1>3. ASSUME NEW k \in Sems
      PROVE  Without(waiting[k], Subtree(u)) = Without(waiting[k], K)
  <2>1. \A i \in DOMAIN waiting[k] : waiting[k][i] \in Range(waiting[k])
    BY DEF Range
  <2>2. \A v \in Range(waiting[k]) : v \in Procs /\ pc[v] \in WaitPlaces(k)
    BY DEF ControlInv, QueuesInv, Range
  <2>3. "absent" \notin WaitPlaces(k)
    BY DEF Sems, WaitPlaces
  <2>4. \A i \in DOMAIN waiting[k] : waiting[k][i] \in Alive
    BY <2>1, <2>2, <2>3 DEF Alive
  <2> QED  BY <1>0, <2>4, WithoutDepends
<1>4. waiting' = [k \in Sems |-> Promised!Without(waiting[k], K)]
  BY <1>1, <1>3, SupportPromisedWithout
<1>5. Promised!Die(K)
  BY <1>1, <1>2, <1>4 DEF Promised!Die, Alive
<1> QED  BY <1>5 DEF Promised!Next

(* Every step is one of the promised operations, or leaves the semaphores  *)
(* and the living as they are.                                             *)
LEMMA SupportStepIsPromised ==
  ASSUME ControlInv, Next
  PROVE  Promised!Next \/ UNCHANGED Promised!vars
<1>1. ASSUME NEW u \in UProcs, OtherStep(u)
      PROVE  Promised!Next \/ UNCHANGED Promised!vars
  <2>1. pc[u] \notin Waits \cup {"absent"} /\ SemStep(u) /\ u \in Procs
    BY <1>1, SemSteps, ProcFacts
  <2>2. UNCHANGED Alive
    BY <1>1, SemStepAlive DEF Alive
  <2>3. u \in Alive /\ ~Promised!Waits(u)
    <3>1. \A k \in Sems : u \notin Range(waiting[k])
      BY <2>1, WaitFacts DEF ControlInv, QueuesInv
    <3> QED  BY <2>1, <3>1 DEF Alive, Promised!Waits, Promised!Range, Range
  <2>4. CASE UNCHANGED sems
    BY <2>2, <2>4 DEF Promised!vars, Alive, sems
  <2>5. ASSUME NEW k \in Sems, NEW w, P(k, u, w)  PROVE Promised!P(u, k)
    BY <2>2, <2>3, <2>5 DEF Promised!P, P, Alive
  <2>6. ASSUME NEW k \in Sems, NEW next, V(k, u, next)  PROVE Promised!V(k)
    BY <2>2, <2>6 DEF Promised!V, V, Alive
  <2> QED  BY <2>1, <2>4, <2>5, <2>6 DEF SemStep, Promised!Next, sems
<1>2. ASSUME NEW u \in UProcs, TermEnd(u)  PROVE Promised!Next
  <2>1. pc[u] # "absent" /\ u \in Subtree(u) /\ TermProcess(u) /\ u \in Procs
    BY <1>2, ProcFacts DEF TermEnd, Subtree
  <2> QED  BY <2>1, KillIsPromised
<1>3. ASSUME TestEnd  PROVE Promised!Next
  <2>1. pc[Test] # "absent" /\ Test \in Subtree(Test) /\ TermProcess(Test)
    BY <1>3, ProcFacts DEF TestEnd, Subtree
  <2> QED  BY <2>1, KillIsPromised, ProcFacts
<1>4. ASSUME NEW u \in UProcs, NEW n \in Programs, NEW a \in Asids, Execute(u, n, a)
      PROVE  Promised!Next
  <2>1. /\ pc[u] = "user" /\ pc[n] = "absent" /\ UNCHANGED <<sem, waiting>>
        /\ pc' = [pc EXCEPT ![u] = "execJoin", ![n] = "user"]
    BY <1>4 DEF Execute, sems
  <2>2. n \in Procs \ Alive /\ Alive' = Alive \cup {n}
    BY <2>1, ProcFacts DEF Alive, ControlInv, PlacesInv
  <2>3. Promised!Create(n)
    BY <2>1, <2>2 DEF Promised!Create, Alive
  <2> QED  BY <2>2, <2>3 DEF Promised!Next
<1>5. ASSUME TestJoin  PROVE Promised!Next
  <2>1. pc[Test] = "testJoin" /\ P("master", Test, "testWait") /\ "master" \in Sems
    BY <1>5 DEF TestJoin, Sems
  <2>2. UNCHANGED Alive
    BY <2>1, ProcFacts DEF P, Goto, AfterWait, Alive, ControlInv, PlacesInv
  <2>3. Test \in Alive /\ ~Promised!Waits(Test)
    <3>1. \A k \in Sems : pc[Test] \notin WaitPlaces(k)
      BY <2>1 DEF Sems, WaitPlaces
    <3>2. \A k \in Sems : Test \notin Range(waiting[k])
      BY <3>1, ProcFacts DEF ControlInv, QueuesInv
    <3> QED  BY <2>1, <3>2, ProcFacts DEF Alive, Promised!Waits, Promised!Range, Range
  <2>4. Promised!P(Test, "master")
    BY <2>1, <2>2, <2>3 DEF Promised!P, P, Alive
  <2> QED  BY <2>1, <2>4, ProcFacts DEF Promised!Next
<1>6. UNCHANGED vars => UNCHANGED Promised!vars
  BY DEF vars, Promised!vars, sems
<1> QED  BY <1>1, <1>2, <1>3, <1>4, <1>5, <1>6, StepKinds

(* The support level stays within what the nucleus promises: whatever the  *)
(* flash devices answer, every step is a P of a process that waits for     *)
(* nothing else, a V, a birth or a death.                                  *)
THEOREM SupportUsesPromise == Spec => UsesPromisedSemaphores
<1>1. Init => Promised!Init
  <2> SUFFICES ASSUME Init PROVE Promised!Init
    OBVIOUS
  <2>1. sem \in [Sems -> Nat] /\ waiting = [k \in Sems |-> <<>>]
    BY DEF Init, InitialValue, Sems
  <2> QED  BY <2>1 DEF Promised!Init
<1>2. ControlInv /\ [Next]_vars => [Promised!Next]_(Promised!vars)
  <2>1. UNCHANGED vars => UNCHANGED Promised!vars
    BY DEF vars, Promised!vars, sems
  <2> QED  BY <2>1, SupportStepIsPromised
<1> QED  BY <1>1, <1>2, SupportInductive, PTL
            DEF Spec, UsesPromisedSemaphores, Promised!Spec
-----------------------------------------------------------------------------
(* Every support structure is free once or has one owner, where no flash   *)
(* operation fails: with errors test may end, and kill the shell, before   *)
(* the shell gave its structure back.                                      *)
THEOREM SupportsAccounted == Spec => [](~IoErrors => SupportAccounted)
<1>1. ASSUME DataInv, ~IoErrors  PROVE SupportAccounted
  <2> SUFFICES ASSUME NEW s \in Sups
               PROVE  Cardinality({i \in DOMAIN supFree : supFree[i] = s})
                        + Cardinality({u \in UProcs : sup[u] = s /\ HasSup(u)}) = 1
    BY DEF SupportAccounted, HasSup
  <2> DEFINE I == {i \in DOMAIN supFree : supFree[i] = s}
             U == {u \in UProcs : sup[u] = s /\ HasSup(u)}
  <2>1. CASE s \in Range(supFree)
    <3>1. PICK i \in DOMAIN supFree : supFree[i] = s
      BY <2>1 DEF Range
    <3>2. I = {i}
      BY <1>1, <3>1 DEF DataInv, SupInv, IsInjective
    <3>3. U = {}
      BY <1>1, <2>1 DEF DataInv, SupInv
    <3>4. Cardinality(I) = 1
      BY <3>2, FS_Singleton
    <3>5. Cardinality(U) = 0
      BY <3>3, FS_EmptySet
    <3> QED  BY <3>4, <3>5
  <2>2. CASE s \notin Range(supFree)
    <3>1. PICK u \in UProcs : HasSup(u) /\ sup[u] = s
      BY <1>1, <2>2 DEF DataInv, SupInv
    <3>2. U = {u}
      BY <1>1, <3>1 DEF DataInv, SupInv
    <3>3. I = {}
      BY <2>2 DEF Range
    <3>4. Cardinality(I) = 0
      BY <3>3, FS_EmptySet
    <3>5. Cardinality(U) = 1
      BY <3>2, FS_Singleton
    <3> QED  BY <3>4, <3>5
  <2> QED  BY <2>1, <2>2
<1>2. DataInv => (~IoErrors => SupportAccounted)
  BY <1>1
<1> QED  BY <1>2, SupportInductive, PTL
=============================================================================
