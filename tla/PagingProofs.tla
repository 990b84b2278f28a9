---------------------------- MODULE PagingProofs ----------------------------
(***************************************************************************)
(* Demand paging for every number of programs, pages, frames and ASIDs:    *)
(* swap pool table, page tables and TLB agree, no store is lost between    *)
(* frames and flash devices, and what programs see is private memory.      *)
(*                                                                         *)
(* Where no flash operation fails: after a failed operation a frame's      *)
(* record names a page that is not valid, and may go on doing so (see the  *)
(* hazards).  The TLB and the stores also need that no program is executed *)
(* twice: the code leaves the TLB entries of a terminated program behind.  *)
(***************************************************************************)
EXTENDS SupportProofs

(* Places by what the pager does there: a frame is in transit; the page    *)
(* that faulted is not valid yet; the process has nothing of its own left. *)
Transit == {"evicting", "evicted", "loading", "loaded"}
Pre     == {"pagerWait", "pagerHold"} \cup Transit
NoOwner == NoSup \cup {"termFreed"}

Record(u, g) == [asid |-> AsidOf(u), pageNo |-> g, sup |-> sup[u]]

(* The page of a process in the pager is not valid.                        *)
FaultInv ==
  \A u \in UProcs : pc[u] \in Pre => pgtbl[sup[u]].entry[page[u]] = Invalid

(* Nor is a page with a TLB entry that says so, ...                        *)
TlbInvalid ==
  \A u \in Owners : \A g \in Pages :
    tlb[AsidOf(u)][g] = Invalid => pgtbl[sup[u]].entry[g] = Invalid

(* ... nor is the page that is being written out.                          *)
EvictInv ==
  \A w \in UProcs : pc[w] = "evicting" =>
    pgtbl[swap_pool[frame[w]].sup].entry[swap_pool[frame[w]].pageNo] = Invalid

TableInv == FramesOwned /\ PageTableAgrees /\ FaultInv /\ TlbInvalid /\ EvictInv

(* An ASID that has not run has left nothing in the TLB.                   *)
TlbInv ==
  /\ TlbAgrees
  /\ \A u \in Owners : AsidOf(u) \in executed \cup {SHELL_ASID}
  /\ \A a \in Asids : a \notin executed \cup {SHELL_ASID} =>
                        \A g \in Pages : tlb[a][g] = Absent

(* A page that is being written out.                                       *)
Leaving(a, g) ==
  \E w \in UProcs : /\ pc[w] = "evicting"
                    /\ swap_pool[frame[w]].asid = a
                    /\ swap_pool[frame[w]].pageNo = g

Contents(a, g) == {Content(a, g, v) : v \in 0..(Versions - 1)}
AllContents    == UNION {Contents(a, g) : a \in Asids \cup {0}, g \in Pages \cup {0}}
Blocks         == [Asids -> [Pages -> AllContents]]

(* Where what a program stored last in a page is: in the page's frame, in  *)
(* the frame that is being written out, in its block of the flash device.  *)
InFrame ==
  \A u \in Owners : \A g \in Pages :
    pgtbl[sup[u]].entry[g] # Invalid =>
      mem[pgtbl[sup[u]].entry[g]] = latest[AsidOf(u)][g]

OnTheWay ==
  \A u \in Owners : \A g \in Pages : \A w \in UProcs :
    /\ pc[w] = "evicting"
    /\ swap_pool[frame[w]].asid = AsidOf(u)
    /\ swap_pool[frame[w]].pageNo = g
    => mem[frame[w]] = latest[AsidOf(u)][g]

InFlash ==
  \A u \in Owners : \A g \in Pages :
    pgtbl[sup[u]].entry[g] = Invalid /\ ~Leaving(AsidOf(u), g)
      => flash[AsidOf(u)][g] = latest[AsidOf(u)][g]

Loaded ==
  \A u \in UProcs :
    pc[u] = "loaded" => mem[frame[u]] = latest[AsidOf(u)][page[u]]

ContentTyped ==
  /\ mem \in [Frames -> AllContents] /\ latest \in Blocks /\ flash \in Blocks
  /\ \A a \in Asids : \A g \in Pages :
       latest[a][g] \in Contents(a, g) /\ flash[a][g] \in Contents(a, g)

StoreInv == InFrame /\ OnTheWay /\ InFlash /\ Loaded /\ ContentTyped
-----------------------------------------------------------------------------
(* Owners and holders.                                                     *)

(* An owner has one support structure and one ASID, and nobody else has    *)
(* them: the shell's ASID is 1, and one program works at a time.           *)
LEMMA OwnerFacts ==
  ASSUME ControlInv, DataInv, ~IoErrors
  PROVE  /\ \A u \in Owners :
              /\ u \in UProcs /\ HasSup(u) /\ sup[u] \in Sups
              /\ AsidOf(u) \in Asids /\ AsidOf(u) = asid[u]
              /\ pgtbl[sup[u]].asid = AsidOf(u)
              /\ sup[u] \notin Range(supFree)
         /\ \A u, v \in Owners : sup[u] = sup[v] => u = v
         /\ \A u, v \in Owners : AsidOf(u) = AsidOf(v) => u = v
         /\ \A u \in UProcs : u \in Owners <=> pc[u] \notin NoOwner
<1>1. ASSUME NEW u \in Owners
      PROVE  /\ u \in UProcs /\ HasSup(u) /\ sup[u] \in Sups
             /\ AsidOf(u) \in Asids /\ AsidOf(u) = asid[u]
             /\ pgtbl[sup[u]].asid = AsidOf(u)
             /\ sup[u] \notin Range(supFree)
             /\ \A v \in UProcs : HasSup(v) /\ sup[v] = sup[u] => v = u
  <2>1. u \in UProcs /\ HasSup(u)
    BY DEF Owners, HasSup
  <2> QED  BY <2>1 DEF DataInv, DataTyped, SupInv, AsidOf
<1>2. ASSUME NEW u \in Owners, NEW v \in Owners, AsidOf(u) = AsidOf(v)
      PROVE  u = v
  <2>1. \A w \in {u, v} : /\ w \in UProcs /\ pc[w] # "absent"
                          /\ asid[w] = SHELL_ASID <=> w = ShellProc
                          /\ w \in Programs => w \in Working
    BY DEF Owners, ControlInv, SignalInv, Working
  <2>2. asid[u] = asid[v]
    BY <1>1, <1>2
  <2> QED  BY <2>1, <2>2, ProcFacts DEF ControlInv, TurnInv
<1>3. \A u \in UProcs : u \in Owners <=> pc[u] \notin NoOwner
  BY DEF Owners, NoOwner, NoSup
<1> QED  BY <1>1, <1>2, <1>3

(* With the swap pool in the hands of u no other frame is in transit.      *)
LEMMA Alone ==
  ASSUME ControlInv, NEW u \in UProcs, pc[u] \in SwapHeld \cup {"termHold"}
  PROVE  \A v \in UProcs : pc[v] \in SwapHeld \cup {"termHold"} => v = u
  BY DEF ControlInv, MutexInv, Mutexes, Holds, Holding

(* A process in the pager is an owner.                                     *)
LEMMA PagerOwns ==
  \A u \in UProcs : pc[u] \in Pre \cup {"user", "readStore", "writeHold", "termHold"}
    => u \in Owners
  BY DEF Owners, Pre, Transit

(* Places between which a process stays an owner or not and touches no     *)
(* frame.                                                                  *)
Calm(s, t) ==
  /\ s \in NoOwner <=> t \in NoOwner
  /\ s = t \/ (s \notin Transit /\ t \notin Transit)
  /\ t \in Pre => s \in Pre

(* A step that leaves the others to wait, or wakes them, changes nothing   *)
(* for the pager in their places.                                          *)
LEMMA AllCalm ==
  ASSUME ControlInv, NEW u \in UProcs, Others(u)
  PROVE  \A v \in UProcs : v # u => Calm(pc[v], pc'[v])
<1>1. \A w \in Waits : Calm(w, AfterWait[w])
  BY DEF Waits, AfterWait, Calm, NoOwner, NoSup, Pre, Transit
<1>2. \A s : Calm(s, s)
  BY DEF Calm
<1> QED  BY <1>1, <1>2, ProcFacts DEF Others
-----------------------------------------------------------------------------
(* The plain steps once more, by what they are to the pager.               *)

(* A step of u that leaves frames and pages in the pager where they are.   *)
CalmStep(u) ==
  /\ Calm(pc[u], pc'[u]) /\ UNCHANGED page
  /\ \/ UNCHANGED memory
     \/ pc[u] \in {"user", "readStore"} /\ \E g \in Pages : StoreTo(u, g)

(* Without errors the ways out of the pager in its middle are not taken.   *)
LEMMA PlainKinds ==
  ASSUME ControlInv, ~IoErrors, NEW u \in UProcs, PlainStep(u)
  PROVE  /\ Others(u)
         /\ \/ CalmStep(u)
            \/ FlashWrite(u) /\ pc'[u] = "evicted"
            \/ FlashRead(u) /\ pc'[u] = "loaded"
            \/ /\ pc[u] = "evicted" /\ pc'[u] = "loading" /\ UNCHANGED <<page, memory>>
            \/ \E g \in Pages : PageFault(u, g) /\ pc'[u] \in {"pagerWait", "pagerHold"}
<1>1. back[u] \in Backs /\ status[u] = 1 /\ u \in Procs
  BY ProcFacts DEF ControlInv, PlacesInv, StatusInv, Backs
<1>2. Others(u)
  BY PlainMoves
<1>3. CASE FlashWrite(u)
  BY <1>2, <1>3, GotoMove DEF FlashWrite
<1>4. CASE FlashRead(u)
  BY <1>2, <1>4, GotoMove DEF FlashRead
<1>5. CASE AfterEvict(u)
  <2>1. pc[u] = "evicted" /\ Goto(u, "loading") /\ UNCHANGED <<page, memory>>
    BY <1>1, <1>5 DEF AfterEvict
  <2> QED  BY <1>2, <2>1, GotoMove
<1>6. CASE \E g \in Pages : PageFault(u, g)
  <2>1. PICK g \in Pages : PageFault(u, g)
    BY <1>6
  <2>2. P("swapPool", u, "pagerWait")
    BY <2>1 DEF PageFault
  <2> QED  BY <1>2, <2>1, <2>2, PMove DEF AfterWait
<1>7. CASE LoadFailed(u)
  BY <1>1, <1>7 DEF LoadFailed
<1>8. CASE \/ Terminate(u) \/ WriteDone(u) \/ WriteEmpty(u) \/ ReadDone(u)
           \/ ReadChar(u) /\ Goto(u, "readIo")
           \/ \E g \in Pages : WriteChar(u, g)
  <2>1. PICK next \in {"term", "writeHold", "writeEnd", "writeIo", "readIo", "readStore",
                       "readEnd"} :
          Goto(u, next) /\ Calm(pc[u], next)
    BY <1>8 DEF Terminate, WriteDone, WriteEmpty, ReadDone, ReadChar, WriteChar, Calm,
       NoOwner, NoSup, Pre, Transit
  <2>2. UNCHANGED <<page, memory>>
    BY <1>8 DEF Terminate, WriteDone, WriteEmpty, ReadDone, ReadChar, WriteChar, local
  <2> QED  BY <1>2, <2>1, <2>2, GotoMove DEF CalmStep
<1>9. CASE TermBegin(u) \/ ExecuteJoin(u) \/ WriteTerminal(u) \/ ReadTerminal(u)
  <2>1. UNCHANGED <<page, memory>>
    BY <1>9 DEF TermBegin, ExecuteJoin, WriteTerminal, ReadTerminal, local
  <2>2. PICK k \in Sems, w \in {"termWait", "execWait", "writeWait", "readWait"} :
          P(k, u, w) /\ Calm(pc[u], w) /\ Calm(pc[u], AfterWait[w])
    <3>1. \A k : k \in {"swapPool", "shell", "termWrite", "termRead"} => k \in Sems
      BY DEF Sems
    <3>2. \/ P("swapPool", u, "termWait") /\ pc[u] = "term"
          \/ P("shell", u, "execWait") /\ pc[u] = "execJoin"
          \/ P("termWrite", u, "writeWait") /\ pc[u] = "user"
          \/ P("termRead", u, "readWait") /\ pc[u] = "user"
      BY <1>9 DEF TermBegin, ExecuteJoin, WriteTerminal, ReadTerminal
    <3>3. /\ pc[u] = "term" => Calm(pc[u], "termWait") /\ Calm(pc[u], "termHold")
          /\ pc[u] = "execJoin" => Calm(pc[u], "execWait") /\ Calm(pc[u], "user")
          /\ pc[u] = "user" => /\ Calm(pc[u], "writeWait") /\ Calm(pc[u], "writeHold")
                               /\ Calm(pc[u], "readWait") /\ Calm(pc[u], "readHold")
      BY DEF Calm, NoOwner, NoSup, Pre, Transit
    <3> HIDE DEF Sems
    <3> QED  BY <3>1, <3>2, <3>3 DEF AfterWait
  <2> QED  BY <1>2, <2>1, <2>2, PMove DEF CalmStep
<1>10. CASE \/ PagerEnd(u) \/ TermSignal(u) \/ WriteEnd(u) \/ ReadEnd(u)
            \/ ReadChar(u) /\ V("termRead", u, "term")
  <2>1. UNCHANGED <<page, memory>>
    BY <1>10 DEF PagerEnd, TermSignal, WriteEnd, ReadEnd, ReadChar, local
  <2>2. PICK k \in Sems, next \in Backs \cup {"term", "termEnd"} :
          /\ V(k, u, next) /\ Calm(pc[u], next) /\ pc[u] \notin Waits
    <3>1. \A k : k \in {"swapPool", "shell", "master", "termWrite", "termRead"} => k \in Sems
      BY DEF Sems
    <3>2. \/ V("swapPool", u, back[u]) /\ pc[u] = "pagerEnd"
          \/ V("shell", u, "termEnd") /\ pc[u] = "termSignal"
          \/ V("master", u, "termEnd") /\ pc[u] = "termSignal"
          \/ V("termWrite", u, "user") /\ pc[u] = "writeEnd"
          \/ V("termRead", u, "user") /\ pc[u] = "readEnd"
          \/ V("termRead", u, "term") /\ pc[u] = "readHold"
      BY <1>10 DEF PagerEnd, TermSignal, WriteEnd, ReadEnd, ReadChar
    <3>3. /\ pc[u] = "readHold" => Calm(pc[u], "term")
          /\ pc[u] = "termSignal" => Calm(pc[u], "termEnd")
          /\ pc[u] \in {"writeEnd", "readEnd"} => Calm(pc[u], "user")
          /\ pc[u] = "pagerEnd" => Calm(pc[u], back[u])
      BY <1>1 DEF Backs, Calm, NoOwner, NoSup, Pre, Transit
    <3>4. pc[u] \in {"readHold", "termSignal", "writeEnd", "readEnd", "pagerEnd"}
            => pc[u] \notin Waits
      BY DEF Waits, AfterWait
    <3>5. "user" \in Backs
      BY DEF Backs
    <3> HIDE DEF Sems, Waits
    <3> QED  BY <1>1, <3>1, <3>2, <3>3, <3>4, <3>5
  <2> QED  BY <1>2, <2>1, <2>2, VMove DEF CalmStep
<1>11. CASE \E g \in Pages : Store(u, g) \/ ReadStore(u, g)
  <2>1. PICK g \in Pages : StoreTo(u, g) /\ UNCHANGED page
    BY <1>11 DEF Store, ReadStore, local
  <2>2. pc[u] \in {"user", "readStore"} /\ pc'[u] \in {"user", "readHold", "readEnd"}
    <3>1. CASE \E h \in Pages : Store(u, h)
      BY <3>1 DEF Store
    <3>2. CASE \E h \in Pages : ReadStore(u, h)
      BY <3>2, GotoMove DEF ReadStore
    <3> QED  BY <1>11, <3>1, <3>2
  <2>3. Calm(pc[u], pc'[u])
    BY <2>2 DEF Calm, NoOwner, NoSup, Pre, Transit
  <2> QED  BY <1>2, <2>1, <2>2, <2>3 DEF CalmStep
<1> QED  BY <1>3, <1>4, <1>5, <1>6, <1>7, <1>8, <1>9, <1>10, <1>11 DEF PlainStep, ReadChar

(* They leave the tables alone.                                            *)
LEMMA PlainTables ==
  ASSUME NEW u \in UProcs, PlainStep(u)
  PROVE  UNCHANGED <<sup, frame, supFree, sup_asid, pgtbl, swap_pool, frameIndex,
                     tlb, executed>>
  BY DEF PlainStep, FlashWrite, FlashRead, AfterEvict, LoadFailed, PagerEnd, Terminate,
     TermBegin, TermSignal, ExecuteJoin, WriteTerminal, WriteDone, WriteEmpty, WriteEnd,
     ReadTerminal, ReadChar, ReadDone, ReadEnd, Store, PageFault, WriteChar, ReadStore,
     StoreTo, local, sups, pool, memory
-----------------------------------------------------------------------------
(* Swap pool table, page tables and TLB through every step.                *)

(* The same owners, tables and frames in transit.                          *)
LEMMA SameTable ==
  ASSUME TableInv, UNCHANGED <<sup, frame, sup_asid, pgtbl, swap_pool>>,
         \A v \in UProcs : /\ v \in Owners' <=> v \in Owners
                           /\ pc'[v] \in Transit <=> pc[v] \in Transit
                           /\ pc'[v] = "evicting" => pc[v] = "evicting",
         FaultInv', TlbInvalid'
  PROVE  TableInv'
<1>1. /\ Owners' = Owners /\ UNCHANGED <<pgtbl, swap_pool, sup>>
      /\ \A u : AsidOf(u)' = AsidOf(u)
      /\ \A f \in Frames : InTransit(f)' <=> InTransit(f)
  BY DEF Owners, AsidOf, InTransit, Transit
<1>2. FramesOwned'
  BY <1>1 DEF TableInv, FramesOwned
<1>3. PageTableAgrees'
  BY <1>1 DEF TableInv, PageTableAgrees
<1>4. EvictInv'
  BY DEF TableInv, EvictInv
<1> QED  BY <1>2, <1>3, <1>4 DEF TableInv

(* A step that writes no table keeps TableInv: only places change, and     *)
(* they change between places of the same kind.                            *)
LEMMA PlainTable ==
  ASSUME ControlInv, DataInv, ~IoErrors, TableInv, NEW u \in UProcs, PlainStep(u)
  PROVE  TableInv'
<1>1. /\ UNCHANGED <<sup, frame, sup_asid, pgtbl, swap_pool, tlb>>
      /\ \A v \in UProcs \ {u} : Calm(pc[v], pc'[v])
  BY PlainTables, PlainKinds, AllCalm
<1>2. /\ pc'[u] \in NoOwner <=> pc[u] \in NoOwner
      /\ pc'[u] \in Transit <=> pc[u] \in Transit
      /\ pc'[u] = "evicting" => pc[u] = "evicting"
  <2>1. CASE CalmStep(u)
    BY <2>1 DEF CalmStep, Calm, Transit
  <2>2. CASE \/ FlashWrite(u) /\ pc'[u] = "evicted"
             \/ FlashRead(u) /\ pc'[u] = "loaded"
             \/ pc[u] = "evicted" /\ pc'[u] = "loading"
    BY <2>2 DEF FlashWrite, FlashRead, NoOwner, NoSup, Transit
  <2>3. CASE \E g \in Pages : PageFault(u, g) /\ pc'[u] \in {"pagerWait", "pagerHold"}
    BY <2>3 DEF PageFault, Accessing, NoOwner, NoSup, Transit
  <2> QED  BY <2>1, <2>2, <2>3, PlainKinds
<1>3. \A v \in UProcs : /\ pc'[v] \in NoOwner <=> pc[v] \in NoOwner
                        /\ pc'[v] \in Transit <=> pc[v] \in Transit
                        /\ pc'[v] = "evicting" => pc[v] = "evicting"
  BY <1>1, <1>2 DEF Calm, Transit
<1>4. \A v \in UProcs : v \in Owners' <=> v \in Owners
  BY <1>3 DEF Owners, NoOwner, NoSup
<1>5. TlbInvalid'
  BY <1>1, <1>4 DEF TableInv, TlbInvalid, AsidOf, Owners
<1>6. FaultInv'
  <2> SUFFICES ASSUME NEW v \in UProcs, pc'[v] \in Pre
               PROVE  pgtbl[sup[v]].entry[page'[v]] = Invalid
    BY <1>1 DEF FaultInv
  <2>1. CASE pc[v] \in Pre /\ page'[v] = page[v]
    BY <2>1 DEF TableInv, FaultInv
  <2>2. CASE ~(pc[v] \in Pre /\ page'[v] = page[v])
    <3>1. CASE \E g \in Pages : PageFault(u, g)
      <4>1. PICK g \in Pages : PageFault(u, g)
        BY <3>1
      <4>2. page' = [page EXCEPT ![u] = g] /\ Entry(u, g) = Invalid /\ Accessing(u)
        BY <4>1 DEF PageFault
      <4>3. v = u /\ page'[v] = g
        BY <1>1, <2>2, <4>2 DEF Calm, DataInv, DataTyped
      <4>4. u \in Owners /\ AsidOf(u) = asid[u]
        BY <4>2, PagerOwns, OwnerFacts DEF Accessing
      <4> QED  BY <4>2, <4>3, <4>4 DEF TableInv, TlbInvalid, Entry
    <3>2. CASE ~ \E g \in Pages : PageFault(u, g)
      <4>1. UNCHANGED page /\ (pc'[u] \in Pre => pc[u] \in Pre)
        BY <3>2, PlainKinds DEF CalmStep, Calm, FlashWrite, FlashRead, Pre, Transit
      <4> QED  BY <1>1, <2>2, <4>1 DEF Calm
    <3> QED  BY <3>1, <3>2
  <2> QED  BY <2>1, <2>2
<1> QED  BY <1>1, <1>3, <1>4, <1>5, <1>6, SameTable

(* An entry of v becomes e in its page table; in the TLB it is e, or gone. *)
EntrySet(v, g, e) ==
  \A w \in Owners : \A h \in Pages :
    pgtbl'[sup[w]].entry[h] = IF w = v /\ h = g THEN e ELSE pgtbl[sup[w]].entry[h]

TlbSet(v, g, e) ==
  /\ tlb'[AsidOf(v)][g] \in {Absent, e}
  /\ \A a \in Asids : \A h \in Pages :
       a # AsidOf(v) \/ h # g => tlb'[a][h] \in {Absent, tlb[a][h]}

(* What a refill does to the TLB.                                          *)
LEMMA RefillFacts ==
  ASSUME ControlInv, DataInv, ~IoErrors, NEW u \in UProcs, NEW g \in Pages, Refill(u, g)
  PROVE  /\ u \in Owners /\ TlbSet(u, g, pgtbl[sup[u]].entry[g])
         /\ EntrySet(u, g, pgtbl[sup[u]].entry[g])
         /\ UNCHANGED <<pc, sup, page, frame, sup_asid, pgtbl, swap_pool, executed>>
         /\ UNCHANGED <<mem, flash, latest>>
<1>1. UNCHANGED <<pc, sup, page, frame, sup_asid, pgtbl, swap_pool, executed>>
      /\ UNCHANGED <<mem, flash, latest>>
  BY DEF Refill, local, sups, pool
<1>2. u \in Owners /\ TLBWR(AsidOf(u), g, pgtbl[sup[u]].entry[g])
  <2>1. u \in Owners
    BY PagerOwns DEF Refill, Accessing
  <2> QED  BY <2>1, OwnerFacts DEF Refill
<1>3. TlbSet(u, g, pgtbl[sup[u]].entry[g])
  <2>1. AsidOf(u) \in Asids /\ sup[u] \in Sups /\ tlb \in Tlbs
    BY <1>2, OwnerFacts, TypedTables DEF DataInv
  <2>2. pgtbl[sup[u]].entry[g] \in TlbEntries
    BY <2>1, TypedTables DEF DataInv, Table, TlbEntries
  <2>3. /\ tlb'[AsidOf(u)][g] = pgtbl[sup[u]].entry[g]
        /\ \A c \in Asids, i \in Pages :
             c # AsidOf(u) \/ i # g => tlb'[c][i] \in {Absent, tlb[c][i]}
    BY <1>2, <2>1, <2>2, TlbwrFacts
  <2> QED  BY <2>3 DEF TlbSet
<1>4. EntrySet(u, g, pgtbl[sup[u]].entry[g])
  BY <1>1 DEF EntrySet
<1> QED  BY <1>1, <1>2, <1>3, <1>4

(* An entry that comes from a table says what the table says.              *)
LEMMA RefillTable ==
  ASSUME ControlInv, DataInv, ~IoErrors, TableInv, NEW u \in UProcs, NEW g \in Pages,
         Refill(u, g)
  PROVE  TableInv'
<1>1. /\ u \in Owners /\ TlbSet(u, g, pgtbl[sup[u]].entry[g])
      /\ UNCHANGED <<pc, sup, page, frame, sup_asid, pgtbl, swap_pool>>
  BY RefillFacts
<1>2. TlbInvalid'
  <2> SUFFICES ASSUME NEW v \in Owners, NEW i \in Pages, tlb'[AsidOf(v)][i] = Invalid
               PROVE  pgtbl[sup[v]].entry[i] = Invalid
    BY <1>1 DEF TlbInvalid, Owners, AsidOf
  <2>1. CASE v = u /\ i = g
    BY <1>1, <2>1 DEF TlbSet, Absent, Invalid
  <2>2. CASE ~(v = u /\ i = g)
    <3>1. AsidOf(v) \in Asids /\ (AsidOf(v) # AsidOf(u) \/ i # g)
      BY <1>1, <2>2, OwnerFacts
    <3>2. tlb[AsidOf(v)][i] = Invalid
      BY <1>1, <3>1 DEF TlbSet, Absent, Invalid
    <3> QED  BY <3>2 DEF TableInv, TlbInvalid
  <2> QED  BY <2>1, <2>2
<1>3. FaultInv'
  BY <1>1 DEF TableInv, FaultInv
<1> QED  BY <1>1, <1>2, <1>3, SameTable DEF Owners

(* The record of an occupied frame leads to its owner's table; a frame     *)
(* that is not in transit is in the entry that its record names.           *)
LEMMA RecordFacts ==
  ASSUME ControlInv, DataInv, ~IoErrors, TableInv, NEW f \in Frames,
         swap_pool[f] # FreeFrame
  PROVE  \E v \in Owners : \E g \in Pages :
           /\ swap_pool[f] = Record(v, g)
           /\ swap_pool[f].asid = AsidOf(v) /\ swap_pool[f].sup = sup[v]
           /\ swap_pool[f].pageNo = g
           /\ ~InTransit(f) => pgtbl[sup[v]].entry[g] = f
<1>1. PICK v \in Owners : AsidOf(v) = swap_pool[f].asid /\ sup[v] = swap_pool[f].sup
  BY DEF TableInv, FramesOwned
<1>2. swap_pool[f] \in [asid : Asids, pageNo : Pages, sup : Sups]
  BY DEF DataInv, DataTyped
<1>3. PICK g \in Pages : swap_pool[f].pageNo = g
  BY <1>2
<1>4. swap_pool[f] = Record(v, g)
  BY <1>1, <1>2, <1>3 DEF Record
<1>5. ~InTransit(f) => pgtbl[sup[v]].entry[g] = f
  BY <1>4 DEF TableInv, PageTableAgrees, Record
<1> QED  BY <1>1, <1>3, <1>4, <1>5

(* What a valid entry says, and what a record says.                        *)
LEMMA TableFacts ==
  ASSUME TableInv, NEW v \in Owners, NEW g \in Pages, NEW f \in Frames
  PROVE  /\ pgtbl[sup[v]].entry[g] = f => swap_pool[f] = Record(v, g) /\ ~InTransit(f)
         /\ swap_pool[f] = Record(v, g) /\ ~InTransit(f) => pgtbl[sup[v]].entry[g] = f
  BY DEF TableInv, PageTableAgrees, Record

(* A record names one owner and one page.                                  *)
LEMMA RecordUnique ==
  ASSUME ControlInv, DataInv, ~IoErrors, NEW v \in Owners, NEW w \in Owners,
         NEW g \in Pages, NEW h \in Pages, Record(v, g) = Record(w, h)
  PROVE  v = w /\ g = h
<1>1. sup[v] = sup[w] /\ g = h
  BY DEF Record
<1> QED  BY <1>1, OwnerFacts

(* What pageReplacement and writeToDevice do before the frame is written.  *)
LEMMA EvictFacts ==
  ASSUME ControlInv, DataInv, ~IoErrors, TableInv, NEW u \in UProcs, Evict(u)
  PROVE  /\ pc[u] = "pagerHold" /\ Replaced \in Frames
         /\ frame'[u] = Replaced /\ pc'[u] \in {"loading", "evicting"}
         /\ \A w \in UProcs : w # u => pc'[w] = pc[w] /\ frame'[w] = frame[w]
         /\ \A w \in UProcs : pc[w] \notin Transit
         /\ UNCHANGED <<sup, page, sup_asid, swap_pool, mem, flash, latest, executed>>
         /\ \/ /\ swap_pool[Replaced] = FreeFrame /\ pc'[u] = "loading"
               /\ UNCHANGED <<pgtbl, tlb>>
            \/ \E v \in Owners : \E g \in Pages :
                 /\ pc'[u] = "evicting"
                 /\ swap_pool[Replaced] = Record(v, g)
                 /\ pgtbl[sup[v]].entry[g] = Replaced
                 /\ EntrySet(v, g, Invalid) /\ TlbSet(v, g, Invalid)
<1>1. /\ pc[u] = "pagerHold" /\ frame' = [frame EXCEPT ![u] = Replaced]
      /\ UNCHANGED <<sup, page, sup_asid, swap_pool, mem, flash, latest, executed>>
  BY DEF Evict
<1>2. \/ FreeFrames # {} /\ Goto(u, "loading") /\ UNCHANGED <<pgtbl, tlb>>
      \/ /\ FreeFrames = {} /\ Goto(u, "evicting")
         /\ pgtbl' = EntryOff(swap_pool[Replaced].sup, swap_pool[Replaced].pageNo)
         /\ tlb' = Rewritten(pgtbl[swap_pool[Replaced].sup].asid,
                             swap_pool[Replaced].pageNo, Invalid)
  BY DEF Evict
<1>3. /\ Replaced \in Frames
      /\ FreeFrames # {} => swap_pool[Replaced] = FreeFrame
      /\ FreeFrames = {} => swap_pool[Replaced] # FreeFrame
  BY ReplacedFrame DEF FreeFrames, DataInv
<1>4. /\ frame'[u] = Replaced
      /\ \A w \in UProcs : w # u => frame'[w] = frame[w]
  BY <1>1 DEF DataInv, DataTyped
<1>5. /\ pc'[u] \in {"loading", "evicting"}
      /\ \A w \in UProcs : w # u => pc'[w] = pc[w]
      /\ FreeFrames # {} => pc'[u] = "loading"
      /\ FreeFrames = {} => pc'[u] = "evicting"
  BY <1>2, ProcFacts DEF Goto, ControlInv, PlacesInv
<1>6. \A w \in UProcs : pc[w] \notin Transit
  BY <1>1, Alone DEF SwapHeld, Transit
<1>7. CASE FreeFrames # {}
  BY <1>1, <1>2, <1>3, <1>4, <1>5, <1>6, <1>7
<1>8. CASE FreeFrames = {}
  <2>1. ~InTransit(Replaced)
    BY <1>6 DEF InTransit, Transit
  <2>2. PICK v \in Owners, g \in Pages :
          /\ swap_pool[Replaced] = Record(v, g)
          /\ swap_pool[Replaced].sup = sup[v] /\ swap_pool[Replaced].pageNo = g
          /\ pgtbl[sup[v]].entry[g] = Replaced
    BY <1>3, <1>8, <2>1, RecordFacts
  <2>3. sup[v] \in Sups /\ pgtbl[sup[v]].asid = AsidOf(v) /\ AsidOf(v) \in Asids
    BY OwnerFacts
  <2>4. EntrySet(v, g, Invalid)
    <3>1. pgtbl' = [pgtbl EXCEPT ![sup[v]].entry[g] = Invalid]
      BY <1>2, <1>8, <2>2 DEF EntryOff
    <3>2. ASSUME NEW w \in Owners, NEW h \in Pages
          PROVE  [pgtbl EXCEPT ![sup[v]].entry[g] = Invalid][sup[w]].entry[h]
                   = IF w = v /\ h = g THEN Invalid ELSE pgtbl[sup[w]].entry[h]
      <4>1. sup[w] \in Sups /\ (sup[w] = sup[v] => w = v)
        BY OwnerFacts
      <4>2. pgtbl \in [Sups -> Table] /\ Invalid \in Frames \cup {Invalid}
        BY TypedTables DEF DataInv
      <4>3. [pgtbl EXCEPT ![sup[v]].entry[g] = Invalid][sup[w]].entry[h]
              = IF sup[w] = sup[v] /\ h = g THEN Invalid ELSE pgtbl[sup[w]].entry[h]
        <5> DEFINE new == [pgtbl EXCEPT ![sup[v]].entry[g] = Invalid]
        <5>1. \A r \in Sups : \A i \in Pages :
                new[r].entry[i] = IF r = sup[v] /\ i = g THEN Invalid ELSE pgtbl[r].entry[i]
          BY <2>3, <4>2 DEF Table
        <5> HIDE DEF new
        <5>2. new[sup[w]].entry[h]
                = IF sup[w] = sup[v] /\ h = g THEN Invalid ELSE pgtbl[sup[w]].entry[h]
          BY <4>1, <5>1
        <5> QED  BY <5>2 DEF new
      <4> QED  BY <4>1, <4>3
    <3> QED  BY <3>1, <3>2 DEF EntrySet
  <2>5. TlbSet(v, g, Invalid)
    <3>1. tlb' = Rewritten(AsidOf(v), g, Invalid)
      BY <1>2, <1>8, <2>2, <2>3
    <3>2. \A c \in Asids, i \in Pages :
            tlb'[c][i] = IF c = AsidOf(v) /\ i = g /\ tlb[AsidOf(v)][g] # Absent
                         THEN Invalid ELSE tlb[c][i]
      <4>1. tlb \in Tlbs /\ Invalid \in TlbEntries
        BY TypedTables DEF DataInv, TlbEntries
      <4> QED  BY <2>3, <3>1, <4>1, RewrittenFacts
    <3> QED  BY <2>3, <3>2 DEF TlbSet
  <2> QED  BY <1>1, <1>3, <1>4, <1>5, <1>6, <1>8, <2>2, <2>4, <2>5
<1> QED  BY <1>7, <1>8

(* Before the frame is written its page is not valid any more; no other    *)
(* page has the frame.                                                     *)
LEMMA EvictTable ==
  ASSUME ControlInv, DataInv, ~IoErrors, TableInv, NEW u \in UProcs, Evict(u)
  PROVE  TableInv'
<1>1. /\ pc[u] = "pagerHold" /\ Replaced \in Frames
      /\ frame'[u] = Replaced /\ pc'[u] \in {"loading", "evicting"}
      /\ \A w \in UProcs : w # u => pc'[w] = pc[w] /\ frame'[w] = frame[w]
      /\ \A w \in UProcs : pc[w] \notin Transit
      /\ UNCHANGED <<sup, page, sup_asid, swap_pool>>
  BY EvictFacts
<1>2. /\ Owners' = Owners
      /\ \A w : AsidOf(w)' = AsidOf(w)
      /\ \A w, g : Record(w, g)' = Record(w, g)
      /\ u \in Owners
      /\ \A f : InTransit(f)' <=> f = Replaced
      /\ \A f : ~InTransit(f)
  BY <1>1 DEF Owners, AsidOf, Record, InTransit, Transit
<1>3. CASE swap_pool[Replaced] = FreeFrame /\ pc'[u] = "loading" /\ UNCHANGED <<pgtbl, tlb>>
  <2>1. \A w \in Owners : \A g \in Pages : pgtbl[sup[w]].entry[g] # Replaced
    <3>1. \A w, g : Record(w, g) # FreeFrame \/ sup[w] = 0
      BY DEF Record, FreeFrame
    <3>2. \A w \in Owners : sup[w] # 0
      BY OwnerFacts DEF Sups
    <3> QED  BY <1>1, <1>3, <3>1, <3>2, TableFacts
  <2>2. PageTableAgrees'
    BY <1>1, <1>2, <1>3, <2>1 DEF TableInv, PageTableAgrees
  <2>3. FramesOwned'
    BY <1>1, <1>2 DEF TableInv, FramesOwned
  <2>4. FaultInv'
    BY <1>1, <1>3 DEF TableInv, FaultInv, Pre
  <2>5. TlbInvalid' /\ EvictInv'
    BY <1>1, <1>2, <1>3 DEF TableInv, TlbInvalid, EvictInv, Transit
  <2> QED  BY <2>2, <2>3, <2>4, <2>5 DEF TableInv
<1>4. ASSUME NEW v \in Owners, NEW g \in Pages,
             swap_pool[Replaced] = Record(v, g), pgtbl[sup[v]].entry[g] = Replaced,
             EntrySet(v, g, Invalid), TlbSet(v, g, Invalid)
      PROVE  TableInv'
  <2>1. ASSUME NEW w \in Owners, NEW h \in Pages, NEW f \in Frames,
               pgtbl'[sup[w]].entry[h] = f
        PROVE  swap_pool[f] = Record(w, h) /\ f # Replaced
    <3>1. pgtbl[sup[w]].entry[h] = f /\ ~(w = v /\ h = g)
      BY <1>4, <2>1 DEF EntrySet, Frames, Invalid
    <3>2. swap_pool[f] = Record(w, h)
      BY <3>1, TableFacts
    <3> QED  BY <1>4, <3>1, <3>2, RecordUnique
  <2>2. ASSUME NEW w \in Owners, NEW h \in Pages, NEW f \in Frames,
               swap_pool[f] = Record(w, h), f # Replaced
        PROVE  pgtbl'[sup[w]].entry[h] = f
    <3>1. pgtbl[sup[w]].entry[h] = f
      BY <1>2, <2>2, TableFacts
    <3> QED  BY <1>4, <2>2, <3>1 DEF EntrySet
  <2>3. PageTableAgrees'
    BY <1>1, <1>2, <2>1, <2>2 DEF PageTableAgrees, Record
  <2>4. FramesOwned'
    BY <1>1, <1>2 DEF TableInv, FramesOwned
  <2>5. \A w \in Owners : \A h \in Pages :
          pgtbl[sup[w]].entry[h] = Invalid => pgtbl'[sup[w]].entry[h] = Invalid
    BY <1>4 DEF EntrySet
  <2>6. FaultInv'
    <3> SUFFICES ASSUME NEW w \in UProcs, pc'[w] \in Pre
                 PROVE  pgtbl'[sup[w]].entry[page[w]] = Invalid
      BY <1>1 DEF FaultInv
    <3>1. pc[w] \in Pre /\ w \in Owners /\ page[w] \in Pages
      BY <1>1, PagerOwns DEF Pre, DataInv, DataTyped
    <3> QED  BY <2>5, <3>1 DEF TableInv, FaultInv
  <2>7. TlbInvalid'
    <3> SUFFICES ASSUME NEW w \in Owners, NEW h \in Pages, tlb'[AsidOf(w)][h] = Invalid
                 PROVE  pgtbl'[sup[w]].entry[h] = Invalid
      BY <1>1, <1>2 DEF TlbInvalid
    <3>1. CASE w = v /\ h = g
      BY <1>4, <3>1 DEF EntrySet
    <3>2. CASE ~(w = v /\ h = g)
      <4>1. AsidOf(w) \in Asids /\ (AsidOf(w) # AsidOf(v) \/ h # g)
        BY <3>2, OwnerFacts
      <4>2. tlb[AsidOf(w)][h] = Invalid
        BY <1>4, <4>1 DEF TlbSet, Absent, Invalid
      <4> QED  BY <2>5, <4>2 DEF TableInv, TlbInvalid
    <3> QED  BY <3>1, <3>2
  <2>8. EvictInv'
    <3> SUFFICES ASSUME NEW w \in UProcs, pc'[w] = "evicting"
                 PROVE  pgtbl'[swap_pool[frame'[w]].sup].entry[swap_pool[frame'[w]].pageNo]
                          = Invalid
      BY <1>1 DEF EvictInv
    <3>1. w = u /\ frame'[w] = Replaced
      BY <1>1 DEF Transit
    <3>2. swap_pool[Replaced].sup = sup[v] /\ swap_pool[Replaced].pageNo = g
      BY <1>4 DEF Record
    <3> QED  BY <1>4, <3>1, <3>2 DEF EntrySet
  <2> QED  BY <2>3, <2>4, <2>6, <2>7, <2>8 DEF TableInv
<1> QED  BY <1>3, <1>4, EvictFacts

(* What the end of a page fault does to tables and TLB.                    *)
LEMMA CommitFacts ==
  ASSUME ControlInv, DataInv, ~IoErrors, NEW u \in UProcs, Commit(u)
  PROVE  /\ pc[u] = "loaded" /\ u \in Owners /\ frame[u] \in Frames /\ page[u] \in Pages
         /\ pc'[u] = "pagerEnd" /\ \A w \in UProcs : w # u => pc'[w] = pc[w]
         /\ \A w \in UProcs : w # u => pc[w] \notin Transit
         /\ swap_pool'[frame[u]] = Record(u, page[u])
         /\ \A f \in Frames : f # frame[u] => swap_pool'[f] = swap_pool[f]
         /\ EntrySet(u, page[u], frame[u]) /\ TlbSet(u, page[u], frame[u])
         /\ UNCHANGED <<sup, page, frame, sup_asid, mem, flash, latest, executed>>
<1>1. /\ pc[u] = "loaded"
      /\ swap_pool' = [swap_pool EXCEPT
                         ![frame[u]] = [asid |-> sup_asid[sup[u]], pageNo |-> page[u],
                                        sup |-> sup[u]]]
      /\ pgtbl' = [pgtbl EXCEPT ![sup[u]].entry[page[u]] = frame[u]]
      /\ IF tlb[pgtbl[sup[u]].asid][page[u]] # Absent
         THEN tlb' = Rewritten(pgtbl[sup[u]].asid, page[u], frame[u])
         ELSE TLBWR(pgtbl[sup[u]].asid, page[u], frame[u])
      /\ Goto(u, "pagerEnd")
      /\ UNCHANGED <<sup, page, frame, sup_asid, mem, flash, latest, executed>>
  BY DEF Commit, local
<1>2. /\ u \in Owners /\ frame[u] \in Frames /\ page[u] \in Pages
      /\ sup[u] \in Sups /\ pgtbl[sup[u]].asid = AsidOf(u) /\ AsidOf(u) \in Asids
  <2>1. u \in Owners
    BY <1>1, PagerOwns DEF Pre, Transit
  <2> QED  BY <2>1, OwnerFacts DEF DataInv, DataTyped
<1>3. pc'[u] = "pagerEnd" /\ \A w \in UProcs : w # u => pc'[w] = pc[w]
  BY <1>1, ProcFacts DEF Goto, ControlInv, PlacesInv
<1>4. \A w \in UProcs : w # u => pc[w] \notin Transit
  BY <1>1, Alone DEF SwapHeld, Transit
<1>5. /\ swap_pool'[frame[u]] = Record(u, page[u])
      /\ \A f \in Frames : f # frame[u] => swap_pool'[f] = swap_pool[f]
  BY <1>1, <1>2 DEF Record, AsidOf, DataInv, DataTyped
<1>6. EntrySet(u, page[u], frame[u])
  <2>1. \A w \in Owners : sup[w] \in Sups /\ (sup[w] = sup[u] => w = u)
    BY <1>2, OwnerFacts
  <2>2. \A r \in Sups : \A i \in Pages :
          pgtbl'[r].entry[i] = IF r = sup[u] /\ i = page[u] THEN frame[u]
                               ELSE pgtbl[r].entry[i]
    <3>1. pgtbl \in [Sups -> Table]
      BY TypedTables DEF DataInv
    <3>2. PICK e \in Frames \cup {Invalid}, g \in Pages, s \in Sups :
            e = frame[u] /\ g = page[u] /\ s = sup[u]
      BY <1>2
    <3>3. \A r \in Sups : \A i \in Pages :
            [pgtbl EXCEPT ![s].entry[g] = e][r].entry[i]
              = IF r = s /\ i = g THEN e ELSE pgtbl[r].entry[i]
      BY <3>1 DEF Table
    <3> QED  BY <1>1, <3>2, <3>3
  <2>3. ASSUME NEW w \in Owners, NEW h \in Pages
        PROVE  pgtbl'[sup[w]].entry[h] = IF w = u /\ h = page[u] THEN frame[u]
                                         ELSE pgtbl[sup[w]].entry[h]
    BY <2>1, <2>2
  <2> QED  BY <2>3 DEF EntrySet
<1>7. TlbSet(u, page[u], frame[u])
  <2>1. tlb \in Tlbs /\ frame[u] \in TlbEntries
    BY <1>2, TypedTables DEF DataInv, TlbEntries
  <2>2. CASE tlb[AsidOf(u)][page[u]] # Absent
    <3>1. tlb' = Rewritten(AsidOf(u), page[u], frame[u])
      BY <1>1, <1>2, <2>2
    <3>2. \A c \in Asids, i \in Pages :
            tlb'[c][i] = IF c = AsidOf(u) /\ i = page[u] /\ tlb[AsidOf(u)][page[u]] # Absent
                         THEN frame[u] ELSE tlb[c][i]
      BY <1>2, <2>1, <3>1, RewrittenFacts
    <3> QED  BY <1>2, <3>2 DEF TlbSet
  <2>3. CASE tlb[AsidOf(u)][page[u]] = Absent
    <3>1. TLBWR(AsidOf(u), page[u], frame[u])
      BY <1>1, <1>2, <2>3
    <3>2. /\ tlb'[AsidOf(u)][page[u]] = frame[u]
          /\ \A c \in Asids, i \in Pages :
               c # AsidOf(u) \/ i # page[u] => tlb'[c][i] \in {Absent, tlb[c][i]}
      BY <1>2, <2>1, <3>1, TlbwrFacts
    <3> QED  BY <3>2 DEF TlbSet
  <2> QED  BY <2>2, <2>3
<1> QED  BY <1>1, <1>2, <1>3, <1>4, <1>5, <1>6, <1>7

(* The page that was read gets the frame: its entry was not valid, and no  *)
(* valid entry had the frame.                                              *)
LEMMA CommitTable ==
  ASSUME ControlInv, DataInv, ~IoErrors, TableInv, NEW u \in UProcs, Commit(u)
  PROVE  TableInv'
<1>0. PICK f0 \in Frames, g0 \in Pages : f0 = frame[u] /\ g0 = page[u]
  BY CommitFacts
<1>1. /\ pc[u] = "loaded" /\ u \in Owners
      /\ pc'[u] = "pagerEnd" /\ \A w \in UProcs : w # u => pc'[w] = pc[w]
      /\ \A w \in UProcs : w # u => pc[w] \notin Transit
      /\ swap_pool'[f0] = Record(u, g0)
      /\ \A f \in Frames : f # f0 => swap_pool'[f] = swap_pool[f]
      /\ EntrySet(u, g0, f0) /\ TlbSet(u, g0, f0)
      /\ UNCHANGED <<sup, page, frame, sup_asid>>
  BY <1>0, CommitFacts
<1>2. /\ Owners' = Owners
      /\ \A w : AsidOf(w)' = AsidOf(w)
      /\ \A w, g : Record(w, g)' = Record(w, g)
      /\ \A f : ~InTransit(f)'
      /\ \A f : InTransit(f) <=> f = f0
  BY <1>0, <1>1 DEF Owners, AsidOf, Record, InTransit, Transit
<1>3. pgtbl[sup[u]].entry[g0] = Invalid
  BY <1>0, <1>1 DEF TableInv, FaultInv, Pre, Transit
<1>4. ASSUME NEW w \in Owners, NEW h \in Pages, NEW f \in Frames,
             pgtbl'[sup[w]].entry[h] = f
      PROVE  swap_pool'[f] = Record(w, h)
  <2>1. CASE w = u /\ h = g0
    BY <1>1, <1>4, <2>1 DEF EntrySet
  <2>2. CASE ~(w = u /\ h = g0)
    <3>1. pgtbl[sup[w]].entry[h] = f
      BY <1>1, <1>4, <2>2 DEF EntrySet
    <3> QED  BY <1>1, <1>2, <3>1, TableFacts
  <2> QED  BY <2>1, <2>2
<1>5. ASSUME NEW w \in Owners, NEW h \in Pages, NEW f \in Frames,
             swap_pool'[f] = Record(w, h)
      PROVE  pgtbl'[sup[w]].entry[h] = f
  <2>1. CASE f = f0
    <3>1. w = u /\ h = g0
      BY <1>1, <1>5, <2>1, RecordUnique
    <3> QED  BY <1>1, <2>1, <3>1 DEF EntrySet
  <2>2. CASE f # f0
    <3>1. pgtbl[sup[w]].entry[h] = f
      BY <1>1, <1>2, <1>5, <2>2, TableFacts
    <3>2. ~(w = u /\ h = g0)
      BY <1>3, <3>1 DEF Frames, Invalid
    <3> QED  BY <1>1, <3>1, <3>2 DEF EntrySet
  <2> QED  BY <2>1, <2>2
<1>6. PageTableAgrees'
  BY <1>1, <1>2, <1>4, <1>5 DEF PageTableAgrees, Record
<1>7. FramesOwned'
  <2>1. Record(u, g0).asid = AsidOf(u) /\ Record(u, g0).sup = sup[u]
    BY DEF Record
  <2> QED  BY <1>1, <1>2, <2>1 DEF TableInv, FramesOwned
<1>8. FaultInv'
  <2> SUFFICES ASSUME NEW w \in UProcs, pc'[w] \in Pre
               PROVE  pgtbl'[sup[w]].entry[page[w]] = Invalid
    BY <1>1 DEF FaultInv
  <2>1. w # u /\ pc[w] \in Pre /\ w \in Owners /\ page[w] \in Pages
    BY <1>1, PagerOwns DEF Pre, Transit, DataInv, DataTyped
  <2> QED  BY <1>1, <2>1 DEF TableInv, FaultInv, EntrySet
<1>9. TlbInvalid'
  <2> SUFFICES ASSUME NEW w \in Owners, NEW h \in Pages, tlb'[AsidOf(w)][h] = Invalid
               PROVE  pgtbl'[sup[w]].entry[h] = Invalid
    BY <1>1, <1>2 DEF TlbInvalid
  <2>1. CASE w = u /\ h = g0
    BY <1>1, <2>1 DEF TlbSet, Frames, Invalid, Absent
  <2>2. CASE ~(w = u /\ h = g0)
    <3>1. AsidOf(w) \in Asids /\ (AsidOf(w) # AsidOf(u) \/ h # g0)
      BY <1>1, <2>2, OwnerFacts
    <3>2. tlb[AsidOf(w)][h] = Invalid
      BY <1>1, <3>1 DEF TlbSet, Absent, Invalid
    <3> QED  BY <1>1, <2>2, <3>2 DEF TableInv, TlbInvalid, EntrySet
  <2> QED  BY <2>1, <2>2
<1>10. EvictInv'
  BY <1>1 DEF EvictInv, Transit
<1> QED  BY <1>6, <1>7, <1>8, <1>9, <1>10 DEF TableInv

(* freeSwapFrames: the frames of u, by its ASID.                           *)
LEMMA TermFreeFacts ==
  ASSUME ControlInv, DataInv, ~IoErrors, NEW u \in UProcs, TermFree(u)
  PROVE  /\ u \in Owners /\ pc'[u] = "termFreed"
         /\ \A w \in UProcs : w # u => Calm(pc[w], pc'[w])
         /\ Owners' = Owners \ {u}
         /\ \A w \in UProcs : pc[w] \notin Transit /\ pc'[w] \notin Transit
         /\ \A f \in Frames : swap_pool'[f] = IF swap_pool[f].asid = AsidOf(u)
                                              THEN FreeFrame ELSE swap_pool[f]
         /\ UNCHANGED <<local, sups, frameIndex, memory, executed>>
<1>1. /\ pc[u] = "termHold" /\ V("swapPool", u, "termFreed")
      /\ swap_pool' = [f \in Frames |-> IF swap_pool[f].asid = asid[u] THEN FreeFrame
                                        ELSE swap_pool[f]]
      /\ UNCHANGED <<local, sups, frameIndex, memory, executed>>
  BY DEF TermFree, FreeSwapFrames
<1>2. u \in Owners /\ AsidOf(u) = asid[u]
  BY <1>1, PagerOwns, OwnerFacts
<1>3. pc'[u] = "termFreed" /\ Others(u)
  <2>1. "swapPool" \in Sems /\ pc[u] \notin Waits
    BY <1>1 DEF Sems, Waits, AfterWait
  <2> QED  BY <1>1, <2>1, VMove
<1>4. \A w \in UProcs : w # u => Calm(pc[w], pc'[w])
  BY <1>3, AllCalm
<1>5. \A w \in UProcs : pc[w] \notin Transit
  BY <1>1, Alone DEF SwapHeld, Transit
<1>6. \A w \in UProcs : pc'[w] \notin Transit
  BY <1>3, <1>4, <1>5 DEF Calm, Transit
<1>7. Owners' = Owners \ {u}
  BY <1>3, <1>4 DEF Owners, Calm, NoOwner, NoSup
<1> QED  BY <1>1, <1>2, <1>3, <1>4, <1>5, <1>6, <1>7

(* Nothing of u is left in the swap pool, and everything of the others.    *)
LEMMA TermFreeTable ==
  ASSUME ControlInv, DataInv, ~IoErrors, TableInv, NEW u \in UProcs, TermFree(u)
  PROVE  TableInv'
<1>1. /\ u \in Owners /\ pc'[u] = "termFreed"
      /\ \A w \in UProcs : w # u => Calm(pc[w], pc'[w])
      /\ Owners' = Owners \ {u}
      /\ \A w \in UProcs : pc[w] \notin Transit /\ pc'[w] \notin Transit
      /\ \A f \in Frames : swap_pool'[f] = IF swap_pool[f].asid = AsidOf(u)
                                           THEN FreeFrame ELSE swap_pool[f]
      /\ UNCHANGED <<sup, page, sup_asid, pgtbl, tlb>>
  BY TermFreeFacts DEF local, sups, memory
<1>2. /\ \A w : AsidOf(w)' = AsidOf(w)
      /\ \A w, g : Record(w, g).asid = AsidOf(w)
      /\ \A f : ~InTransit(f) /\ ~InTransit(f)'
      /\ \A w \in Owners : \A g : Record(w, g) # FreeFrame
  <2>1. \A w \in Owners : sup[w] # 0
    BY OwnerFacts DEF Sups
  <2> QED  BY <1>1, <2>1 DEF AsidOf, Record, InTransit, Transit, FreeFrame
<1>3. \A w \in Owners : w # u => AsidOf(w) # AsidOf(u)
  BY <1>1, OwnerFacts
<1>4. PageTableAgrees'
  <2> SUFFICES ASSUME NEW w \in Owners, w # u, NEW g \in Pages, NEW f \in Frames
               PROVE  swap_pool'[f] = Record(w, g) <=> pgtbl[sup[w]].entry[g] = f
    BY <1>1, <1>2 DEF PageTableAgrees, Record
  <2>1. swap_pool[f] = Record(w, g) <=> pgtbl[sup[w]].entry[g] = f
    BY <1>2, TableFacts
  <2>2. swap_pool'[f] = Record(w, g) <=> swap_pool[f] = Record(w, g)
    BY <1>1, <1>2, <1>3
  <2> QED  BY <2>1, <2>2
<1>5. FramesOwned'
  <2> SUFFICES ASSUME NEW f \in Frames, swap_pool'[f] # FreeFrame
               PROVE  \E w \in Owners \ {u} : /\ AsidOf(w) = swap_pool'[f].asid
                                              /\ sup[w] = swap_pool'[f].sup
    BY <1>1, <1>2 DEF FramesOwned
  <2>1. swap_pool[f].asid # AsidOf(u) /\ swap_pool'[f] = swap_pool[f]
    BY <1>1
  <2> QED  BY <2>1 DEF TableInv, FramesOwned
<1>6. FaultInv' /\ TlbInvalid' /\ EvictInv'
  <2>1. \A w \in UProcs : pc'[w] \in Pre => pc[w] \in Pre
    BY <1>1 DEF Calm, Pre, Transit
  <2> QED  BY <1>1, <1>2, <2>1 DEF TableInv, FaultInv, TlbInvalid, EvictInv, Transit
<1> QED  BY <1>4, <1>5, <1>6 DEF TableInv

(* A structure that is given back is nobody's.                             *)
LEMMA TermDeallocTable ==
  ASSUME ControlInv, DataInv, ~IoErrors, TableInv, NEW u \in UProcs, TermDealloc(u)
  PROVE  TableInv' /\ Owners' = Owners /\ \A w \in Owners : AsidOf(w)' = AsidOf(w)
<1>1. /\ pc[u] = "termFreed" /\ pc'[u] = "termSignal"
      /\ \A w \in UProcs : w # u => pc'[w] = pc[w]
      /\ sup_asid' = [sup_asid EXCEPT ![sup[u]] = 0]
      /\ UNCHANGED <<sup, page, frame, pgtbl, swap_pool, tlb>>
  BY ProcFacts DEF TermDealloc, Goto, local, pool, memory, ControlInv, PlacesInv
<1>2. /\ Owners' = Owners /\ u \notin Owners
      /\ \A f : InTransit(f)' <=> InTransit(f)
  BY <1>1 DEF Owners, InTransit
<1>3. \A w \in Owners : AsidOf(w)' = AsidOf(w)
  <2>1. \A w \in Owners : sup[w] # sup[u] /\ sup[w] \in Sups
    BY <1>1, <1>2, OwnerFacts DEF DataInv, SupInv, HasSup
  <2> QED  BY <1>1, <2>1 DEF AsidOf, DataInv, DataTyped
<1>4. FramesOwned'
  BY <1>1, <1>2, <1>3 DEF TableInv, FramesOwned
<1>5. PageTableAgrees'
  BY <1>1, <1>2, <1>3 DEF TableInv, PageTableAgrees
<1>6. FaultInv' /\ TlbInvalid' /\ EvictInv'
  BY <1>1, <1>2, <1>3 DEF TableInv, FaultInv, TlbInvalid, EvictInv, Pre, Transit
<1> QED  BY <1>2, <1>3, <1>4, <1>5, <1>6 DEF TableInv

(* EXECUTE: the shell is the only owner, and the program gets a structure, *)
(* an ASID and a page table of its own.                                    *)
LEMMA ExecuteFacts ==
  ASSUME ControlInv, DataInv, ~IoErrors, NEW u \in UProcs, NEW n \in Programs,
         NEW a \in Asids, Execute(u, n, a)
  PROVE  /\ pc[u] = "user" /\ pc[n] = "absent" /\ u # n /\ n \in UProcs
         /\ Owners = {u} /\ Owners' = {u, n}
         /\ pc'[u] = "execJoin" /\ pc'[n] = "user"
         /\ \A w \in UProcs : w \notin {u, n} => pc'[w] = pc[w]
         /\ AsidOf(u) = SHELL_ASID /\ AsidOf(u)' = SHELL_ASID /\ AsidOf(n)' = a
         /\ a # SHELL_ASID /\ (Rerun \/ a \notin executed)
         /\ sup'[u] = sup[u] /\ sup'[n] # sup[u]
         /\ pgtbl'[sup[u]] = pgtbl[sup[u]]
         /\ \A g \in Pages : pgtbl'[sup'[n]].entry[g] = Invalid
         /\ \A w \in UProcs : w # n => sup'[w] = sup[w]
         /\ latest' = [latest EXCEPT ![a] = flash[a]] /\ executed' = executed \cup {a}
         /\ UNCHANGED <<page, frame, swap_pool, tlb, mem, flash>>
<1>1. PICK s \in Sups : s = Head(supFree) /\ s \in Range(supFree)
  <2>1. supFree # <<>> /\ supFree \in Seq(Sups) /\ IsInjective(supFree)
    BY DEF Execute, DataInv, DataTyped, SupInv
  <2>2. Head(supFree) \in Range(supFree) /\ Head(supFree) \in Sups
    BY <2>1, DequeueLemma DEF Range
  <2> QED  BY <2>2
<1>2. /\ pc[u] = "user" /\ asid[u] = SHELL_ASID /\ pc[n] = "absent"
      /\ a # SHELL_ASID /\ (Rerun \/ a \notin executed)
      /\ pc' = [pc EXCEPT ![u] = "execJoin", ![n] = "user"]
      /\ sup_asid' = [sup_asid EXCEPT ![s] = a]
      /\ pgtbl' = [pgtbl EXCEPT ![s] = EmptyTable(a)]
      /\ sup' = [sup EXCEPT ![n] = s]
      /\ latest' = [latest EXCEPT ![a] = flash[a]] /\ executed' = executed \cup {a}
      /\ UNCHANGED <<page, frame, swap_pool, tlb, mem, flash>>
  BY <1>1 DEF Execute, pool
<1>3. /\ u # n /\ n \in UProcs /\ pc'[u] = "execJoin" /\ pc'[n] = "user"
      /\ \A w \in UProcs : w \notin {u, n} => pc'[w] = pc[w]
  BY <1>2, ProcFacts DEF ControlInv, PlacesInv
<1>4. u = ShellProc /\ u \in Owners
  BY <1>2, PagerOwns DEF ControlInv, SignalInv, UserPlaces
<1>5. Owners = {u}
  <2>1. Working = {}
    BY <1>2, <1>4, ProcFacts DEF ControlInv, TurnInv, ShellRuns
  <2>2. \A w \in Owners : w \in Programs => w \in Working
    BY DEF Owners, Working
  <2>3. \A w \in Owners : w \in UProcs
    BY DEF Owners
  <2> QED  BY <1>4, <2>1, <2>2, <2>3, ProcFacts
<1>6. Owners' = {u, n}
  <2>1. \A w \in UProcs : w \in Owners' <=> w \in {u, n}
    BY <1>3, <1>5 DEF Owners
  <2>2. \A w \in Owners' : w \in UProcs
    BY DEF Owners
  <2> QED  BY <1>3, <2>1, <2>2
<1>7. sup[u] \in Sups /\ sup[u] # s /\ AsidOf(u) = SHELL_ASID
  BY <1>1, <1>2, <1>4, OwnerFacts
<1>8. sup'[n] = s /\ \A w \in UProcs : w # n => sup'[w] = sup[w]
  BY <1>2, <1>3 DEF DataInv, DataTyped
<1>9. AsidOf(u)' = SHELL_ASID /\ AsidOf(n)' = a
  BY <1>2, <1>3, <1>7, <1>8 DEF AsidOf, DataInv, DataTyped
<1>10. pgtbl'[sup[u]] = pgtbl[sup[u]] /\ pgtbl'[s] = EmptyTable(a)
  BY <1>2, <1>7 DEF DataInv, DataTyped
<1>11. \A g \in Pages : pgtbl'[sup'[n]].entry[g] = Invalid
  BY <1>8, <1>10 DEF EmptyTable
<1> QED  BY <1>2, <1>3, <1>5, <1>6, <1>7, <1>8, <1>9, <1>10, <1>11

(* No frame has the new program's name, for no owner had its structure.    *)
LEMMA ExecuteTable ==
  ASSUME ControlInv, DataInv, ~IoErrors, TableInv, NEW u \in UProcs, NEW n \in Programs,
         NEW a \in Asids, Execute(u, n, a)
  PROVE  TableInv'
<1>1. /\ pc[u] = "user" /\ pc[n] = "absent" /\ u # n /\ n \in UProcs
      /\ Owners = {u} /\ Owners' = {u, n}
      /\ pc'[u] = "execJoin" /\ pc'[n] = "user"
      /\ \A w \in UProcs : w \notin {u, n} => pc'[w] = pc[w]
      /\ AsidOf(u) = SHELL_ASID /\ AsidOf(u)' = SHELL_ASID /\ AsidOf(n)' = a
      /\ sup'[u] = sup[u] /\ sup'[n] # sup[u]
      /\ pgtbl'[sup[u]] = pgtbl[sup[u]]
      /\ \A g \in Pages : pgtbl'[sup'[n]].entry[g] = Invalid
      /\ UNCHANGED <<page, frame, swap_pool, tlb>>
  BY ExecuteFacts
<1>2. \A w \in UProcs : pc'[w] \notin Pre /\ pc'[w] \notin Transit /\ pc[w] \notin Transit
  <2>1. \A w \in UProcs : w # u => pc[w] \notin Pre
    BY <1>1, PagerOwns
  <2> QED  BY <1>1, <2>1 DEF Pre, Transit
<1>3. \A f : ~InTransit(f) /\ ~InTransit(f)'
  BY <1>2 DEF InTransit, Transit
<1>4. FramesOwned'
  BY <1>1 DEF TableInv, FramesOwned
<1>5. PageTableAgrees'
  <2> SUFFICES ASSUME NEW w \in {u, n}, NEW g \in Pages, NEW f \in Frames
               PROVE  swap_pool[f] = [asid |-> AsidOf(w)', pageNo |-> g, sup |-> sup'[w]]
                        <=> pgtbl'[sup'[w]].entry[g] = f
    BY <1>1, <1>3 DEF PageTableAgrees
  <2>1. CASE w = u
    BY <1>1, <1>3, <2>1, TableFacts DEF Record
  <2>2. CASE w = n
    <3>1. pgtbl'[sup'[n]].entry[g] # f
      BY <1>1 DEF Frames, Invalid
    <3>2. swap_pool[f] # [asid |-> AsidOf(w)', pageNo |-> g, sup |-> sup'[n]]
      <4>1. swap_pool[f] # FreeFrame => swap_pool[f].sup = sup[u]
        BY <1>1 DEF TableInv, FramesOwned
      <4>2. FreeFrame.asid = -1 /\ AsidOf(n)' # -1
        BY <1>1 DEF FreeFrame, Asids
      <4> QED  BY <1>1, <2>2, <4>1, <4>2
    <3> QED  BY <2>2, <3>1, <3>2
  <2> QED  BY <2>1, <2>2
<1>6. FaultInv' /\ EvictInv'
  BY <1>2 DEF FaultInv, EvictInv, Transit
<1>7. TlbInvalid'
  BY <1>1 DEF TableInv, TlbInvalid
<1> QED  BY <1>4, <1>5, <1>6, <1>7 DEF TableInv

(* Ends kill no owner, for the shell ends after its programs, and test     *)
(* after the shell, where no flash operation fails.                        *)
LEMMA EndFacts ==
  ASSUME ControlInv, DataInv, ~IoErrors, TestEnd \/ \E u \in UProcs : TermEnd(u)
  PROVE  /\ \A w \in UProcs : pc'[w] = pc[w] \/ (pc'[w] = "absent" /\ pc[w] \in NoSup)
         /\ Owners' = Owners
         /\ UNCHANGED <<local, sem, sups, pool, memory, executed>>
<1>1. \A w \in UProcs : pc'[w] = pc[w] \/ (pc'[w] = "absent" /\ pc[w] \in NoSup)
  <2>1. ASSUME NEW u \in UProcs, TermEnd(u)
        PROVE  \A w \in UProcs : pc'[w] = pc[w] \/ (pc'[w] = "absent" /\ pc[w] \in NoSup)
    <3>1. pc[u] = "termEnd" /\ TermProcess(u)
      BY <2>1 DEF TermEnd
    <3>2. u = ShellProc => Working = {}
      BY <3>1 DEF ControlInv, TurnInv, ExecPlaces
    <3>3. \A w \in UProcs : w \in Subtree(u) => pc[w] \in NoSup
      BY <3>1, <3>2, ProcFacts DEF Subtree, Working, NoSup
    <3> QED  BY <3>1, <3>3, ProcFacts DEF TermProcess
  <2>2. ASSUME TestEnd
        PROVE  \A w \in UProcs : pc'[w] = pc[w] \/ (pc'[w] = "absent" /\ pc[w] \in NoSup)
    <3>1. pc[Test] = "testEnd" /\ TermProcess(Test)
      BY <2>2 DEF TestEnd
    <3>2. Working = {} /\ pc[ShellProc] \in {"termEnd", "absent"}
      BY <3>1 DEF ControlInv, TurnInv, MasterSignalled
    <3>3. \A w \in UProcs : pc[w] \in NoSup
      BY <3>2, ProcFacts DEF Working, NoSup
    <3> QED  BY <3>1, <3>3, ProcFacts DEF TermProcess
  <2> QED  BY <2>1, <2>2
<1>2. Owners' = Owners
  BY <1>1 DEF Owners, NoSup
<1>3. UNCHANGED <<local, sem, sups, pool, memory, executed>>
  BY DEF TestEnd, TermEnd, TermProcess
<1> QED  BY <1>1, <1>2, <1>3

(* The end of a process, or of the system, keeps TableInv: who ends has    *)
(* given its structure back.                                               *)
LEMMA EndTable ==
  ASSUME ControlInv, DataInv, ~IoErrors, TableInv, TestEnd \/ \E u \in UProcs : TermEnd(u)
  PROVE  TableInv'
<1>1. /\ \A w \in UProcs : pc'[w] = pc[w] \/ (pc'[w] = "absent" /\ pc[w] \in NoSup)
      /\ Owners' = Owners
      /\ UNCHANGED <<sup, page, frame, sup_asid, pgtbl, swap_pool, tlb>>
  BY EndFacts DEF local, sups, pool, memory
<1>2. \A w \in UProcs : /\ w \in Owners' <=> w \in Owners
                        /\ pc'[w] \in Transit <=> pc[w] \in Transit
                        /\ pc'[w] = "evicting" => pc[w] = "evicting"
                        /\ pc'[w] \in Pre => pc[w] \in Pre
  BY <1>1 DEF Transit, Pre, NoSup
<1>3. FaultInv' /\ TlbInvalid'
  BY <1>1, <1>2 DEF TableInv, FaultInv, TlbInvalid, AsidOf
<1> QED  BY <1>1, <1>2, <1>3, SameTable

(* test waiting for the shell changes nothing the pager looks at.          *)
LEMMA TestJoinTable ==
  ASSUME ControlInv, TableInv, TestJoin
  PROVE  /\ TableInv' /\ Owners' = Owners
         /\ \A w \in UProcs : pc'[w] = pc[w]
         /\ UNCHANGED <<local, sups, pool, memory, executed>>
<1>1. /\ \A w \in UProcs : pc'[w] = pc[w]
      /\ UNCHANGED <<local, sups, pool, memory, executed>>
  BY ProcFacts DEF TestJoin, P, Goto, ControlInv, PlacesInv
<1>2. UNCHANGED <<sup, page, frame, sup_asid, pgtbl, swap_pool, tlb>> /\ Owners' = Owners
  BY <1>1 DEF local, sups, pool, memory, Owners
<1>3. FaultInv' /\ TlbInvalid'
  BY <1>1, <1>2 DEF TableInv, FaultInv, TlbInvalid, AsidOf
<1> QED  BY <1>1, <1>2, <1>3, SameTable

(* At the start all frames are free and no page is valid.                  *)
LEMMA InitTable ==
  ASSUME Init
  PROVE  TableInv
<1>1. /\ swap_pool = [f \in Frames |-> FreeFrame]
      /\ \A s \in Sups : \A g \in Pages : pgtbl[s].entry[g] = Invalid
      /\ \A u \in UProcs : sup[u] \in Sups /\ pc[u] \in {"user", "absent"}
      /\ \A u \in UProcs : page[u] \in Pages
      /\ \A a \in Asids : \A g \in Pages : tlb[a][g] = Absent
  <2>1. UProcMax \in Sups /\ (CHOOSE g \in Pages : TRUE) \in Pages
    BY SizesAssumption DEF Sups
  <2> QED  BY <2>1, ProcFacts, ProcsAssumption DEF Init, EmptyTable
<1>2. FramesOwned
  BY <1>1 DEF FramesOwned
<1>3. PageTableAgrees
  <2>1. \A u \in Owners : u \in UProcs
    BY DEF Owners
  <2>2. \A s, g : \A a : [asid |-> a, pageNo |-> g, sup |-> s] = FreeFrame => s = 0
    BY DEF FreeFrame
  <2>3. ASSUME NEW u \in Owners, NEW g \in Pages, NEW f \in Frames
        PROVE  /\ pgtbl[sup[u]].entry[g] # f
               /\ swap_pool[f] # [asid |-> AsidOf(u), pageNo |-> g, sup |-> sup[u]]
    <3>1. pgtbl[sup[u]].entry[g] # f
      BY <1>1, <2>1 DEF Frames, Invalid
    <3>2. swap_pool[f] # [asid |-> AsidOf(u), pageNo |-> g, sup |-> sup[u]]
      BY <1>1, <2>1, <2>2 DEF Sups
    <3> QED  BY <3>1, <3>2
  <2> QED  BY <2>3 DEF PageTableAgrees
<1>4. FaultInv /\ EvictInv
  BY <1>1 DEF FaultInv, EvictInv, Pre, Transit
<1>5. TlbInvalid
  <2>1. \A u \in Owners : u \in UProcs
    BY DEF Owners
  <2> QED  BY <1>1, <2>1 DEF TlbInvalid
<1> QED  BY <1>2, <1>3, <1>4, <1>5 DEF TableInv

(* All steps together.                                                     *)
LEMMA NextTable ==
  ASSUME ControlInv, DataInv, ~IoErrors, TableInv, [Next]_vars
  PROVE  TableInv'
<1>1. CASE UNCHANGED vars
  <2>1. UNCHANGED <<pc, sup, page, frame, sup_asid, pgtbl, swap_pool, tlb>>
    BY <1>1 DEF vars, local, sups, pool, memory
  <2>2. FaultInv' /\ TlbInvalid'
    BY <2>1 DEF TableInv, FaultInv, TlbInvalid, AsidOf, Owners
  <2> QED  BY <2>1, <2>2, SameTable DEF Owners
<1>2. ASSUME NEW u \in UProcs, OtherStep(u)  PROVE TableInv'
  BY <1>2, PlainTable, RefillTable, EvictTable, CommitTable, TermFreeTable,
     TermDeallocTable DEF OtherStep
<1> QED  BY <1>1, <1>2, StepKinds, ExecuteTable, EndTable, TestJoinTable

(* Every reachable state.                                                  *)
THEOREM PagingInductive == Spec => [](~IoErrors => TableInv)
<1>1. Init => (~IoErrors => TableInv)
  BY InitTable
<1>2. ControlInv /\ DataInv /\ (~IoErrors => TableInv) /\ [Next]_vars
        => (~IoErrors => TableInv)'
  BY NextTable
<1> QED  BY <1>1, <1>2, SupportInductive, PTL DEF Spec

(* A frame's record belongs to a process that has not given it back, where *)
(* no flash operation fails.                                               *)
THEOREM FramesAlwaysOwned == Spec => [](~IoErrors => FramesOwned)
<1>1. (~IoErrors => TableInv) => (~IoErrors => FramesOwned)
  BY DEF TableInv
<1> QED  BY <1>1, PagingInductive, PTL

(* Page tables and swap pool table name each other, but for the one frame  *)
(* in transit, where no flash operation fails.                             *)
THEOREM TablesAgree == Spec => [](~IoErrors => PageTableAgrees)
<1>1. (~IoErrors => TableInv) => (~IoErrors => PageTableAgrees)
  BY DEF TableInv
<1> QED  BY <1>1, PagingInductive, PTL
-----------------------------------------------------------------------------
(* The TLB, where no program is executed twice.                            *)

(* Fewer owners, the same tables.                                          *)
LEMMA SameTlb ==
  ASSUME TlbInv, UNCHANGED <<tlb, executed>>,
         \A w \in Owners' : /\ w \in Owners /\ AsidOf(w)' = AsidOf(w)
                            /\ pgtbl'[sup'[w]] = pgtbl[sup[w]]
  PROVE  TlbInv'
<1>1. TlbAgrees'
  BY DEF TlbInv, TlbAgrees
<1> QED  BY <1>1 DEF TlbInv

(* An entry that changes in the table and in the TLB.                      *)
LEMMA SetTlb ==
  ASSUME ControlInv, DataInv, ~IoErrors, TlbInv, NEW v \in Owners, NEW g \in Pages, NEW e,
         EntrySet(v, g, e), TlbSet(v, g, e), Owners' = Owners,
         UNCHANGED <<sup, sup_asid, executed>>
  PROVE  TlbInv'
<1>1. \A w : AsidOf(w)' = AsidOf(w)
  BY DEF AsidOf
<1>2. TlbAgrees'
  <2> SUFFICES ASSUME NEW w \in Owners, NEW h \in Pages
               PROVE  tlb'[AsidOf(w)][h] \in {Absent, pgtbl'[sup[w]].entry[h]}
    BY <1>1 DEF TlbAgrees
  <2>1. CASE w = v /\ h = g
    BY <2>1 DEF EntrySet, TlbSet
  <2>2. CASE ~(w = v /\ h = g)
    <3>1. AsidOf(w) \in Asids /\ (AsidOf(w) # AsidOf(v) \/ h # g)
      BY <2>2, OwnerFacts
    <3>2. tlb'[AsidOf(w)][h] \in {Absent, tlb[AsidOf(w)][h]}
      BY <3>1 DEF TlbSet
    <3>3. pgtbl'[sup[w]].entry[h] = pgtbl[sup[w]].entry[h]
      BY <2>2 DEF EntrySet
    <3> QED  BY <3>2, <3>3 DEF TlbInv, TlbAgrees
  <2> QED  BY <2>1, <2>2
<1>3. ASSUME NEW a \in Asids, a \notin executed \cup {SHELL_ASID}, NEW h \in Pages
      PROVE  tlb'[a][h] = Absent
  <2>1. a # AsidOf(v) /\ tlb[a][h] = Absent
    BY <1>3 DEF TlbInv
  <2> QED  BY <2>1 DEF TlbSet
<1> QED  BY <1>1, <1>2, <1>3 DEF TlbInv

(* Every step keeps TlbInv.                                                *)
LEMMA NextTlb ==
  ASSUME ControlInv, DataInv, ~IoErrors, ~Rerun, TableInv, TlbInv, [Next]_vars
  PROVE  TlbInv'
<1>1. ASSUME NEW u \in UProcs, PlainStep(u)  PROVE TlbInv'
  <2>1. UNCHANGED <<sup, sup_asid, pgtbl, tlb, executed>>
    BY <1>1, PlainTables
  <2>2. \A w \in UProcs : w # u => Calm(pc[w], pc'[w])
    BY <1>1, PlainKinds, AllCalm
  <2>3. pc[u] \in NoOwner => pc'[u] \in NoOwner
    <3>1. \/ CalmStep(u)
          \/ pc[u] \in {"evicting", "loading", "evicted"}
          \/ \E g \in Pages : PageFault(u, g)
      BY <1>1, PlainKinds DEF FlashWrite, FlashRead
    <3> QED  BY <3>1 DEF CalmStep, Calm, PageFault, Accessing, NoOwner, NoSup
  <2>4. \A w \in Owners' : w \in Owners
    BY <2>2, <2>3 DEF Owners, Calm, NoOwner, NoSup
  <2> QED  BY <2>1, <2>4, SameTlb DEF AsidOf
<1>2. ASSUME NEW u \in UProcs, NEW g \in Pages, Refill(u, g)  PROVE TlbInv'
  BY <1>2, RefillFacts, SetTlb DEF Owners
<1>3. ASSUME NEW u \in UProcs, Evict(u)  PROVE TlbInv'
  <2>1. UNCHANGED <<sup, sup_asid, executed>> /\ Owners' = Owners
    BY <1>3, EvictFacts DEF Owners
  <2>2. CASE UNCHANGED <<pgtbl, tlb>>
    BY <2>1, <2>2, SameTlb DEF AsidOf
  <2>3. CASE \E v \in Owners : \E g \in Pages : EntrySet(v, g, Invalid) /\ TlbSet(v, g, Invalid)
    BY <2>1, <2>3, SetTlb
  <2> QED  BY <1>3, <2>2, <2>3, EvictFacts
<1>4. ASSUME NEW u \in UProcs, Commit(u)  PROVE TlbInv'
  <2>1. UNCHANGED <<sup, sup_asid, executed>> /\ Owners' = Owners /\ u \in Owners
    BY <1>4, CommitFacts DEF Owners
  <2>2. EntrySet(u, page[u], frame[u]) /\ TlbSet(u, page[u], frame[u]) /\ page[u] \in Pages
    BY <1>4, CommitFacts
  <2> QED  BY <2>1, <2>2, SetTlb
<1>5. ASSUME NEW u \in UProcs, TermFree(u)  PROVE TlbInv'
  BY <1>5, TermFreeFacts, SameTlb DEF AsidOf, local, sups, memory
<1>6. ASSUME NEW u \in UProcs, TermDealloc(u)  PROVE TlbInv'
  <2>1. UNCHANGED <<sup, pgtbl, tlb, executed>>
    BY <1>6 DEF TermDealloc, local, memory
  <2> QED  BY <1>6, <2>1, TermDeallocTable, SameTlb
<1>7. ASSUME NEW u \in UProcs, NEW n \in Programs, NEW a \in Asids, Execute(u, n, a)
      PROVE  TlbInv'
  <2>1. /\ Owners = {u} /\ Owners' = {u, n}
        /\ AsidOf(u) = SHELL_ASID /\ AsidOf(u)' = SHELL_ASID /\ AsidOf(n)' = a
        /\ a # SHELL_ASID /\ a \notin executed
        /\ sup'[u] = sup[u] /\ pgtbl'[sup[u]] = pgtbl[sup[u]]
        /\ executed' = executed \cup {a} /\ UNCHANGED tlb
    BY <1>7, ExecuteFacts
  <2>2. \A g \in Pages : tlb[a][g] = Absent
    BY <2>1 DEF TlbInv
  <2>3. TlbAgrees'
    <3> SUFFICES ASSUME NEW w \in {u, n}, NEW g \in Pages
                 PROVE  tlb[AsidOf(w)'][g] \in {Absent, pgtbl'[sup'[w]].entry[g]}
      BY <2>1 DEF TlbAgrees
    <3>1. CASE w = u
      BY <2>1, <3>1 DEF TlbInv, TlbAgrees
    <3>2. CASE w = n
      BY <2>1, <2>2, <3>2
    <3> QED  BY <3>1, <3>2
  <2> QED  BY <2>1, <2>3 DEF TlbInv
<1>8. ASSUME TestEnd \/ \E u \in UProcs : TermEnd(u)  PROVE TlbInv'
  BY <1>8, EndFacts, SameTlb DEF AsidOf, local, sups, memory
<1>9. ASSUME TestJoin  PROVE TlbInv'
  BY <1>9, TestJoinTable, SameTlb DEF AsidOf, local, sups, memory
<1>10. ASSUME UNCHANGED vars  PROVE TlbInv'
  BY <1>10, SameTlb DEF vars, local, sups, memory, AsidOf, Owners
<1> QED  BY <1>1, <1>2, <1>3, <1>4, <1>5, <1>6, <1>7, <1>8, <1>9, <1>10, StepKinds
         DEF OtherStep

(* At the beginning the TLB is empty and the shell has the only structure. *)
LEMMA InitTlb ==
  ASSUME Init
  PROVE  TlbInv
<1>1. /\ \A a \in Asids : \A g \in Pages : tlb[a][g] = Absent
      /\ \A u \in Owners : u = ShellProc
      /\ AsidOf(ShellProc) = SHELL_ASID
  <2>1. sup[ShellProc] = UProcMax /\ UProcMax \in Sups
    BY ProcFacts, SizesAssumption DEF Init, Sups
  <2>2. sup_asid[UProcMax] = SHELL_ASID
    BY <2>1 DEF Init
  <2> QED  BY <2>1, <2>2, ProcFacts, ProcsAssumption DEF Init, AsidOf, Owners
<1>2. SHELL_ASID \in Asids
  BY SizesAssumption DEF SHELL_ASID, Asids
<1> QED  BY <1>1, <1>2 DEF TlbInv, TlbAgrees

(* Every reachable state.                                                  *)
THEOREM TlbInductive == Spec => [](~IoErrors /\ ~Rerun => TlbInv)
<1>1. Init => (~IoErrors /\ ~Rerun => TlbInv)
  BY InitTlb
<1>2. ControlInv /\ DataInv /\ (~IoErrors => TableInv) /\ (~IoErrors /\ ~Rerun => TlbInv)
        /\ [Next]_vars => (~IoErrors /\ ~Rerun => TlbInv)'
  <2>1. ASSUME ControlInv, DataInv, TableInv, TlbInv, [Next]_vars, ~IoErrors, ~Rerun
        PROVE  TlbInv'
    BY <2>1, NextTlb
  <2> QED  BY <2>1
<1> QED  BY <1>1, <1>2, SupportInductive, PagingInductive, PTL DEF Spec

(* No TLB entry of a program that runs is stale: it is absent or says what *)
(* the page table says, where no flash operation fails and no program is   *)
(* executed twice (run stale_tlb shows what a second execution finds).     *)
THEOREM TlbNeverStale == Spec => [](~IoErrors /\ ~Rerun => TlbAgrees)
<1>1. (~IoErrors /\ ~Rerun => TlbInv) => (~IoErrors /\ ~Rerun => TlbAgrees)
  BY DEF TlbInv
<1> QED  BY <1>1, TlbInductive, PTL
-----------------------------------------------------------------------------
(* Stores on their way, where no flash operation fails and no program is   *)
(* executed twice.                                                         *)

(* Contents by their page.                                                 *)
LEMMA ContentFacts ==
  /\ \A a \in Asids \cup {0} : \A g \in Pages \cup {0} :
       \A c \in Contents(a, g) : c \in AllContents
  /\ \A a, g : \A v \in 0..(Versions - 1) : Content(a, g, v) \in Contents(a, g)
  /\ \A a, g : \A c \in Contents(a, g) :
       c.asid = a /\ c.page = g /\ c.version \in 0..(Versions - 1)
<1>1. \A a, g : \A v \in 0..(Versions - 1) : Content(a, g, v) \in Contents(a, g)
  BY DEF Contents
<1>2. \A a, g : \A c \in Contents(a, g) :
        c.asid = a /\ c.page = g /\ c.version \in 0..(Versions - 1)
  BY DEF Contents, Content
<1>3. ASSUME NEW a \in Asids \cup {0}, NEW g \in Pages \cup {0}, NEW c \in Contents(a, g)
      PROVE  c \in AllContents
  BY <1>3 DEF AllContents
<1> QED  BY <1>1, <1>2, <1>3

(* Steps that touch neither frames nor blocks nor a page in transit.       *)
LEMMA SameStore ==
  ASSUME StoreInv, UNCHANGED <<mem, flash, latest>>,
         \A w \in Owners' : /\ w \in Owners /\ AsidOf(w)' = AsidOf(w)
                            /\ pgtbl'[sup'[w]] = pgtbl[sup[w]],
         \A w \in UProcs : /\ pc'[w] = "evicting" <=> pc[w] = "evicting"
                           /\ pc[w] = "evicting" =>
                                /\ frame'[w] = frame[w]
                                /\ swap_pool'[frame[w]] = swap_pool[frame[w]]
                           /\ pc'[w] = "loaded" =>
                                /\ pc[w] = "loaded" /\ frame'[w] = frame[w]
                                /\ page'[w] = page[w]
  PROVE  StoreInv'
<1>1. \A a, g : Leaving(a, g)' <=> Leaving(a, g)
  BY DEF Leaving
<1>2. InFrame'
  BY DEF StoreInv, InFrame
<1>3. OnTheWay'
  BY DEF StoreInv, OnTheWay
<1>4. InFlash'
  BY <1>1 DEF StoreInv, InFlash
<1>5. Loaded'
  <2>1. \A w \in UProcs : pc'[w] = "loaded" => w \in Owners'
    BY DEF Owners
  <2> QED  BY <2>1 DEF StoreInv, Loaded
<1>6. ContentTyped'
  BY DEF StoreInv, ContentTyped
<1> QED  BY <1>2, <1>3, <1>4, <1>5, <1>6 DEF StoreInv

(* A store goes to the frame of its page, and to no frame in transit: the  *)
(* TLB entry is that of the page table, which the frame's record names.    *)
LEMMA StoreFacts ==
  ASSUME ControlInv, DataInv, ~IoErrors, TableInv, TlbInv, ContentTyped,
         NEW u \in UProcs, NEW g \in Pages, StoreTo(u, g), pc[u] \in {"user", "readStore"}
  PROVE  \E f \in Frames : \E new \in Contents(AsidOf(u), g) :
           /\ u \in Owners /\ pgtbl[sup[u]].entry[g] = f
           /\ swap_pool[f] = Record(u, g) /\ ~InTransit(f)
           /\ mem' \in [Frames -> AllContents] /\ latest' \in Blocks
           /\ mem'[f] = new /\ \A h \in Frames : h # f => mem'[h] = mem[h]
           /\ \A a \in Asids : \A h \in Pages :
                latest'[a][h] = IF a = AsidOf(u) /\ h = g THEN new ELSE latest[a][h]
           /\ UNCHANGED <<tlb, flash>>
<1>1. u \in Owners /\ AsidOf(u) = asid[u] /\ AsidOf(u) \in Asids
  BY PagerOwns, OwnerFacts
<1>2. PICK new : /\ new = Content(AsidOf(u), g, (latest[AsidOf(u)][g].version + 1) % Versions)
                 /\ mem' = [mem EXCEPT ![Entry(u, g)] = new]
                 /\ latest' = [latest EXCEPT ![AsidOf(u)][g] = new]
                 /\ Entry(u, g) \in Frames /\ UNCHANGED <<tlb, flash>>
  BY <1>1 DEF StoreTo
<1>3. PICK f \in Frames : f = Entry(u, g)
  BY <1>2
<1>4. pgtbl[sup[u]].entry[g] = f
  <2>1. tlb[AsidOf(u)][g] \in {Absent, pgtbl[sup[u]].entry[g]}
    BY <1>1 DEF TlbInv, TlbAgrees
  <2> QED  BY <1>1, <1>3, <2>1 DEF Entry, Absent, Frames
<1>5. swap_pool[f] = Record(u, g) /\ ~InTransit(f)
  BY <1>1, <1>4, TableFacts
<1>6. new \in Contents(AsidOf(u), g) /\ new \in AllContents
  <2>1. latest[AsidOf(u)][g].version \in 0..(Versions - 1)
    BY <1>1, ContentFacts DEF ContentTyped
  <2>2. (latest[AsidOf(u)][g].version + 1) % Versions \in 0..(Versions - 1)
    BY <2>1, SizesAssumption
  <2> QED  BY <1>1, <1>2, <2>2, ContentFacts
<1>7. mem' \in [Frames -> AllContents] /\ mem'[f] = new
      /\ \A h \in Frames : h # f => mem'[h] = mem[h]
  BY <1>2, <1>3, <1>6 DEF ContentTyped
<1>8. /\ latest' \in Blocks
      /\ \A a \in Asids : \A h \in Pages :
           latest'[a][h] = IF a = AsidOf(u) /\ h = g THEN new ELSE latest[a][h]
  <2>1. latest \in [Asids -> [Pages -> AllContents]]
    BY DEF ContentTyped, Blocks
  <2>2. /\ [latest EXCEPT ![AsidOf(u)][g] = new] \in [Asids -> [Pages -> AllContents]]
        /\ \A a \in Asids, h \in Pages : [latest EXCEPT ![AsidOf(u)][g] = new][a][h]
             = IF a = AsidOf(u) /\ h = g THEN new ELSE latest[a][h]
    BY <1>1, <1>6, <2>1, ExceptTwice
  <2> QED  BY <1>2, <2>2 DEF Blocks
<1> QED  BY <1>1, <1>2, <1>4, <1>5, <1>6, <1>7, <1>8

(* A store puts the same new version into the frame and into latest.       *)
LEMMA StoreStore ==
  ASSUME ControlInv, DataInv, ~IoErrors, TableInv, TlbInv, StoreInv,
         NEW u \in UProcs, PlainStep(u), CalmStep(u),
         NEW g \in Pages, StoreTo(u, g), pc[u] \in {"user", "readStore"}
  PROVE  StoreInv'
<1>1. PICK f \in Frames, new \in Contents(AsidOf(u), g) :
           /\ u \in Owners /\ pgtbl[sup[u]].entry[g] = f
           /\ swap_pool[f] = Record(u, g) /\ ~InTransit(f)
           /\ mem' \in [Frames -> AllContents] /\ latest' \in Blocks
           /\ mem'[f] = new /\ \A h \in Frames : h # f => mem'[h] = mem[h]
           /\ \A a \in Asids : \A h \in Pages :
                latest'[a][h] = IF a = AsidOf(u) /\ h = g THEN new ELSE latest[a][h]
           /\ UNCHANGED <<tlb, flash>>
  BY StoreFacts DEF StoreInv
<1>2. /\ UNCHANGED <<sup, frame, page, sup_asid, pgtbl, swap_pool>>
      /\ \A w \in UProcs : Calm(pc[w], pc'[w])
  BY PlainTables, PlainMoves, AllCalm DEF CalmStep
<1>3. /\ Owners' = Owners
      /\ \A w : AsidOf(w)' = AsidOf(w)
      /\ \A w \in UProcs : /\ pc'[w] = "evicting" <=> pc[w] = "evicting"
                           /\ pc'[w] = "loaded" <=> pc[w] = "loaded"
      /\ \A a, h : Leaving(a, h)' <=> Leaving(a, h)
  <2>1. \A w \in UProcs : /\ w \in Owners' <=> w \in Owners
                          /\ pc'[w] = "evicting" <=> pc[w] = "evicting"
                          /\ pc'[w] = "loaded" <=> pc[w] = "loaded"
    BY <1>2 DEF Calm, Transit, Owners, NoOwner, NoSup
  <2>2. Owners' = Owners
    BY <2>1 DEF Owners
  <2> QED  BY <1>2, <2>1, <2>2 DEF AsidOf, Leaving
<1>4. \A w \in UProcs : pc[w] \in Transit => frame[w] \in Frames /\ frame[w] # f
  BY <1>1 DEF InTransit, Transit, DataInv, DataTyped
<1>5. ASSUME NEW w \in Owners, NEW h \in Pages
      PROVE  /\ latest'[AsidOf(w)][h] = IF w = u /\ h = g THEN new ELSE latest[AsidOf(w)][h]
             /\ pgtbl[sup[w]].entry[h] = f <=> w = u /\ h = g
  <2>1. AsidOf(w) \in Asids /\ (AsidOf(w) = AsidOf(u) => w = u)
    BY <1>1, OwnerFacts
  <2>2. pgtbl[sup[w]].entry[h] = f => w = u /\ h = g
    BY <1>1, TableFacts, RecordUnique
  <2> QED  BY <1>1, <2>1, <2>2
<1>6. InFrame'
  <2> SUFFICES ASSUME NEW w \in Owners, NEW h \in Pages, pgtbl[sup[w]].entry[h] # Invalid
               PROVE  mem'[pgtbl[sup[w]].entry[h]] = latest'[AsidOf(w)][h]
    BY <1>2, <1>3 DEF InFrame
  <2>1. pgtbl[sup[w]].entry[h] \in Frames
    <3>1. sup[w] \in Sups
      BY OwnerFacts
    <3> QED  BY <3>1, TypedTables DEF DataInv, Table
  <2>2. mem[pgtbl[sup[w]].entry[h]] = latest[AsidOf(w)][h]
    BY DEF StoreInv, InFrame
  <2> QED  BY <1>1, <1>5, <2>1, <2>2
<1>7. OnTheWay'
  <2> SUFFICES ASSUME NEW w \in Owners, NEW h \in Pages, NEW x \in UProcs,
                      pc[x] = "evicting", swap_pool[frame[x]].asid = AsidOf(w),
                      swap_pool[frame[x]].pageNo = h
               PROVE  mem'[frame[x]] = latest'[AsidOf(w)][h]
    BY <1>2, <1>3 DEF OnTheWay
  <2>1. mem[frame[x]] = latest[AsidOf(w)][h]
    BY DEF StoreInv, OnTheWay
  <2>2. frame[x] \in Frames /\ frame[x] # f /\ swap_pool[frame[x]] # FreeFrame
    BY <1>4 DEF Transit, DataInv, RecordInv
  <2>3. swap_pool[frame[x]].sup = sup[w]
    <3>1. PICK o \in Owners : /\ swap_pool[frame[x]].asid = AsidOf(o)
                              /\ swap_pool[frame[x]].sup = sup[o]
      BY <2>2, RecordFacts
    <3> QED  BY <3>1, OwnerFacts
  <2>4. pgtbl[sup[w]].entry[h] = Invalid
    BY <2>3 DEF TableInv, EvictInv
  <2>5. ~(w = u /\ h = g)
    BY <1>1, <2>4 DEF Frames, Invalid
  <2> QED  BY <1>1, <1>5, <2>1, <2>2, <2>5
<1>8. InFlash'
  <2> SUFFICES ASSUME NEW w \in Owners, NEW h \in Pages, pgtbl[sup[w]].entry[h] = Invalid,
                      ~Leaving(AsidOf(w), h)
               PROVE  flash[AsidOf(w)][h] = latest'[AsidOf(w)][h]
    BY <1>1, <1>2, <1>3 DEF InFlash
  <2>1. ~(w = u /\ h = g)
    BY <1>1 DEF Frames, Invalid
  <2> QED  BY <1>5, <2>1 DEF StoreInv, InFlash
<1>9. Loaded'
  <2> SUFFICES ASSUME NEW w \in UProcs, pc[w] = "loaded"
               PROVE  mem'[frame[w]] = latest'[AsidOf(w)][page[w]]
    BY <1>2, <1>3 DEF Loaded
  <2>1. w \in Owners /\ w # u /\ page[w] \in Pages
    BY PagerOwns DEF Pre, Transit, DataInv, DataTyped
  <2>2. frame[w] \in Frames /\ frame[w] # f
    BY <1>4 DEF Transit
  <2> QED  BY <1>1, <1>5, <2>1, <2>2 DEF StoreInv, Loaded
<1>10. ContentTyped'
  <2>1. \A a \in Asids : \A h \in Pages : latest'[a][h] \in Contents(a, h)
    BY <1>1 DEF StoreInv, ContentTyped
  <2> QED  BY <1>1, <2>1 DEF StoreInv, ContentTyped
<1> QED  BY <1>6, <1>7, <1>8, <1>9, <1>10 DEF StoreInv
(* The frame is written to the block of the page that its record names.    *)
LEMMA FlashWriteStore ==
  ASSUME ControlInv, DataInv, ~IoErrors, TableInv, StoreInv, NEW u \in UProcs,
         PlainStep(u), FlashWrite(u), pc'[u] = "evicted"
  PROVE  StoreInv'
<1>1. /\ pc[u] = "evicting"
      /\ flash' = [flash EXCEPT ![swap_pool[frame[u]].asid][swap_pool[frame[u]].pageNo] =
                                   mem[frame[u]]]
      /\ UNCHANGED <<mem, latest, sup, frame, page, sup_asid, pgtbl, swap_pool>>
  BY PlainTables DEF FlashWrite, FlashStatus
<1>2. /\ \A w \in UProcs : w # u => Calm(pc[w], pc'[w])
      /\ \A w \in UProcs : w # u => pc[w] \notin Transit /\ pc'[w] \notin Transit
  <2>1. \A w \in UProcs : w # u => Calm(pc[w], pc'[w])
    BY PlainMoves, AllCalm
  <2>2. \A w \in UProcs : w # u => pc[w] \notin Transit
    BY <1>1, Alone DEF SwapHeld, Transit
  <2> QED  BY <2>1, <2>2 DEF Calm
<1>3. \A w \in UProcs : w \in Owners' <=> w \in Owners
  BY <1>1, <1>2 DEF Owners, Calm, NoOwner, NoSup
<1>4. Owners' = Owners /\ \A w : AsidOf(w)' = AsidOf(w)
  BY <1>1, <1>3 DEF Owners, AsidOf
<1>5. PICK f \in Frames : f = frame[u] /\ swap_pool[f] # FreeFrame
  BY <1>1 DEF DataInv, DataTyped, RecordInv
<1>6. PICK v \in Owners, g \in Pages :
        swap_pool[f].asid = AsidOf(v) /\ swap_pool[f].pageNo = g
  BY <1>5, RecordFacts
<1>7. AsidOf(v) \in Asids /\ mem[f] = latest[AsidOf(v)][g]
  BY <1>1, <1>5, <1>6, OwnerFacts DEF StoreInv, OnTheWay
<1>8. /\ flash' \in Blocks
      /\ \A a \in Asids : \A h \in Pages :
           flash'[a][h] = IF a = AsidOf(v) /\ h = g THEN latest[a][h] ELSE flash[a][h]
  <2>1. flash \in [Asids -> [Pages -> AllContents]] /\ mem[f] \in AllContents
    BY DEF StoreInv, ContentTyped, Blocks
  <2>2. /\ [flash EXCEPT ![AsidOf(v)][g] = mem[f]] \in [Asids -> [Pages -> AllContents]]
        /\ \A a \in Asids, h \in Pages : [flash EXCEPT ![AsidOf(v)][g] = mem[f]][a][h]
             = IF a = AsidOf(v) /\ h = g THEN mem[f] ELSE flash[a][h]
    BY <1>7, <2>1, ExceptTwice
  <2>3. flash' = [flash EXCEPT ![AsidOf(v)][g] = mem[f]]
    BY <1>1, <1>5, <1>6
  <2> QED  BY <1>7, <2>2, <2>3 DEF Blocks
<1>9. \A w \in UProcs : pc'[w] \notin {"evicting", "loaded"}
  BY <1>2 DEF Transit
<1>10. InFrame' /\ OnTheWay' /\ Loaded'
  BY <1>1, <1>4, <1>9 DEF StoreInv, InFrame, OnTheWay, Loaded
<1>11. InFlash'
  <2> SUFFICES ASSUME NEW w \in Owners, NEW h \in Pages, pgtbl[sup[w]].entry[h] = Invalid
               PROVE  flash'[AsidOf(w)][h] = latest[AsidOf(w)][h]
    BY <1>1, <1>4 DEF InFlash
  <2>1. AsidOf(w) \in Asids
    BY OwnerFacts
  <2>2. CASE AsidOf(w) = AsidOf(v) /\ h = g
    BY <1>8, <2>1, <2>2
  <2>3. CASE ~(AsidOf(w) = AsidOf(v) /\ h = g)
    <3>1. ~Leaving(AsidOf(w), h)
      BY <1>2, <1>5, <1>6, <2>3 DEF Leaving, Transit
    <3> QED  BY <1>8, <2>1, <2>3, <3>1 DEF StoreInv, InFlash
  <2> QED  BY <2>2, <2>3
<1>12. ContentTyped'
  BY <1>1, <1>8 DEF StoreInv, ContentTyped
<1> QED  BY <1>10, <1>11, <1>12 DEF StoreInv

(* The page is read from its block, which holds what was stored last: the  *)
(* page is not valid, and no page is being written out.                    *)
LEMMA FlashReadStore ==
  ASSUME ControlInv, DataInv, ~IoErrors, TableInv, StoreInv, NEW u \in UProcs,
         PlainStep(u), FlashRead(u), pc'[u] = "loaded"
  PROVE  StoreInv'
<1>1. /\ pc[u] = "loading"
      /\ mem' = [mem EXCEPT ![frame[u]] = flash[pgtbl[sup[u]].asid][page[u]]]
      /\ UNCHANGED <<flash, latest, sup, frame, page, sup_asid, pgtbl, swap_pool>>
  BY PlainTables DEF FlashRead, FlashStatus
<1>2. \A w \in UProcs : w # u => /\ Calm(pc[w], pc'[w])
                                 /\ pc[w] \notin Transit /\ pc'[w] \notin Transit
  <2>1. \A w \in UProcs : w # u => Calm(pc[w], pc'[w])
    BY PlainMoves, AllCalm
  <2>2. \A w \in UProcs : w # u => pc[w] \notin Transit
    BY <1>1, Alone DEF SwapHeld, Transit
  <2> QED  BY <2>1, <2>2 DEF Calm
<1>3. \A w \in UProcs : w \in Owners' <=> w \in Owners
  BY <1>1, <1>2 DEF Owners, Calm, NoOwner, NoSup
<1>4. Owners' = Owners /\ \A w : AsidOf(w)' = AsidOf(w)
  BY <1>1, <1>3 DEF Owners, AsidOf
<1>5. /\ u \in Owners /\ pgtbl[sup[u]].asid = AsidOf(u) /\ AsidOf(u) \in Asids
      /\ frame[u] \in Frames /\ page[u] \in Pages /\ InTransit(frame[u])
  <2>1. u \in Owners
    BY <1>1, PagerOwns DEF Pre, Transit
  <2> QED  BY <1>1, <2>1, OwnerFacts DEF DataInv, DataTyped, InTransit
<1>6. \A a, g : ~Leaving(a, g) /\ ~Leaving(a, g)'
  BY <1>1, <1>2 DEF Leaving, Transit
<1>7. flash[AsidOf(u)][page[u]] = latest[AsidOf(u)][page[u]]
  BY <1>1, <1>5, <1>6 DEF StoreInv, InFlash, TableInv, FaultInv, Pre, Transit
<1>8. /\ mem' \in [Frames -> AllContents]
      /\ mem'[frame[u]] = latest[AsidOf(u)][page[u]]
      /\ \A h \in Frames : h # frame[u] => mem'[h] = mem[h]
  BY <1>1, <1>5, <1>7 DEF StoreInv, ContentTyped, Blocks
<1>9. InFrame'
  <2> SUFFICES ASSUME NEW w \in Owners, NEW h \in Pages, pgtbl[sup[w]].entry[h] # Invalid
               PROVE  mem'[pgtbl[sup[w]].entry[h]] = latest[AsidOf(w)][h]
    BY <1>1, <1>4 DEF InFrame
  <2>1. PICK f \in Frames : f = pgtbl[sup[w]].entry[h]
    <3>1. sup[w] \in Sups
      BY OwnerFacts
    <3> QED  BY <3>1, TypedTables DEF DataInv, Table
  <2>2. f # frame[u]
    BY <1>5, <2>1, TableFacts
  <2> QED  BY <1>8, <2>1, <2>2 DEF StoreInv, InFrame
<1>10. OnTheWay'
  BY <1>1, <1>2, <1>4 DEF OnTheWay, Transit
<1>11. InFlash'
  BY <1>1, <1>4, <1>6 DEF StoreInv, InFlash
<1>12. Loaded'
  BY <1>1, <1>2, <1>4, <1>8 DEF Loaded, Transit
<1>13. ContentTyped'
  BY <1>1, <1>8 DEF StoreInv, ContentTyped
<1> QED  BY <1>9, <1>10, <1>11, <1>12, <1>13 DEF StoreInv
(* The page that loses its frame is on its way from then on.               *)
LEMMA EvictStore ==
  ASSUME ControlInv, DataInv, ~IoErrors, TableInv, StoreInv, NEW u \in UProcs, Evict(u)
  PROVE  StoreInv'
<1>1. /\ pc[u] = "pagerHold" /\ Replaced \in Frames
      /\ frame'[u] = Replaced /\ pc'[u] \in {"loading", "evicting"}
      /\ \A w \in UProcs : w # u => pc'[w] = pc[w] /\ frame'[w] = frame[w]
      /\ \A w \in UProcs : pc[w] \notin Transit
      /\ UNCHANGED <<sup, page, sup_asid, swap_pool, mem, flash, latest>>
  BY EvictFacts
<1>2. Owners' = Owners /\ \A w : AsidOf(w)' = AsidOf(w)
  BY <1>1 DEF Owners, AsidOf
<1>3. \A a, h : ~Leaving(a, h)
  BY <1>1 DEF Leaving, Transit
<1>4. CASE pc'[u] = "loading" /\ UNCHANGED pgtbl
  <2>1. \A w \in UProcs : pc[w] \notin {"evicting", "loaded"} /\ pc'[w] \notin {"evicting", "loaded"}
    BY <1>1, <1>4 DEF Transit
  <2> QED  BY <1>1, <1>2, <1>4, <2>1, SameStore
<1>5. ASSUME NEW v \in Owners, NEW g \in Pages, pc'[u] = "evicting",
             swap_pool[Replaced] = Record(v, g), pgtbl[sup[v]].entry[g] = Replaced,
             EntrySet(v, g, Invalid)
      PROVE  StoreInv'
  <2>1. /\ swap_pool[Replaced].asid = AsidOf(v) /\ swap_pool[Replaced].pageNo = g
        /\ mem[Replaced] = latest[AsidOf(v)][g]
    BY <1>1, <1>5 DEF Record, StoreInv, InFrame, Frames, Invalid
  <2>2. \A w \in UProcs : /\ pc'[w] = "evicting" => w = u
                          /\ pc'[w] # "loaded"
    BY <1>1 DEF Transit
  <2>3. InFrame'
    <3> SUFFICES ASSUME NEW w \in Owners, NEW h \in Pages, pgtbl'[sup[w]].entry[h] # Invalid
                 PROVE  mem[pgtbl'[sup[w]].entry[h]] = latest[AsidOf(w)][h]
      BY <1>1, <1>2 DEF InFrame
    <3> QED  BY <1>5 DEF EntrySet, StoreInv, InFrame
  <2>4. OnTheWay'
    <3> SUFFICES ASSUME NEW w \in Owners, NEW h \in Pages,
                        swap_pool[Replaced].asid = AsidOf(w), swap_pool[Replaced].pageNo = h
                 PROVE  mem[Replaced] = latest[AsidOf(w)][h]
      BY <1>1, <1>2, <2>2 DEF OnTheWay
    <3> QED  BY <2>1
  <2>5. InFlash'
    <3> SUFFICES ASSUME NEW w \in Owners, NEW h \in Pages, pgtbl'[sup[w]].entry[h] = Invalid,
                        ~Leaving(AsidOf(w), h)'
                 PROVE  flash[AsidOf(w)][h] = latest[AsidOf(w)][h]
      BY <1>1, <1>2 DEF InFlash
    <3>1. ~(w = v /\ h = g)
      BY <1>1, <1>2, <1>5, <2>1 DEF Leaving
    <3> QED  BY <1>3, <1>5, <3>1 DEF EntrySet, StoreInv, InFlash
  <2>6. Loaded' /\ ContentTyped'
    BY <1>1, <2>2 DEF Loaded, StoreInv, ContentTyped
  <2> QED  BY <2>3, <2>4, <2>5, <2>6 DEF StoreInv
<1> QED  BY <1>4, <1>5, EvictFacts

(* The page becomes valid once its frame holds what was stored last.       *)
LEMMA CommitStore ==
  ASSUME ControlInv, DataInv, ~IoErrors, TableInv, StoreInv, NEW u \in UProcs, Commit(u)
  PROVE  StoreInv'
<1>0. PICK f0 \in Frames, g0 \in Pages : f0 = frame[u] /\ g0 = page[u]
  BY CommitFacts
<1>1. /\ pc[u] = "loaded" /\ u \in Owners
      /\ pc'[u] = "pagerEnd" /\ \A w \in UProcs : w # u => pc'[w] = pc[w]
      /\ \A w \in UProcs : w # u => pc[w] \notin Transit
      /\ EntrySet(u, g0, f0)
      /\ UNCHANGED <<sup, page, frame, sup_asid, mem, flash, latest>>
  BY <1>0, CommitFacts
<1>2. Owners' = Owners /\ \A w : AsidOf(w)' = AsidOf(w)
  BY <1>1 DEF Owners, AsidOf
<1>3. /\ \A w \in UProcs : /\ pc[w] # "evicting"
                           /\ pc'[w] # "evicting" /\ pc'[w] # "loaded"
      /\ \A a, h : ~Leaving(a, h)
  BY <1>1 DEF Leaving, Transit
<1>4. mem[f0] = latest[AsidOf(u)][g0]
  BY <1>0, <1>1 DEF StoreInv, Loaded
<1>5. InFrame'
  <2> SUFFICES ASSUME NEW w \in Owners, NEW h \in Pages, pgtbl'[sup[w]].entry[h] # Invalid
               PROVE  mem[pgtbl'[sup[w]].entry[h]] = latest[AsidOf(w)][h]
    BY <1>1, <1>2 DEF InFrame
  <2>1. CASE w = u /\ h = g0
    BY <1>1, <1>4, <2>1 DEF EntrySet
  <2>2. CASE ~(w = u /\ h = g0)
    BY <1>1, <2>2 DEF EntrySet, StoreInv, InFrame
  <2> QED  BY <2>1, <2>2
<1>6. InFlash'
  <2> SUFFICES ASSUME NEW w \in Owners, NEW h \in Pages, pgtbl'[sup[w]].entry[h] = Invalid
               PROVE  flash[AsidOf(w)][h] = latest[AsidOf(w)][h]
    BY <1>1, <1>2 DEF InFlash
  <2>1. pgtbl[sup[w]].entry[h] = Invalid
    BY <1>1 DEF EntrySet, Frames, Invalid
  <2> QED  BY <1>3, <2>1 DEF StoreInv, InFlash
<1>7. OnTheWay' /\ Loaded' /\ ContentTyped'
  BY <1>1, <1>3 DEF OnTheWay, Loaded, StoreInv, ContentTyped
<1> QED  BY <1>5, <1>6, <1>7 DEF StoreInv

(* The program starts with what its flash device holds.                    *)
LEMMA ExecuteStore ==
  ASSUME ControlInv, DataInv, ~IoErrors, StoreInv, NEW u \in UProcs, NEW n \in Programs,
         NEW a \in Asids, Execute(u, n, a)
  PROVE  StoreInv'
<1>1. /\ Owners = {u} /\ Owners' = {u, n}
      /\ AsidOf(u) = SHELL_ASID /\ AsidOf(u)' = SHELL_ASID /\ AsidOf(n)' = a
      /\ a # SHELL_ASID /\ SHELL_ASID \in Asids /\ pc[u] = "user"
      /\ pc'[u] = "execJoin" /\ pc'[n] = "user" /\ n \in UProcs
      /\ \A w \in UProcs : w \notin {u, n} => pc'[w] = pc[w]
      /\ sup'[u] = sup[u] /\ pgtbl'[sup[u]] = pgtbl[sup[u]]
      /\ \A g \in Pages : pgtbl'[sup'[n]].entry[g] = Invalid
      /\ latest' = [latest EXCEPT ![a] = flash[a]]
      /\ UNCHANGED <<page, frame, swap_pool, mem, flash>>
  BY ExecuteFacts, SizesAssumption DEF SHELL_ASID, Asids
<1>2. /\ \A w \in UProcs : /\ pc[w] \notin {"evicting", "loaded"}
                           /\ pc'[w] \notin {"evicting", "loaded"}
      /\ \A b, h : ~Leaving(b, h) /\ ~Leaving(b, h)'
  <2>1. \A w \in UProcs : w # u => pc[w] \notin Pre
    BY <1>1, PagerOwns
  <2>2. \A w \in UProcs : /\ pc[w] \notin {"evicting", "loaded"}
                          /\ pc'[w] \notin {"evicting", "loaded"}
    BY <1>1, <2>1 DEF Pre, Transit
  <2> QED  BY <2>2 DEF Leaving
<1>3. /\ latest' \in Blocks
      /\ \A b \in Asids : latest'[b] = IF b = a THEN flash[a] ELSE latest[b]
  BY <1>1 DEF StoreInv, ContentTyped, Blocks
<1>4. InFrame'
  <2> SUFFICES ASSUME NEW w \in {u, n}, NEW h \in Pages, pgtbl'[sup'[w]].entry[h] # Invalid
               PROVE  mem[pgtbl'[sup'[w]].entry[h]] = latest'[AsidOf(w)'][h]
    BY <1>1 DEF InFrame
  <2>1. w = u
    BY <1>1
  <2> QED  BY <1>1, <1>3, <2>1 DEF StoreInv, InFrame
<1>5. InFlash'
  <2> SUFFICES ASSUME NEW w \in {u, n}, NEW h \in Pages, pgtbl'[sup'[w]].entry[h] = Invalid
               PROVE  flash[AsidOf(w)'][h] = latest'[AsidOf(w)'][h]
    BY <1>1 DEF InFlash
  <2>1. CASE w = u
    BY <1>1, <1>2, <1>3, <2>1 DEF StoreInv, InFlash
  <2>2. CASE w = n
    BY <1>1, <1>3, <2>2
  <2> QED  BY <2>1, <2>2
<1>6. OnTheWay' /\ Loaded'
  BY <1>2 DEF OnTheWay, Loaded
<1>7. ContentTyped'
  BY <1>1, <1>3 DEF StoreInv, ContentTyped
<1> QED  BY <1>4, <1>5, <1>6, <1>7 DEF StoreInv
(* The plain steps.                                                        *)
LEMMA PlainStore ==
  ASSUME ControlInv, DataInv, ~IoErrors, TableInv, TlbInv, StoreInv, NEW u \in UProcs,
         PlainStep(u)
  PROVE  StoreInv'
<1>1. /\ UNCHANGED <<sup, frame, sup_asid, pgtbl, swap_pool>>
      /\ \A w \in UProcs : w # u => Calm(pc[w], pc'[w])
  BY PlainTables, PlainMoves, AllCalm
<1>2. ASSUME UNCHANGED memory, pc[u] \in NoOwner <=> pc'[u] \in NoOwner,
             pc'[u] = "evicting" <=> pc[u] = "evicting",
             pc'[u] = "loaded" => pc[u] = "loaded" /\ page'[u] = page[u],
             \A w \in UProcs : w # u => page'[w] = page[w]
      PROVE  StoreInv'
  <2>1. \A w \in UProcs : /\ w \in Owners' => w \in Owners
                          /\ pc'[w] = "evicting" <=> pc[w] = "evicting"
                          /\ pc'[w] = "loaded" => pc[w] = "loaded" /\ page'[w] = page[w]
    BY <1>1, <1>2 DEF Calm, Transit, Owners, NoOwner, NoSup
  <2>2. \A w \in Owners' : w \in Owners /\ AsidOf(w)' = AsidOf(w)
    BY <1>1, <2>1 DEF Owners, AsidOf
  <2> QED  BY <1>1, <1>2, <2>1, <2>2, SameStore DEF memory
<1>3. CASE CalmStep(u)
  <2>1. CASE UNCHANGED memory
    BY <1>2, <1>3, <2>1 DEF CalmStep, Calm, Transit
  <2>2. CASE pc[u] \in {"user", "readStore"} /\ \E g \in Pages : StoreTo(u, g)
    BY <1>3, <2>2, StoreStore
  <2> QED  BY <1>3, <2>1, <2>2 DEF CalmStep
<1>4. CASE pc[u] = "evicted" /\ pc'[u] = "loading" /\ UNCHANGED <<page, memory>>
  BY <1>2, <1>4 DEF NoOwner, NoSup
<1>5. CASE \E g \in Pages : PageFault(u, g) /\ pc'[u] \in {"pagerWait", "pagerHold"}
  <2>1. PICK g \in Pages : PageFault(u, g) /\ pc'[u] \in {"pagerWait", "pagerHold"}
    BY <1>5
  <2>2. \A w \in UProcs : w # u => page'[w] = page[w]
    BY <2>1 DEF PageFault, DataInv, DataTyped
  <2> QED  BY <1>2, <2>1, <2>2 DEF PageFault, Accessing, NoOwner, NoSup
<1> QED  BY <1>3, <1>4, <1>5, PlainKinds, FlashWriteStore, FlashReadStore

(* All steps together.                                                     *)
LEMMA NextStore ==
  ASSUME ControlInv, DataInv, ~IoErrors, ~Rerun, TableInv, TlbInv, StoreInv, [Next]_vars
  PROVE  StoreInv'
<1>1. ASSUME NEW u \in UProcs, NEW g \in Pages, Refill(u, g)  PROVE StoreInv'
  <2>1. /\ UNCHANGED <<pc, sup, page, frame, sup_asid, pgtbl, swap_pool>>
        /\ UNCHANGED <<mem, flash, latest>>
    BY <1>1, RefillFacts
  <2> QED  BY <2>1, SameStore DEF Owners, AsidOf
<1>2. ASSUME NEW u \in UProcs, TermFree(u)  PROVE StoreInv'
  <2>1. /\ Owners' = Owners \ {u}
        /\ \A w \in UProcs : pc[w] \notin Transit /\ pc'[w] \notin Transit
        /\ UNCHANGED <<local, sups, memory>>
    BY <1>2, TermFreeFacts
  <2> QED  BY <2>1, SameStore DEF Transit, AsidOf, local, sups, memory
<1>3. ASSUME NEW u \in UProcs, TermDealloc(u)  PROVE StoreInv'
  <2>1. /\ pc[u] = "termFreed" /\ pc'[u] = "termSignal"
        /\ \A w \in UProcs : w # u => pc'[w] = pc[w]
        /\ UNCHANGED <<sup, page, frame, pgtbl, swap_pool, mem, flash, latest>>
    BY <1>3, ProcFacts DEF TermDealloc, Goto, local, pool, memory, ControlInv, PlacesInv
  <2> QED  BY <1>3, <2>1, TermDeallocTable, SameStore
<1>4. ASSUME TestEnd \/ \E u \in UProcs : TermEnd(u)  PROVE StoreInv'
  <2>1. /\ \A w \in UProcs : pc'[w] = pc[w] \/ (pc'[w] = "absent" /\ pc[w] \in NoSup)
        /\ Owners' = Owners
        /\ UNCHANGED <<local, sups, pool, memory>>
    BY <1>4, EndFacts
  <2>2. \A w \in UProcs : /\ pc'[w] = "evicting" <=> pc[w] = "evicting"
                          /\ pc'[w] = "loaded" => pc[w] = "loaded"
    BY <2>1 DEF NoSup
  <2> QED  BY <2>1, <2>2, SameStore DEF AsidOf, local, sups, pool, memory
<1>5. ASSUME TestJoin  PROVE StoreInv'
  BY <1>5, TestJoinTable, SameStore DEF AsidOf, local, sups, pool, memory
<1>6. ASSUME UNCHANGED vars  PROVE StoreInv'
  BY <1>6, SameStore DEF vars, local, sups, pool, memory, AsidOf, Owners
<1> QED  BY <1>1, <1>2, <1>3, <1>4, <1>5, <1>6, StepKinds, PlainStore, EvictStore,
            CommitStore, ExecuteStore DEF OtherStep

(* At the start every block holds what is in it.                           *)
LEMMA InitStore ==
  ASSUME Init
  PROVE  StoreInv
<1>1. /\ latest = flash
      /\ flash = [a \in Asids |-> [g \in Pages |-> Content(a, g, 0)]]
      /\ mem = [f \in Frames |-> Content(0, 0, 0)]
      /\ \A s \in Sups : \A g \in Pages : pgtbl[s].entry[g] = Invalid
      /\ \A u \in UProcs : sup[u] \in Sups /\ pc[u] \in {"user", "absent"}
  <2>1. UProcMax \in Sups
    BY SizesAssumption DEF Sups
  <2> QED  BY <2>1, ProcFacts, ProcsAssumption DEF Init, EmptyTable
<1>2. \A a \in Asids \cup {0} : \A g \in Pages \cup {0} :
        Content(a, g, 0) \in Contents(a, g) /\ Content(a, g, 0) \in AllContents
  BY SizesAssumption, ContentFacts
<1>3. \A u \in Owners : u \in UProcs /\ AsidOf(u) \in Asids
  <2>1. \A u \in Owners : u = ShellProc
    BY ProcsAssumption, ProcFacts DEF Init, Owners
  <2>2. ShellProc \in UProcs /\ UProcMax \in Sups /\ 1 \in Asids
    BY SizesAssumption DEF UProcs, Sups, Asids
  <2>3. AsidOf(ShellProc) = 1
    BY <2>2 DEF Init, AsidOf, SHELL_ASID
  <2> QED  BY <2>1, <2>2, <2>3
<1>4. InFrame /\ InFlash
  BY <1>1, <1>3 DEF InFrame, InFlash
<1>5. OnTheWay /\ Loaded
  BY <1>1 DEF OnTheWay, Loaded
<1>6. ContentTyped
  BY <1>1, <1>2 DEF ContentTyped, Blocks
<1> QED  BY <1>4, <1>5, <1>6 DEF StoreInv

(* Every reachable state.                                                  *)
THEOREM StoreInductive == Spec => [](~IoErrors /\ ~Rerun => StoreInv)
<1>1. Init => (~IoErrors /\ ~Rerun => StoreInv)
  BY InitStore
<1>2. ControlInv /\ DataInv /\ (~IoErrors => TableInv) /\ (~IoErrors /\ ~Rerun => TlbInv)
        /\ (~IoErrors /\ ~Rerun => StoreInv) /\ [Next]_vars
        => (~IoErrors /\ ~Rerun => StoreInv)'
  <2>1. ASSUME ControlInv, DataInv, TableInv, TlbInv, StoreInv, [Next]_vars,
               ~IoErrors, ~Rerun
        PROVE  StoreInv'
    BY <2>1, NextStore
  <2> QED  BY <2>1
<1> QED  BY <1>1, <1>2, SupportInductive, PagingInductive, TlbInductive, PTL DEF Spec

(* No store is lost between frames and flash devices: what a program       *)
(* stored last in a page is in the page's frame, in its block, or on the   *)
(* way from one to the other, where no flash operation fails and no        *)
(* program is executed twice.                                              *)
THEOREM NoStoreLost == Spec => [](~IoErrors /\ ~Rerun => NoLostStore)
<1>1. ASSUME ControlInv, DataInv, ~IoErrors, StoreInv
      PROVE  NoLostStore
  <2> SUFFICES ASSUME NEW u \in Owners, NEW g \in Pages
               PROVE  \/ /\ pgtbl[sup[u]].entry[g] \in Frames
                         /\ mem[pgtbl[sup[u]].entry[g]] = latest[AsidOf(u)][g]
                      \/ /\ pgtbl[sup[u]].entry[g] = Invalid
                         /\ flash[AsidOf(u)][g] = latest[AsidOf(u)][g]
                      \/ /\ pgtbl[sup[u]].entry[g] = Invalid
                         /\ \E w \in UProcs : /\ pc[w] = "evicting"
                                              /\ mem[frame[w]] = latest[AsidOf(u)][g]
                                              /\ swap_pool[frame[w]].asid = AsidOf(u)
                                              /\ swap_pool[frame[w]].pageNo = g
    BY DEF NoLostStore
  <2>1. sup[u] \in Sups
    BY <1>1, OwnerFacts
  <2>2. pgtbl[sup[u]].entry[g] \in Frames \cup {Invalid}
    BY <1>1, <2>1, TypedTables DEF DataInv, Table
  <2>3. CASE pgtbl[sup[u]].entry[g] # Invalid
    BY <1>1, <2>2, <2>3 DEF StoreInv, InFrame
  <2>4. CASE pgtbl[sup[u]].entry[g] = Invalid /\ ~Leaving(AsidOf(u), g)
    BY <1>1, <2>4 DEF StoreInv, InFlash
  <2>5. CASE pgtbl[sup[u]].entry[g] = Invalid /\ Leaving(AsidOf(u), g)
    BY <1>1, <2>5 DEF StoreInv, OnTheWay, Leaving
  <2> QED  BY <2>3, <2>4, <2>5
<1>2. ControlInv /\ DataInv /\ (~IoErrors /\ ~Rerun => StoreInv)
        => (~IoErrors /\ ~Rerun => NoLostStore)
  BY <1>1
<1> QED  BY <1>2, SupportInductive, StoreInductive, PTL
-----------------------------------------------------------------------------
(* What programs see is private memory, where no flash operation fails and *)
(* no program is executed twice.                                           *)

HasSpace(a) == \E u \in Owners : AsidOf(u) = a

(* What is stored, by address space.                                       *)
View == [a \in Asids |->
           [g \in Pages |-> IF HasSpace(a) THEN latest[a][g].version ELSE Dead]]

Values == 0..(Versions - 1)

(* A load of its own page gives a program what it stored last.             *)
LEMMA SeenIsLatest ==
  ASSUME ControlInv, DataInv, ~IoErrors, TlbInv, StoreInv, NEW u \in Owners, NEW g \in Pages
  PROVE  Seen(u, g) = latest[AsidOf(u)][g]
<1> DEFINE e   == IF tlb[AsidOf(u)][g] # Absent THEN tlb[AsidOf(u)][g]
                  ELSE pgtbl[sup[u]].entry[g]
           out == {w \in UProcs : /\ pc[w] = "evicting"
                                  /\ swap_pool[frame[w]].asid = AsidOf(u)
                                  /\ swap_pool[frame[w]].pageNo = g}
<1>1. e = pgtbl[sup[u]].entry[g]
  BY DEF TlbInv, TlbAgrees
<1>2. e \in Frames \cup {Invalid}
  <2>1. sup[u] \in Sups
    BY OwnerFacts
  <2> QED  BY <1>1, <2>1, TypedTables DEF DataInv, Table
<1>3. Seen(u, g) = IF e \in Frames THEN mem[e]
                   ELSE IF out # {} THEN mem[frame[CHOOSE w \in out : TRUE]]
                   ELSE flash[AsidOf(u)][g]
  BY DEF Seen
<1>4. e \in Frames => mem[e] = latest[AsidOf(u)][g]
  BY <1>1 DEF StoreInv, InFrame, Frames, Invalid
<1>5. out # {} => mem[frame[CHOOSE w \in out : TRUE]] = latest[AsidOf(u)][g]
  <2>1. \A w \in out : mem[frame[w]] = latest[AsidOf(u)][g]
    BY DEF StoreInv, OnTheWay
  <2>2. out # {} => (CHOOSE w \in out : TRUE) \in out
    OBVIOUS
  <2> HIDE DEF out
  <2> QED  BY <2>1, <2>2
<1>6. e = Invalid /\ out = {} => flash[AsidOf(u)][g] = latest[AsidOf(u)][g]
  BY <1>1 DEF StoreInv, InFlash, Leaving
<1> HIDE DEF e, out
<1> QED  BY <1>2, <1>3, <1>4, <1>5, <1>6

(* What all programs see is what they stored.                              *)
LEMMA ShownIsView ==
  ASSUME ControlInv, DataInv, ~IoErrors, TlbInv, StoreInv
  PROVE  Shown = View /\ Stored = View
<1>1. ASSUME NEW u \in Owners, NEW g \in Pages
      PROVE  /\ Seen(u, g) = latest[AsidOf(u)][g]
             /\ Seen(u, g).asid = AsidOf(u) /\ Seen(u, g).page = g
  <2>1. latest[AsidOf(u)][g] \in Contents(AsidOf(u), g)
    BY OwnerFacts DEF StoreInv, ContentTyped
  <2> QED  BY <2>1, SeenIsLatest, ContentFacts
<1> DEFINE us(a) == {u \in Owners : AsidOf(u) = a}
           the(a) == CHOOSE u \in us(a) : TRUE
<1>2. ASSUME NEW a \in Asids
      PROVE  /\ us(a) = {} <=> ~HasSpace(a)
             /\ HasSpace(a) => the(a) \in Owners /\ AsidOf(the(a)) = a
  <2>1. us(a) = {} <=> ~HasSpace(a)
    BY DEF HasSpace
  <2>2. us(a) # {} => the(a) \in us(a)
    OBVIOUS
  <2> QED  BY <2>1, <2>2
<1>3. Shown = [a \in Asids |-> [g \in Pages |->
                 IF us(a) = {} THEN Dead
                 ELSE IF Seen(the(a), g).asid = AsidOf(the(a)) /\ Seen(the(a), g).page = g
                      THEN Seen(the(a), g).version ELSE Foreign]]
  BY DEF Shown, BySpace
<1>4. Stored = [a \in Asids |-> [g \in Pages |->
                  IF us(a) = {} THEN Dead ELSE latest[AsidOf(the(a))][g].version]]
  BY DEF Stored, BySpace
<1> HIDE DEF us, the
<1> QED  BY <1>1, <1>2, <1>3, <1>4 DEF View

(* The types of what is seen.                                              *)
LEMMA ViewFacts ==
  ASSUME ContentTyped
  PROVE  \A a \in Asids : View[a] \in IF HasSpace(a) THEN [Pages -> Values]
                                      ELSE {Memory!NoSpace}
  BY ContentFacts DEF View, ContentTyped, Values, Memory!NoSpace
(* A step that nobody sees: the same owners and the same stores.           *)
LEMMA SameView ==
  ASSUME Owners' = Owners, \A w \in Owners : AsidOf(w)' = AsidOf(w), UNCHANGED latest
  PROVE  View' = View
<1>1. \A a : HasSpace(a)' <=> HasSpace(a)
  BY DEF HasSpace
<1> QED  BY <1>1 DEF View

(* The plain steps neither start nor end an owner.                         *)
LEMMA PlainOwners ==
  ASSUME ControlInv, ~IoErrors, NEW u \in UProcs, PlainStep(u)
  PROVE  Owners' = Owners /\ \A w : AsidOf(w)' = AsidOf(w)
<1>1. UNCHANGED <<sup, sup_asid>> /\ \A w \in UProcs : w # u => Calm(pc[w], pc'[w])
  BY PlainTables, PlainMoves, AllCalm
<1>2. pc'[u] \in NoOwner <=> pc[u] \in NoOwner
  BY PlainKinds DEF CalmStep, Calm, FlashWrite, FlashRead, PageFault, Accessing, NoOwner, NoSup
<1>3. \A w \in UProcs : w \in Owners' <=> w \in Owners
  BY <1>1, <1>2 DEF Owners, Calm, NoOwner, NoSup
<1> QED  BY <1>1, <1>3 DEF Owners, AsidOf

(* A store changes one page of one address space.                          *)
LEMMA StoreView ==
  ASSUME ControlInv, DataInv, ~IoErrors, TableInv, TlbInv, ContentTyped,
         NEW u \in UProcs, PlainStep(u), NEW g \in Pages, StoreTo(u, g),
         pc[u] \in {"user", "readStore"}
  PROVE  \E a \in Asids :
           /\ HasSpace(a) /\ View'[a][g] \in Values
           /\ \A h \in Pages \ {g} : View'[a][h] = View[a][h]
           /\ \A b \in Asids \ {a} : View'[b] = View[b]
<1>1. PICK new \in Contents(AsidOf(u), g) :
        /\ u \in Owners
        /\ \A a \in Asids : \A h \in Pages :
             latest'[a][h] = IF a = AsidOf(u) /\ h = g THEN new ELSE latest[a][h]
  BY StoreFacts
<1>2. new.version \in Values /\ AsidOf(u) \in Asids
  BY <1>1, ContentFacts, OwnerFacts DEF Values
<1>3. \A a : HasSpace(a)' <=> HasSpace(a)
  BY PlainOwners DEF HasSpace
<1>4. HasSpace(AsidOf(u))
  BY <1>1 DEF HasSpace
<1>5. \A a \in Asids : \A h \in Pages :
        View'[a][h] = IF a = AsidOf(u) /\ h = g THEN new.version ELSE View[a][h]
  BY <1>1, <1>3, <1>4 DEF View
<1>6. \A b \in Asids \ {AsidOf(u)} : View'[b] = View[b]
  BY <1>1, <1>3 DEF View
<1> QED  BY <1>2, <1>4, <1>5, <1>6

(* Every step is a store, the start or the end of a program, or nothing    *)
(* that anybody sees.                                                      *)
LEMMA NextView ==
  ASSUME ControlInv, DataInv, ~IoErrors, ~Rerun, TableInv, TlbInv, StoreInv, StoreInv',
         Shown = View, Stored = View, Shown' = View', Stored' = View', [Next]_vars
  PROVE  [Memory!Next]_(Memory!vars)
<1>0. View' = View => UNCHANGED Memory!vars
  BY DEF Memory!vars
<1>1. ASSUME NEW a \in Asids, HasSpace(a), NEW g \in Pages, View'[a][g] \in Values,
             \A h \in Pages \ {g} : View'[a][h] = View[a][h],
             \A b \in Asids \ {a} : View'[b] = View[b]
      PROVE  Memory!Next
  <2>1. View[a] # Memory!NoSpace
    <3>1. View[a] \in [Pages -> Values]
      BY <1>1, ViewFacts DEF StoreInv
    <3>2. View[a][g] \in Nat /\ Memory!NoSpace[g] = -1
      BY <3>1 DEF Values, Memory!NoSpace, Dead
    <3> QED  BY <3>2
  <2>2. Memory!Store(a, g)
    BY <1>1, <2>1 DEF Memory!Store, Memory!Only, Values
  <2> QED  BY <2>2 DEF Memory!Next
<1>2. ASSUME NEW u \in UProcs, PlainStep(u)  PROVE Memory!Next \/ UNCHANGED Memory!vars
  <2>1. CASE UNCHANGED latest
    BY <1>0, <1>2, <2>1, PlainOwners, SameView
  <2>2. CASE pc[u] \in {"user", "readStore"} /\ \E g \in Pages : StoreTo(u, g)
    BY <1>1, <1>2, <2>2, StoreView DEF StoreInv
  <2> QED  BY <1>2, <2>1, <2>2, PlainKinds DEF CalmStep, FlashWrite, FlashRead, PageFault, memory
<1>3. ASSUME NEW u \in UProcs, NEW g \in Pages, Refill(u, g)  PROVE UNCHANGED Memory!vars
  BY <1>0, <1>3, RefillFacts, SameView DEF Owners, AsidOf
<1>4. ASSUME NEW u \in UProcs, Evict(u)  PROVE UNCHANGED Memory!vars
  BY <1>0, <1>4, EvictFacts, SameView DEF Owners, AsidOf
<1>5. ASSUME NEW u \in UProcs, Commit(u)  PROVE UNCHANGED Memory!vars
  BY <1>0, <1>5, CommitFacts, SameView DEF Owners, AsidOf
<1>6. ASSUME NEW u \in UProcs, TermFree(u)  PROVE Memory!Next
  <2>1. /\ u \in Owners /\ Owners' = Owners \ {u} /\ UNCHANGED <<sup, sup_asid, latest>>
        /\ AsidOf(u) \in Asids
    BY <1>6, TermFreeFacts, OwnerFacts DEF local, sups, memory
  <2>2. \A a \in Asids : HasSpace(a)' <=> HasSpace(a) /\ a # AsidOf(u)
    BY <2>1, OwnerFacts DEF HasSpace, AsidOf
  <2>3. View'[AsidOf(u)] = Memory!NoSpace
        /\ \A b \in Asids \ {AsidOf(u)} : View'[b] = View[b]
    BY <2>1, <2>2 DEF View, Memory!NoSpace
  <2>4. Memory!End({AsidOf(u)}) /\ {AsidOf(u)} \in SUBSET Asids
    BY <2>1, <2>3 DEF Memory!End, Memory!Only
  <2> QED  BY <2>4 DEF Memory!Next
<1>7. ASSUME NEW u \in UProcs, TermDealloc(u)  PROVE UNCHANGED Memory!vars
  BY <1>0, <1>7, TermDeallocTable, SameView DEF TermDealloc, memory
<1>8. ASSUME NEW u \in UProcs, NEW n \in Programs, NEW a \in Asids, Execute(u, n, a)
      PROVE  Memory!Next
  <2>1. /\ Owners = {u} /\ Owners' = {u, n}
        /\ AsidOf(u) = SHELL_ASID /\ AsidOf(u)' = SHELL_ASID /\ AsidOf(n)' = a
        /\ a # SHELL_ASID /\ latest' = [latest EXCEPT ![a] = flash[a]]
    BY <1>8, ExecuteFacts
  <2>2. ~HasSpace(a) /\ \A b \in Asids : HasSpace(b)' <=> HasSpace(b) \/ b = a
    BY <2>1 DEF HasSpace
  <2>3. \A b \in Asids \ {a} : latest'[b] = latest[b]
    BY <2>1 DEF StoreInv, ContentTyped, Blocks
  <2>4. View[a] = Memory!NoSpace /\ \A b \in Asids \ {a} : View'[b] = View[b]
    BY <2>2, <2>3 DEF View, Memory!NoSpace
  <2>5. View'[a] \in [Pages -> Values]
    <3>1. \A g \in Pages : latest'[a][g] \in Contents(a, g)
      BY DEF StoreInv, ContentTyped
    <3> QED  BY <2>2, <3>1, ContentFacts DEF View, Values
  <2>6. Memory!Start(a)
    BY <2>4, <2>5 DEF Memory!Start, Memory!Only, Values
  <2> QED  BY <2>6 DEF Memory!Next
<1>9. ASSUME TestEnd \/ \E u \in UProcs : TermEnd(u)  PROVE UNCHANGED Memory!vars
  BY <1>0, <1>9, EndFacts, SameView DEF AsidOf, local, sups, memory
<1>10. ASSUME TestJoin  PROVE UNCHANGED Memory!vars
  BY <1>0, <1>10, TestJoinTable, SameView DEF AsidOf, local, sups, memory
<1>11. ASSUME UNCHANGED vars  PROVE UNCHANGED Memory!vars
  BY <1>0, <1>11, SameView DEF vars, local, sups, memory, AsidOf, Owners
<1> QED  BY <1>2, <1>3, <1>4, <1>5, <1>6, <1>7, <1>8, <1>9, <1>10, <1>11, StepKinds
         DEF OtherStep

(* Demand paging implements private memory: whatever pager, refill handler *)
(* and flash devices do meanwhile, what a program sees of its address      *)
(* space changes by its own stores, its start and its end only, where no   *)
(* flash operation fails and no program is executed twice.                 *)
THEOREM PagingIsPrivateMemory ==
  ASSUME ~IoErrors, ~Rerun
  PROVE  Spec => ImplementsPrivateMemory
<1>1. ControlInv /\ DataInv /\ (~IoErrors => TableInv)
        /\ (~IoErrors /\ ~Rerun => TlbInv) /\ (~IoErrors /\ ~Rerun => StoreInv)
        => /\ Shown = View /\ Stored = View
           /\ TableInv /\ TlbInv /\ StoreInv
  BY ShownIsView
<1>2. Shown = View /\ Stored = View /\ TableInv /\ TlbInv /\ StoreInv => Memory!Init
  <2> SUFFICES ASSUME Shown = View, Stored = View, StoreInv
               PROVE  Memory!Init
    OBVIOUS
  <2>1. \A a \in Asids : View[a] \in [Pages -> Values] \cup {Memory!NoSpace}
    BY ViewFacts DEF StoreInv
  <2>2. View \in [Asids -> [Pages -> Values] \cup {Memory!NoSpace}]
    BY <2>1 DEF View
  <2> QED  BY <2>2 DEF Memory!Init, Values
<1>3. /\ ControlInv /\ DataInv /\ [Next]_vars
      /\ (Shown = View /\ Stored = View /\ TableInv /\ TlbInv /\ StoreInv)
      /\ (Shown = View /\ Stored = View /\ TableInv /\ TlbInv /\ StoreInv)'
      => [Memory!Next]_(Memory!vars)
  BY NextView
<1> QED  BY <1>1, <1>2, <1>3, SupportInductive, PagingInductive, TlbInductive,
            StoreInductive, PTL DEF Spec, ImplementsPrivateMemory, Memory!Spec

=============================================================================
