---------------------------- MODULE LinksProofs ----------------------------
(***************************************************************************)
(* The pointers of Links implement the sequences, sets and functions of    *)
(* Nucleus, for any number of PCBs, semaphores and priorities: every       *)
(* handler's walk through the lists is one step of the nucleus there.      *)
(***************************************************************************)
EXTENDS Links, ListsProofs

Kinds == {"p_list", "p_sib", "s_link"}

Memories ==
  [next : [Links -> Links \cup {None}], prev : [Links -> Links \cup {None}],
   p_parent : [Pcbs -> Pcbs \cup {None}], p_semAdd : [Pcbs -> Keys \cup {None}],
   p_prio : [Pcbs -> Prios], s_key : [Semds -> Keys \cup {None}]]

(* The item p is on a list that goes through links of this kind.           *)
On(m, kind, p) == \E h \in InUse(m) : Kind(h) = kind /\ p \in Range(ItemsOf(m, h))

(* Every list is one, two of the same kind have no item in common, and a   *)
(* link that is on none points to itself, or nowhere.                      *)
Linked(m) ==
  /\ m \in Memories /\ Paired(m) /\ \A h \in Sentinels \ InUse(m) : m.prev[h] = None
  /\ \A h \in InUse(m) : /\ ItemsOf(m, h) \in Seq(Pcbs)
                         /\ IsList(m, h, Chain(Kind(h), ItemsOf(m, h)))
  /\ \A g, h \in InUse(m) :
       g # h /\ Kind(g) = Kind(h) => Range(ItemsOf(m, g)) \cap Range(ItemsOf(m, h)) = {}
  /\ \A kind \in Kinds, p \in Pcbs : ~ On(m, kind, p) => Loose(m, <<kind, p>>)

-----------------------------------------------------------------------------
(* The addresses: a link of a kind is no sentinel.                         *)
LEMMA Addresses ==
  /\ Sentinels \subseteq Links /\ None \notin Links
  /\ \A kind \in Kinds, p \in Pcbs : <<kind, p>> \in Links \ Sentinels
  /\ \A h \in Sentinels : Kind(h) \in Kinds
  /\ {pcbFree_h, readyQueue, semdFree_h, semd_h} \subseteq Sentinels
  /\ \A p \in Pcbs : p_child(p) \in Sentinels /\ procq(p) \in Sentinels
  /\ \A p, d \in Pcbs : p_child(p) # procq(d)
<1> USE DEF Sentinels, Links, Heads, Kinds, Pcbs, Semds, pcbFree_h, semdFree_h, semd_h,
            readyQueue, p_child, procq
<1>1. Sentinels \subseteq Links
  OBVIOUS
<1>2. None \notin Links
  BY AddressesAssumption
<1>3. \A kind \in Kinds, p \in Pcbs : <<kind, p>> \in Links
  <2>1. Kinds \subseteq {"p_list", "p_child", "p_sib", "s_link"} /\ Pcbs = Semds
    OBVIOUS
  <2> QED  BY <2>1
<1>4. \A kind \in Kinds, p \in Pcbs : <<kind, p>> \notin Sentinels
  OBVIOUS
<1>5. \A h \in Sentinels : Kind(h) \in Kinds
  BY DEF Kind
<1> QED  BY <1>1, <1>2, <1>3, <1>4, <1>5

(* Which list goes through which links.                                    *)
LEMMA KindOf ==
  /\ Kind(pcbFree_h) = "p_list" /\ Kind(readyQueue) = "p_list"
  /\ Kind(semdFree_h) = "s_link" /\ Kind(semd_h) = "s_link"
  /\ \A p \in Pcbs : Kind(p_child(p)) = "p_sib" /\ Kind(procq(p)) = "p_list"
  /\ \A h \in Sentinels : /\ Kind(h) = "p_list" <=> h \in Heads
                          /\ Kind(h) = "s_link" <=> h \in {semdFree_h, semd_h}
                          /\ Kind(h) = "p_sib" <=> \E p \in Pcbs : h = p_child(p)
  /\ Heads \subseteq Sentinels
  /\ \A h \in Heads : h = pcbFree_h \/ h = readyQueue \/ \E d \in Pcbs : h = procq(d)
  /\ pcbFree_h # readyQueue /\ semdFree_h # semd_h
  /\ \A p \in Pcbs : /\ pcbFree_h # procq(p) /\ readyQueue # procq(p)
                     /\ \A q \in Pcbs : /\ procq(p) = procq(q) => p = q
                                        /\ p_child(p) = p_child(q) => p = q
<1> USE DEF Sentinels, Heads, Pcbs, Semds, pcbFree_h, semdFree_h, semd_h,
            readyQueue, p_child, procq
<1>1. /\ Kind(pcbFree_h) = "p_list" /\ Kind(readyQueue) = "p_list"
      /\ Kind(semdFree_h) = "s_link" /\ Kind(semd_h) = "s_link"
  BY DEF Kind
<1>2. \A p \in Pcbs : Kind(p_child(p)) = "p_sib" /\ Kind(procq(p)) = "p_list"
  BY DEF Kind
<1>3. \A h \in Sentinels : /\ Kind(h) = "p_list" <=> h \in Heads
                           /\ Kind(h) = "s_link" <=> h \in {semdFree_h, semd_h}
                           /\ Kind(h) = "p_sib" <=> \E p \in Pcbs : h = p_child(p)
  BY DEF Kind
<1> QED  BY <1>1, <1>2, <1>3

(* What a memory consists of.                                              *)
LEMMA MemoryFacts ==
  ASSUME NEW m \in Memories
  PROVE  /\ Memory(m) /\ DOMAIN m.next = Links /\ DOMAIN m.prev = Links
         /\ DOMAIN m = {"next", "prev", "p_parent", "p_semAdd", "p_prio", "s_key"}
         /\ Paired(m) => Sound(m)
<1>1. /\ Memory(m) /\ DOMAIN m.next = Links /\ DOMAIN m.prev = Links
      /\ DOMAIN m = {"next", "prev", "p_parent", "p_semAdd", "p_prio", "s_key"}
  <2>1. DOMAIN m = {"next", "prev", "p_parent", "p_semAdd", "p_prio", "s_key"}
    BY DEF Memories
  <2>2. m = [x \in DOMAIN m |-> m[x]]
    BY DEF Memories
  <2>3. m.next \in [Links -> Links \cup {None}] /\ m.prev \in [Links -> Links \cup {None}]
    BY DEF Memories
  <2> QED  BY <2>1, <2>2, <2>3 DEF Memory
<1> QED  BY <1>1, Addresses DEF Sound

(* The fields that no list operation touches.                              *)
LEMMA SameFieldsFacts ==
  ASSUME NEW m \in Memories, NEW n, SameFields(m, n)
  PROVE  /\ n \in Memories
         /\ n.p_parent = m.p_parent /\ n.p_semAdd = m.p_semAdd
         /\ n.p_prio = m.p_prio /\ n.s_key = m.s_key
<1>1. /\ DOMAIN n = {"next", "prev", "p_parent", "p_semAdd", "p_prio", "s_key"}
      /\ n.p_parent = m.p_parent /\ n.p_semAdd = m.p_semAdd
      /\ n.p_prio = m.p_prio /\ n.s_key = m.s_key
  BY MemoryFacts DEF SameFields
<1>2. n = [x \in DOMAIN n |-> n[x]]
  BY DEF SameFields, Memory
<1>3. n.next \in [Links -> Links \cup {None}] /\ n.prev \in [Links -> Links \cup {None}]
  BY MemoryFacts DEF SameFields, Memory
<1>4. n = [next |-> n.next, prev |-> n.prev, p_parent |-> n.p_parent,
           p_semAdd |-> n.p_semAdd, p_prio |-> n.p_prio, s_key |-> n.s_key]
  BY <1>1, <1>2
<1>5. /\ m.p_parent \in [Pcbs -> Pcbs \cup {None}] /\ m.p_semAdd \in [Pcbs -> Keys \cup {None}]
      /\ m.p_prio \in [Pcbs -> Prios] /\ m.s_key \in [Semds -> Keys \cup {None}]
  BY DEF Memories
<1>6. n \in Memories
  BY <1>1, <1>3, <1>4, <1>5 DEF Memories
<1> QED  BY <1>1, <1>6
(* No queue without duplicates is longer than the table.                   *)
LEMMA QueueFits ==
  ASSUME NEW q \in Seq(Pcbs), IsInjective(q)
  PROVE  Len(q) \in Nat /\ Len(q) <= MaxProc
<1>1. IsFiniteSet(Pcbs) /\ Cardinality(Pcbs) = MaxProc /\ MaxProc \in Nat
  BY FS_Interval, TableAssumption DEF Pcbs
<1>2. Cardinality(Range(q)) <= Cardinality(Pcbs)
  <2>1. Range(q) \subseteq Pcbs
    BY RangeOfSeq
  <2> QED  BY <1>1, <2>1, FS_Subset
<1>3. Len(q) = Cardinality(Range(q)) /\ Len(q) \in Nat
  BY QueueLength, LenProperties
<1> QED  BY <1>1, <1>2, <1>3

(* A list in use, its items and its head.                                  *)
LEMMA ListFacts ==
  ASSUME NEW m, Linked(m), NEW h \in InUse(m), NEW q, q = ItemsOf(m, h)
  PROVE  /\ q \in Seq(Pcbs) /\ IsInjective(q) /\ Range(q) \subseteq Pcbs
         /\ Len(q) \in Nat /\ Len(q) <= MaxProc
         /\ IsList(m, h, Chain(Kind(h), q)) /\ Kind(h) \in Kinds /\ h \in Sentinels
         /\ Memory(m) /\ Sound(m)
         /\ list_empty(m, h) <=> q = <<>>
         /\ q # <<>> => m.next[h] = <<Kind(h), Head(q)>> /\ Head(q) \in Range(q)
<1>1. q \in Seq(Pcbs) /\ IsList(m, h, Chain(Kind(h), q))
  BY DEF Linked
<1>2. h \in Sentinels /\ Kind(h) \in Kinds
  BY Addresses DEF InUse
<1>3. Memory(m) /\ Sound(m)
  BY MemoryFacts DEF Linked
<1>4. /\ Len(q) \in Nat /\ DOMAIN q = 1..Len(q) /\ \A i \in 1..Len(q) : q[i] \in Pcbs
      /\ Len(Chain(Kind(h), q)) = Len(q) /\ IsInjective(q)
      /\ \A i \in 1..Len(q) : Chain(Kind(h), q)[i] = <<Kind(h), q[i]>>
  BY <1>1, ChainFacts
<1>5. Range(q) \subseteq Pcbs
  BY <1>4 DEF Range
<1>6. Len(q) <= MaxProc
  BY <1>1, <1>4, QueueFits
<1>7. m.next[h] = Nth(h, Chain(Kind(h), q), 1)
  <2> DEFINE s == Chain(Kind(h), q)
  <2>1. IsList(m, h, s) /\ Len(s) = Len(q)
    BY <1>1, <1>4
  <2> HIDE DEF s
  <2>2. 1 \in 1..(Len(s) + 1) /\ Nth(h, s, 0) = h /\ 1 - 1 = 0
    BY <1>4, <2>1, NthFacts
  <2>3. m.next[Nth(h, s, 1 - 1)] = Nth(h, s, 1)
    BY <2>1, <2>2, Neighbours
  <2> QED  BY <2>2, <2>3 DEF s
<1>8. CASE q = <<>>
  <2>1. Len(q) = 0
    BY <1>8
  <2>2. Nth(h, Chain(Kind(h), q), 1) = h
    BY <1>4, <2>1 DEF Nth
  <2> QED  BY <1>1, <1>2, <1>3, <1>4, <1>5, <1>6, <1>7, <1>8, <2>2 DEF list_empty
<1>9. CASE q # <<>>
  <2>1. 1 \in 1..Len(q) /\ Head(q) = q[1]
    BY <1>1, <1>4, <1>9, EmptySeq
  <2>2. Nth(h, Chain(Kind(h), q), 1) = <<Kind(h), Head(q)>> /\ Head(q) \in Range(q)
    BY <1>4, <2>1 DEF Nth, Range
  <2>3. <<Kind(h), Head(q)>> # h
    BY <1>2, <1>5, <2>2, Addresses
  <2> QED  BY <1>1, <1>2, <1>3, <1>4, <1>5, <1>6, <1>7, <1>9, <2>2, <2>3 DEF list_empty
<1> QED  BY <1>8, <1>9

(* n is m but for the items of the list of h, which are r in n.            *)
OneListChanges(m, n, h, r) ==
  /\ Linked(n) /\ InUse(n) = InUse(m) /\ ItemsOf(n, h) = r
  /\ \A g \in InUse(m) \ {h} : ItemsOf(n, g) = ItemsOf(m, g)
  /\ n.p_parent = m.p_parent /\ n.p_semAdd = m.p_semAdd
  /\ n.p_prio = m.p_prio /\ n.s_key = m.s_key

(* An operation on the links of one list and of the item that joins or     *)
(* leaves it.                                                              *)
LEMMA ListChanges ==
  ASSUME NEW m, Linked(m), NEW h \in InUse(m), NEW q, q = ItemsOf(m, h),
         NEW n, Sound(n), NEW r \in Seq(Pcbs), IsList(n, h, Chain(Kind(h), r)),
         NEW p \in Pcbs,
         OnlyTouches(m, n, LinksOfChain(h, Kind(h), q) \cup {<<Kind(h), p>>}),
         \/ Range(r) = Range(q) \cup {p} /\ ~ On(m, Kind(h), p)
         \/ p \in Range(q) /\ Range(r) = Range(q) \ {p} /\ Loose(n, <<Kind(h), p>>)
  PROVE  OneListChanges(m, n, h, r)
<1> DEFINE W == LinksOfChain(h, Kind(h), q) \cup {<<Kind(h), p>>}
<1>1. /\ q \in Seq(Pcbs) /\ Range(q) \subseteq Pcbs /\ Kind(h) \in Kinds /\ h \in Sentinels
      /\ IsList(m, h, Chain(Kind(h), q)) /\ Memory(m) /\ m \in Memories
  BY ListFacts DEF Linked
<1>2. /\ n \in Memories /\ Memory(n) /\ DOMAIN n.next = Links /\ DOMAIN m.next = Links
      /\ n.p_parent = m.p_parent /\ n.p_semAdd = m.p_semAdd
      /\ n.p_prio = m.p_prio /\ n.s_key = m.s_key
  BY <1>1, SameFieldsFacts, MemoryFacts DEF OnlyTouches
<1>3. \A l \in W : l = h \/ \E x \in Range(q) \cup {p} : l = <<Kind(h), x>>
  <2>1. DOMAIN Chain(Kind(h), q) = DOMAIN q
    BY <1>1, ChainFacts
  <2> QED  BY <2>1 DEF LinksOfChain, LinksOf, Range, Chain
<1> HIDE DEF W
<1>4. \A l \in Links \ W : n.next[l] = m.next[l] /\ n.prev[l] = m.prev[l]
  BY <1>2 DEF OnlyTouches, W
<1>5. \A g \in Sentinels \ {h} : g \notin W
  BY <1>1, <1>3, Addresses
<1>6. InUse(n) = InUse(m)
  <2>1. n.next[h] \in Links
    <3> DEFINE s == Chain(Kind(h), r)
    <3>1. IsList(n, h, s)
      OBVIOUS
    <3> HIDE DEF s
    <3>2. Len(s) \in Nat /\ Nth(h, s, 0) = h /\ Nth(h, s, 1) \in DOMAIN n.next
      BY <3>1, NthFacts
    <3>3. n.next[Nth(h, s, 0)] = Nth(h, s, 0 + 1) /\ 0 + 1 = 1
      BY <3>1, <3>2 DEF IsList
    <3> QED  BY <1>2, <3>2, <3>3
  <2>2. \A g \in Sentinels \ {h} : n.next[g] = m.next[g]
    BY <1>4, <1>5, Addresses
  <2>3. n.next[h] # None /\ m.next[h] # None
    BY <2>1, Addresses DEF InUse
  <2> QED  BY <1>1, <2>2, <2>3 DEF InUse
<1>7. ASSUME NEW g \in InUse(m) \ {h}, NEW x \in Range(ItemsOf(m, g))
      PROVE  <<Kind(g), x>> \notin W
  <2>1. Kind(g) = Kind(h) => x \notin Range(q) /\ x # p
    BY DEF Linked, On
  <2>2. <<Kind(g), x>> # h
    <3>1. x \in Pcbs /\ Kind(g) \in Kinds
      BY <1>7, ListFacts
    <3> QED  BY <1>1, <3>1, Addresses
  <2> QED  BY <1>3, <2>1, <2>2
<1>8. ASSUME NEW g \in InUse(m) \ {h}
      PROVE  /\ ItemsOf(n, g) = ItemsOf(m, g)
             /\ IsList(n, g, Chain(Kind(g), ItemsOf(m, g)))
  <2>1. PICK s : s = ItemsOf(m, g)
    OBVIOUS
  <2>2. /\ s \in Seq(Pcbs) /\ IsList(m, g, Chain(Kind(g), s)) /\ Len(s) <= MaxProc
        /\ g \in Sentinels
    BY <2>1, ListFacts
  <2>3. ASSUME NEW l \in LinksOf(g, Chain(Kind(g), s))  PROVE l \in Links \ W
    <3>1. l \in Links
      BY <1>2, <2>2, NthFacts
    <3>2. l = g \/ \E x \in Range(s) : l = <<Kind(g), x>>
      <4>1. DOMAIN Chain(Kind(g), s) = DOMAIN s
        BY <2>2, ChainFacts
      <4> QED  BY <4>1 DEF LinksOf, Range, Chain
    <3> QED  BY <1>5, <1>7, <2>1, <2>2, <3>1, <3>2
  <2>4. IsList(n, g, Chain(Kind(g), s))
    <3> DEFINE c == Chain(Kind(g), s)
    <3>1. /\ IsList(m, g, c) /\ DOMAIN n.next = DOMAIN m.next
          /\ \A l \in LinksOf(g, c) : n.next[l] = m.next[l] /\ n.prev[l] = m.prev[l]
      BY <1>2, <1>4, <2>2, <2>3
    <3> HIDE DEF c
    <3>2. IsList(n, g, c)
      BY <3>1, Frame
    <3> QED  BY <3>2 DEF c
  <2>5. ItemsOf(n, g) = s
    BY <1>2, <2>2, <2>4, ChainItems
  <2> QED  BY <2>1, <2>4, <2>5
<1>9. ItemsOf(n, h) = r
  <2>1. Len(r) <= MaxProc
    BY ChainFacts, QueueFits
  <2> QED  BY <1>2, <2>1, ChainItems
<1>10. \A a, g \in InUse(m) :
         a # g /\ Kind(a) = Kind(g) => Range(ItemsOf(n, a)) \cap Range(ItemsOf(n, g)) = {}
  <2>1. \A g \in InUse(m) \ {h} :
          Kind(g) = Kind(h) => Range(ItemsOf(m, g)) \cap Range(r) = {}
    <3> TAKE g \in InUse(m) \ {h}
    <3>1. Kind(g) = Kind(h) => /\ Range(ItemsOf(m, g)) \cap Range(q) = {}
                               /\ p \notin Range(ItemsOf(m, g))
      BY DEF Linked, On
    <3> QED  BY <3>1
  <2> QED  BY <1>8, <1>9, <2>1 DEF Linked
<1>11. ASSUME NEW kind \in Kinds, NEW x \in Pcbs, ~ On(n, kind, x)
       PROVE  Loose(n, <<kind, x>>)
  <2>1. CASE kind = Kind(h) /\ x = p
    <3>1. p \notin Range(r)
      BY <1>6, <1>9, <1>11, <2>1 DEF On
    <3> QED  BY <2>1, <3>1
  <2>2. CASE kind # Kind(h) \/ x # p
    <3>1. kind = Kind(h) => x \notin Range(q)
      BY <1>6, <1>9, <1>11, <2>2 DEF On
    <3>2. ~ On(m, kind, x)
      BY <1>6, <1>8, <1>11, <3>1 DEF On
    <3>3. <<kind, x>> \in Links \ W
      BY <1>1, <1>3, <2>2, <3>1, Addresses
    <3> QED  BY <1>4, <3>2, <3>3 DEF Loose, Linked
  <2> QED  BY <2>1, <2>2
<1>12. Linked(n)
  <2>1. \A g \in Sentinels \ InUse(n) : n.prev[g] = None
    BY <1>4, <1>5, <1>6, Addresses DEF Linked
  <2> QED  BY <1>2, <1>6, <1>8, <1>9, <1>10, <1>11, <2>1 DEF Linked, Sound
<1> QED  BY <1>2, <1>6, <1>8, <1>9, <1>12 DEF OneListChanges
(* A link that may join the list of h.                                     *)
LEMMA MayJoin ==
  ASSUME NEW m, Linked(m), NEW h \in InUse(m), NEW p \in Pcbs, ~ On(m, Kind(h), p)
  PROVE  /\ <<Kind(h), p>> \in DOMAIN m.next \ LinksOfChain(h, Kind(h), ItemsOf(m, h))
         /\ Loose(m, <<Kind(h), p>>) /\ p \notin Range(ItemsOf(m, h))
<1>1. PICK q : q = ItemsOf(m, h)
  OBVIOUS
<1>2. /\ q \in Seq(Pcbs) /\ Range(q) \subseteq Pcbs /\ Kind(h) \in Kinds /\ h \in Sentinels
      /\ IsList(m, h, Chain(Kind(h), q)) /\ m \in Memories
  BY <1>1, ListFacts DEF Linked
<1>3. p \notin Range(q) /\ Loose(m, <<Kind(h), p>>)
  BY <1>1, <1>2 DEF On, Linked
<1>4. <<Kind(h), p>> \in Links /\ <<Kind(h), p>> # h /\ DOMAIN m.next = Links
  BY <1>2, Addresses, MemoryFacts
<1>5. DOMAIN Chain(Kind(h), q) = DOMAIN q
  BY <1>2, ChainFacts
<1>6. <<Kind(h), p>> \notin LinksOfChain(h, Kind(h), q)
  BY <1>3, <1>4, <1>5 DEF LinksOfChain, LinksOf, Chain, Range
<1> QED  BY <1>1, <1>3, <1>4, <1>6

(* list_add.                                                               *)
LEMMA AddFirst ==
  ASSUME NEW m, Linked(m), NEW h \in InUse(m), NEW p \in Pcbs, ~ On(m, Kind(h), p),
         NEW n, n = list_add(m, <<Kind(h), p>>, h)
  PROVE  OneListChanges(m, n, h, <<p>> \o ItemsOf(m, h))
<1>1. PICK q, kind : q = ItemsOf(m, h) /\ kind = Kind(h)
  OBVIOUS
<1>2. /\ q \in Seq(Pcbs) /\ IsInjective(q) /\ Len(q) \in Nat
      /\ IsList(m, h, Chain(kind, q)) /\ Memory(m) /\ Sound(m)
  BY <1>1, ListFacts
<1>3. /\ <<kind, p>> \in DOMAIN m.next \ LinksOfChain(h, kind, q)
      /\ Loose(m, <<kind, p>>) /\ p \notin Range(q)
  BY <1>1, MayJoin
<1>4. PICK r : r = <<p>> \o q
  OBVIOUS
<1>5. /\ r \in Seq(Pcbs) /\ Len(r) = Len(q) + 1
      /\ \A j \in 1..(Len(q) + 1) : r[j] = IF j = 1 THEN p ELSE q[j - 1]
  <2>1. <<p>> \in Seq(Pcbs) /\ Len(<<p>>) = 1 /\ <<p>>[1] = p
    OBVIOUS
  <2>2. r \in Seq(Pcbs) /\ Len(r) = Len(q) + 1
    BY <1>2, <1>4, <2>1, ConcatProperties
  <2>3. \A j \in 1..(Len(q) + 1) : r[j] = IF j <= 1 THEN <<p>>[j] ELSE q[j - 1]
    BY <1>2, <1>4, <2>1, ConcatProperties
  <2>4. \A j \in 1..(Len(q) + 1) : j <= 1 <=> j = 1
    BY <1>2
  <2> QED  BY <2>1, <2>2, <2>3, <2>4
<1>6. IsInsertion(Pcbs, q, p, 1, r) /\ 1 \in 1..(Len(q) + 1)
  BY <1>2, <1>5 DEF IsInsertion
<1>7. Range(r) = Range(q) \cup {p}
  <2>1. \A a \in Seq(Pcbs), y \in Pcbs :
          IsInjective(a) /\ y \notin Range(a) => Range(<<y>> \o a) = Range(a) \cup {y}
    BY ConsLemma
  <2> QED  BY <1>2, <1>3, <1>4, <2>1
<1>8. n = Join(m, <<kind, p>>, Nth(h, Chain(kind, q), 1 - 1), Nth(h, Chain(kind, q), 1))
  <2> DEFINE s == Chain(kind, q)
  <2>1. IsList(m, h, s) /\ Len(s) = Len(q)
    BY <1>2, ChainFacts
  <2> HIDE DEF s
  <2>2. 1 \in 1..(Len(s) + 1) /\ Nth(h, s, 0) = h /\ 1 - 1 = 0
    BY <1>2, <2>1, NthFacts
  <2>3. m.next[Nth(h, s, 1 - 1)] = Nth(h, s, 1)
    BY <2>1, <2>2, Neighbours
  <2>4. n = Join(m, <<kind, p>>, Nth(h, s, 1 - 1), Nth(h, s, 1))
    BY <1>1, <2>2, <2>3 DEF list_add
  <2> QED  BY <2>4 DEF s
<1>9. /\ IsList(n, h, Chain(kind, r)) /\ Sound(n)
      /\ OnlyTouches(m, n, LinksOfChain(h, kind, q) \cup {<<kind, p>>})
  BY <1>2, <1>3, <1>6, <1>8, JoinOnChain
<1>10. OneListChanges(m, n, h, r)
  BY <1>1, <1>5, <1>7, <1>9, ListChanges
<1> QED  BY <1>1, <1>4, <1>10

(* list_add_tail, of PCBs.                                                 *)
LEMMA AddLast ==
  ASSUME NEW m, Linked(m), NEW h \in InUse(m), Kind(h) = "p_list", NEW p \in Pcbs,
         ~ On(m, "p_list", p), NEW n, n = list_add_tail(m, p_list(p), h)
  PROVE  OneListChanges(m, n, h, Append(ItemsOf(m, h), p))
<1>1. PICK q : q = ItemsOf(m, h)
  OBVIOUS
<1>2. /\ q \in Seq(Pcbs) /\ Memory(m) /\ Sound(m) /\ IsQueue(m, h, q)
  BY <1>1, ListFacts DEF IsQueue
<1>3. p_list(p) \in DOMAIN m.next \ LinksOfQueue(h, q) /\ Loose(m, p_list(p))
  BY <1>1, MayJoin DEF p_list, LinksOfQueue
<1>4. PICK r : r = Append(q, p)
  OBVIOUS
<1>5. r \in Seq(Pcbs) /\ Range(r) = Range(q) \cup {p}
  BY <1>2, <1>4, EnqueueLemma
<1>6. /\ IsQueue(n, h, r) /\ Sound(n)
      /\ OnlyTouches(m, n, LinksOfQueue(h, q) \cup {p_list(p)})
  BY <1>2, <1>3, <1>4, AppendOnLinks
<1>7. OneListChanges(m, n, h, r)
  BY <1>1, <1>5, <1>6, ListChanges DEF IsQueue, p_list, LinksOfQueue
<1> QED  BY <1>1, <1>4, <1>7

(* The priorities in the PCBs are numbers.                                 *)
LEMMA PrioFacts ==
  ASSUME NEW m \in Memories PROVE \A p \in Pcbs : m.p_prio[p] \in Int
BY PrioritiesAssumption DEF Memories

(* insertProcQ.                                                            *)
LEMMA InsertOn ==
  ASSUME NEW m, Linked(m), NEW h \in InUse(m), Kind(h) = "p_list", NEW p \in Pcbs,
         ~ On(m, "p_list", p), NEW n, n = insertProcQ(m, h, p)
  PROVE  OneListChanges(m, n, h, InsertProcQ(ItemsOf(m, h), m.p_prio, p))
<1>1. PICK q : q = ItemsOf(m, h)
  OBVIOUS
<1>2. /\ q \in Seq(Pcbs) /\ Memory(m) /\ Sound(m) /\ IsQueue(m, h, q) /\ Len(q) <= MaxProc
  BY <1>1, ListFacts DEF IsQueue
<1>3. p_list(p) \in DOMAIN m.next \ LinksOfQueue(h, q) /\ Loose(m, p_list(p))
  BY <1>1, MayJoin DEF p_list, LinksOfQueue
<1>4. (\A x \in Pcbs : m.p_prio[x] \in Int) /\ None \notin Pcbs
  BY PrioFacts, AddressesAssumption DEF Linked
<1>5. PICK r : r = InsertProcQ(q, m.p_prio, p)
  OBVIOUS
<1>6. r \in Seq(Pcbs) /\ Range(r) = Range(q) \cup {p}
  <2>0. PICK prio : prio = m.p_prio
    OBVIOUS
  <2>1. \A a \in Seq(Pcbs), y \in Pcbs : Range(InsertProcQ(a, prio, y)) = Range(a) \cup {y}
    <3>1. \A s \in Pcbs : prio[s] \in Int
      BY <1>4, <2>0
    <3> QED  BY <3>1, InsertProcQLemma
  <2>2. r \in Seq(Pcbs)
    BY <1>2, <1>4, <1>5, InsertProcQLemma
  <2> QED  BY <1>2, <1>5, <2>0, <2>1, <2>2
<1>7. /\ IsQueue(n, h, r) /\ Sound(n)
      /\ OnlyTouches(m, n, LinksOfQueue(h, q) \cup {p_list(p)})
  BY <1>2, <1>3, <1>4, <1>5, InsertOnLinks
<1>8. OneListChanges(m, n, h, r)
  BY <1>1, <1>6, <1>7, ListChanges DEF IsQueue, p_list, LinksOfQueue
<1> QED  BY <1>1, <1>5, <1>8

(* list_del; the link that leaves points to itself.                        *)
LEMMA Delete ==
  ASSUME NEW m, Linked(m), NEW h \in InUse(m), NEW p \in Range(ItemsOf(m, h)),
         NEW n, n = list_del(m, <<Kind(h), p>>)
  PROVE  /\ OneListChanges(m, n, h, Without(ItemsOf(m, h), {p}))
         /\ n.next[<<Kind(h), p>>] = <<Kind(h), p>> /\ n.prev[<<Kind(h), p>>] = <<Kind(h), p>>
         /\ ~ On(n, Kind(h), p)
<1>1. PICK q, kind : q = ItemsOf(m, h) /\ kind = Kind(h)
  OBVIOUS
<1>2. /\ q \in Seq(Pcbs) /\ IsInjective(q) /\ Len(q) \in Nat /\ Range(q) \subseteq Pcbs
      /\ IsList(m, h, Chain(kind, q)) /\ Memory(m) /\ Sound(m)
  BY <1>1, ListFacts
<1>3. PICK i \in 1..Len(q) : p = q[i]
  <2>1. DOMAIN q = 1..Len(q)
    BY <1>2, LenProperties
  <2> QED  BY <1>1, <2>1 DEF Range
<1>4. PICK r : r = Without(q, {q[i]})
  OBVIOUS
<1>5. IsRemoval(Pcbs, q, i, r)
  BY <1>2, <1>4, WithoutOne
<1>6. r \in Seq(Pcbs) /\ Range(r) = Range(q) \ {p}
  BY <1>2, <1>3, <1>4, WithoutLemma
<1>7. /\ IsList(n, h, Chain(kind, r)) /\ IsList(n, <<kind, p>>, <<>>)
      /\ OnlyTouches(m, n, LinksOfChain(h, kind, q)) /\ Sound(n) /\ Loose(n, <<kind, p>>)
  <2>1. n = list_del(m, <<kind, q[i]>>)
    BY <1>1, <1>3
  <2> QED  BY <1>2, <1>3, <1>5, <2>1, DelOnChain
<1>8. OnlyTouches(m, n, LinksOfChain(h, kind, q) \cup {<<kind, p>>})
  BY <1>7 DEF OnlyTouches
<1>9. OneListChanges(m, n, h, r)
  BY <1>1, <1>2, <1>6, <1>7, <1>8, ListChanges
<1>10. n.next[<<kind, p>>] = <<kind, p>> /\ n.prev[<<kind, p>>] = <<kind, p>>
  BY <1>7 DEF IsList, Nth
<1>11. ~ On(n, kind, p)
  BY <1>1, <1>6, <1>9 DEF On, OneListChanges, Linked
<1> QED  BY <1>1, <1>3, <1>4, <1>9, <1>10, <1>11
-----------------------------------------------------------------------------
(* The same lists, whatever the fields say.                                *)
SameLists(m, n) ==
  /\ Linked(n) /\ InUse(n) = InUse(m)
  /\ \A h \in InUse(m) : ItemsOf(n, h) = ItemsOf(m, h)

(* The same fields, whatever the lists are.                                *)
SameData(m, n) ==
  /\ n.p_parent = m.p_parent /\ n.p_semAdd = m.p_semAdd
  /\ n.p_prio = m.p_prio /\ n.s_key = m.s_key

(* An assignment to a field leaves the lists alone.                        *)
LEMMA FieldsOnly ==
  ASSUME NEW m, Linked(m), NEW n \in Memories, n.next = m.next, n.prev = m.prev
  PROVE  SameLists(m, n) /\ \A kind, p : On(n, kind, p) <=> On(m, kind, p)
<1>1. InUse(n) = InUse(m)
  BY DEF InUse
<1>2. \A h : ItemsOf(n, h) = ItemsOf(m, h)
  BY DEF ItemsOf, Visits, Iterator
<1>3. \A h, s : IsList(m, h, s) => IsList(n, h, s)
  BY DEF IsList
<1>4. \A kind, p : On(n, kind, p) <=> On(m, kind, p)
  BY <1>1, <1>2 DEF On
<1>5. \A l : Loose(m, l) => Loose(n, l)
  BY DEF Loose
<1>6. Paired(n)
  BY DEF Paired, Linked
<1> QED  BY <1>1, <1>2, <1>3, <1>4, <1>5, <1>6 DEF Linked, SameLists

(* INIT_LIST_HEAD of a link that points to itself.                         *)
LEMMA InitAgain ==
  ASSUME NEW m \in Memories, NEW l \in Links, m.next[l] = l, m.prev[l] = l
  PROVE  INIT_LIST_HEAD(m, l) = m
<1>1. [m.next EXCEPT ![l] = l] = m.next /\ [m.prev EXCEPT ![l] = l] = m.prev
  <2>1. m.next \in [Links -> Links \cup {None}] /\ m.prev \in [Links -> Links \cup {None}]
    BY DEF Memories
  <2> QED  BY <2>1
<1>2. INIT_LIST_HEAD(m, l) = [m EXCEPT !.next = [m.next EXCEPT ![l] = l],
                                       !.prev = [m.prev EXCEPT ![l] = l]]
  BY DEF INIT_LIST_HEAD, Memories
<1>3. INIT_LIST_HEAD(m, l) = [m EXCEPT !.next = m.next, !.prev = m.prev]
  BY <1>1, <1>2
<1> QED  BY <1>3 DEF Memories

(* INIT_LIST_HEAD of a link that points nowhere, and nothing to it: the    *)
(* lists there were are not touched.                                       *)
LEMMA InitUnset ==
  ASSUME NEW m, Linked(m), NEW l \in Links, m.next[l] = None, m.prev[l] = None,
         NEW n, n = INIT_LIST_HEAD(m, l)
  PROVE  /\ n \in Memories /\ Paired(n) /\ SameData(m, n)
         /\ n.next[l] = l /\ n.prev[l] = l
         /\ \A x \in Links \ {l} : n.next[x] = m.next[x] /\ n.prev[x] = m.prev[x]
         /\ \A h \in InUse(m) : /\ ItemsOf(n, h) = ItemsOf(m, h)
                                /\ IsList(n, h, Chain(Kind(h), ItemsOf(m, h)))
<1>1. /\ m.next \in [Links -> Links \cup {None}] /\ m.prev \in [Links -> Links \cup {None}]
      /\ m \in Memories /\ Paired(m) /\ None \notin Links /\ Memory(m)
  BY Addresses, MemoryFacts DEF Linked, Memories
<1>2. n.next = [m.next EXCEPT ![l] = l] /\ n.prev = [m.prev EXCEPT ![l] = l]
  BY <1>1 DEF INIT_LIST_HEAD, Memories
<1>3. SameData(m, n) /\ n \in Memories
  <2>1. n = [m EXCEPT !.next = [m.next EXCEPT ![l] = l], !.prev = [m.prev EXCEPT ![l] = l]]
    BY <1>1 DEF INIT_LIST_HEAD, Memories
  <2>2. /\ [m.next EXCEPT ![l] = l] \in [Links -> Links \cup {None}]
        /\ [m.prev EXCEPT ![l] = l] \in [Links -> Links \cup {None}]
    BY <1>1
  <2> QED  BY <1>1, <2>1, <2>2 DEF Memories, SameData
<1>4. /\ n.next[l] = l /\ n.prev[l] = l
      /\ \A x \in Links \ {l} : n.next[x] = m.next[x] /\ n.prev[x] = m.prev[x]
  BY <1>1, <1>2
<1>5. Paired(n)
  <2>1. DOMAIN n.next = Links /\ DOMAIN m.next = Links
    BY <1>1, <1>2
  <2>2. ASSUME NEW x \in Links \ {l}, n.next[x] # None
        PROVE  n.prev[x] # None /\ n.prev[n.next[x]] = x /\ n.next[n.prev[x]] = x
    <3>1. /\ n.next[x] = m.next[x] /\ n.prev[x] = m.prev[x]
          /\ m.prev[x] # None /\ m.prev[m.next[x]] = x /\ m.next[m.prev[x]] = x
      BY <1>1, <1>4, <2>1, <2>2 DEF Paired
    <3>2. m.next[x] # l /\ m.prev[x] # l /\ m.next[x] \in Links /\ m.prev[x] \in Links
      BY <1>1, <2>2, <3>1
    <3> QED  BY <1>4, <3>1, <3>2
  <2>3. n.prev[l] # None /\ n.prev[n.next[l]] = l /\ n.next[n.prev[l]] = l
    BY <1>1, <1>4
  <2> QED  BY <2>1, <2>2, <2>3 DEF Paired
<1>6. ASSUME NEW h \in InUse(m)
      PROVE  /\ ItemsOf(n, h) = ItemsOf(m, h)
             /\ IsList(n, h, Chain(Kind(h), ItemsOf(m, h)))
  <2>1. PICK s, q : q = ItemsOf(m, h) /\ s = Chain(Kind(h), q)
    OBVIOUS
  <2>2. q \in Seq(Pcbs) /\ IsList(m, h, s) /\ Len(q) <= MaxProc
    BY <2>1, ListFacts
  <2>3. ASSUME NEW x \in LinksOf(h, s)  PROVE x \in Links \ {l}
    <3>1. PICK i \in 0..Len(s) : x = Nth(h, s, i)
      BY <2>2, NthFacts
    <3>2. /\ m.next[x] = Nth(h, s, i + 1) /\ i + 1 \in 0..(Len(s) + 1)
          /\ x \in Links /\ LinksOf(h, s) \subseteq Links
      <4>1. Len(s) \in Nat /\ LinksOf(h, s) \subseteq Links
        BY <1>1, <2>2, NthFacts
      <4> QED  BY <2>2, <3>1, <4>1 DEF IsList
    <3>3. m.next[x] \in Links
      BY <2>2, <3>2, NthFacts
    <3> QED  BY <1>1, <3>2, <3>3
  <2>4. IsList(n, h, s)
    <3>1. DOMAIN n.next = DOMAIN m.next
      BY <1>1, <1>2
    <3> QED  BY <1>4, <2>2, <2>3, <3>1, Frame
  <2>5. ItemsOf(n, h) = q
    BY <1>3, <2>1, <2>2, <2>4, ChainItems, MemoryFacts
  <2> QED  BY <2>1, <2>4, <2>5
<1> QED  BY <1>3, <1>4, <1>5, <1>6

(* INIT_LIST_HEAD of a link that is on no list.                            *)
LEMMA InitLink ==
  ASSUME NEW m, Linked(m), NEW kind \in Kinds, NEW p \in Pcbs, ~ On(m, kind, p),
         NEW n, n = INIT_LIST_HEAD(m, <<kind, p>>)
  PROVE  SameLists(m, n) /\ SameData(m, n)
<1> DEFINE l == <<kind, p>>
<1>1. l \in Links \ Sentinels /\ Loose(m, l) /\ m \in Memories /\ Paired(m)
  BY Addresses DEF Linked
<1> HIDE DEF l
<1>2. CASE m.next[l] = l
  <2>1. m.prev[l] = l
    BY <1>1, <1>2, Addresses, MemoryFacts DEF Paired
  <2>2. n = m
    BY <1>1, <1>2, <2>1, InitAgain DEF l
  <2> QED  BY <2>2 DEF SameLists, SameData
<1>3. CASE m.next[l] = None /\ m.prev[l] = None
  <2>1. /\ n \in Memories /\ Paired(n) /\ SameData(m, n)
        /\ n.next[l] = l /\ n.prev[l] = l
        /\ \A x \in Links \ {l} : n.next[x] = m.next[x] /\ n.prev[x] = m.prev[x]
        /\ \A h \in InUse(m) : /\ ItemsOf(n, h) = ItemsOf(m, h)
                               /\ IsList(n, h, Chain(Kind(h), ItemsOf(m, h)))
    BY <1>1, <1>3, InitUnset DEF l
  <2>2. \A h \in Sentinels : n.next[h] = m.next[h] /\ n.prev[h] = m.prev[h]
    BY <1>1, <2>1, Addresses
  <2>3. InUse(n) = InUse(m)
    BY <2>2 DEF InUse
  <2>4. \A k, x : On(n, k, x) <=> On(m, k, x)
    BY <2>1, <2>3 DEF On
  <2>5. \A k \in Kinds, x \in Pcbs : ~ On(n, k, x) => Loose(n, <<k, x>>)
    <3> SUFFICES ASSUME NEW k \in Kinds, NEW x \in Pcbs, ~ On(n, k, x)  PROVE Loose(n, <<k, x>>)
      OBVIOUS
    <3>1. Loose(m, <<k, x>>) /\ <<k, x>> \in Links
      BY <2>4, Addresses DEF Linked
    <3> QED  BY <2>1, <3>1 DEF Loose
  <2>6. Linked(n)
    BY <2>1, <2>2, <2>3, <2>5 DEF Linked
  <2> QED  BY <2>1, <2>3, <2>6 DEF SameLists
<1> QED  BY <1>1, <1>2, <1>3 DEF Loose

(* INIT_LIST_HEAD of a sentinel without items, in use or not.              *)
LEMMA InitHead ==
  ASSUME NEW m, Linked(m), NEW h \in Sentinels, h \in InUse(m) => ItemsOf(m, h) = <<>>,
         NEW n, n = INIT_LIST_HEAD(m, h)
  PROVE  /\ Linked(n) /\ InUse(n) = InUse(m) \cup {h} /\ ItemsOf(n, h) = <<>>
         /\ \A g \in InUse(m) : ItemsOf(n, g) = ItemsOf(m, g)
         /\ SameData(m, n)
<1>1. h \in Links /\ m \in Memories /\ Paired(m)
  BY Addresses DEF Linked
<1>2. CASE h \in InUse(m)
  <2>1. m.next[h] = h
    BY <1>2, ListFacts DEF list_empty
  <2>2. m.prev[h] = h
    BY <1>1, <2>1, Addresses, MemoryFacts DEF Paired
  <2>3. n = m
    BY <1>1, <2>1, <2>2, InitAgain
  <2> QED  BY <1>2, <2>3 DEF SameData
<1>3. CASE h \notin InUse(m)
  <2>1. m.next[h] = None /\ m.prev[h] = None
    BY <1>3 DEF InUse, Linked
  <2>2. /\ n \in Memories /\ Paired(n) /\ SameData(m, n)
        /\ n.next[h] = h /\ n.prev[h] = h
        /\ \A x \in Links \ {h} : n.next[x] = m.next[x] /\ n.prev[x] = m.prev[x]
        /\ \A g \in InUse(m) : /\ ItemsOf(n, g) = ItemsOf(m, g)
                               /\ IsList(n, g, Chain(Kind(g), ItemsOf(m, g)))
    BY <1>1, <2>1, InitUnset
  <2>3. InUse(n) = InUse(m) \cup {h}
    BY <1>1, <2>2, Addresses DEF InUse
  <2>4. Chain(Kind(h), <<>>) = <<>> /\ <<>> \in Seq(Pcbs) /\ Range(<<>>) = {} /\ Len(<<>>) = 0
    BY EmptyQueueLemma DEF Chain, Range
  <2>5. IsList(n, h, <<>>)
    <3>1. DOMAIN n.next = Links
      BY <2>2, MemoryFacts
    <3>2. <<>> \in Seq(DOMAIN n.next \ {h}) /\ IsInjective(<<>>)
      BY DEF IsInjective
    <3>3. \A i \in {0, 1} : Nth(h, <<>>, i) = h
      BY DEF Nth
    <3> QED  BY <1>1, <2>2, <2>4, <3>1, <3>2, <3>3 DEF IsList
  <2>6. ItemsOf(n, h) = <<>>
    <3>1. Memory(n) /\ Len(<<>>) <= MaxProc
      BY <2>2, <2>4, MemoryFacts, TableAssumption
    <3> QED  BY <2>4, <2>5, <3>1, ChainItems
  <2>7. \A k, x : On(n, k, x) <=> On(m, k, x)
    BY <2>2, <2>3, <2>4, <2>6 DEF On
  <2>8. \A k \in Kinds, x \in Pcbs : ~ On(n, k, x) => Loose(n, <<k, x>>)
    <3> SUFFICES ASSUME NEW k \in Kinds, NEW x \in Pcbs, ~ On(n, k, x)  PROVE Loose(n, <<k, x>>)
      OBVIOUS
    <3>1. Loose(m, <<k, x>>) /\ <<k, x>> \in Links
      BY <2>7, Addresses DEF Linked
    <3> QED  BY <2>2, <3>1 DEF Loose
  <2>9. \A g \in Sentinels \ InUse(n) : n.prev[g] = None
    BY <2>2, <2>3, Addresses DEF Linked
  <2>10. \A g \in InUse(n) : /\ ItemsOf(n, g) \in Seq(Pcbs)
                             /\ IsList(n, g, Chain(Kind(g), ItemsOf(n, g)))
    BY <2>2, <2>3, <2>4, <2>5, <2>6 DEF Linked
  <2>11. \A f, g \in InUse(n) :
           f # g /\ Kind(f) = Kind(g) => Range(ItemsOf(n, f)) \cap Range(ItemsOf(n, g)) = {}
    BY <2>2, <2>3, <2>4, <2>6 DEF Linked
  <2>12. Linked(n)
    BY <2>2, <2>8, <2>9, <2>10, <2>11 DEF Linked
  <2> QED  BY <2>2, <2>3, <2>6, <2>12
<1> QED  BY <1>2, <1>3
-----------------------------------------------------------------------------
(* What the lists and the fields say of each other: a descriptor is free   *)
(* exactly when nobody waits in its queue, the active ones have different  *)
(* keys, and the lists of children are the converse of p_parent.           *)
Tables(m) ==
  /\ Heads \cup {semdFree_h, semd_h} \subseteq InUse(m)
  /\ \A d \in Semds : \/ d \in Range(ItemsOf(m, semdFree_h))
                      \/ d \in Range(ItemsOf(m, semd_h))
  /\ \A d \in Semds : d \in Range(ItemsOf(m, semdFree_h)) <=> ItemsOf(m, procq(d)) = <<>>
  /\ \A d \in Range(ItemsOf(m, semd_h)) :
       /\ m.s_key[d] \in Keys
       /\ \A e \in Range(ItemsOf(m, semd_h)) : m.s_key[e] = m.s_key[d] => e = d
  /\ \A p \in Pcbs : p_child(p) \in InUse(m) =>
       \A q \in Pcbs : q \in Range(ItemsOf(m, p_child(p))) <=> m.p_parent[q] = p
  /\ \A p \in Pcbs : m.p_parent[p] # None => p_child(m.p_parent[p]) \in InUse(m)
  /\ \A p \in Pcbs \ FreeOf(m) : p_child(p) \in InUse(m)

Good(m) == Linked(m) /\ Tables(m)

(* The PCB p is in no queue: neither free nor ready nor blocked.           *)
Unqueued(m, p) ==
  /\ p \notin FreeOf(m) /\ p \notin Range(ReadyOf(m))
  /\ \A k \in Keys : p \notin Range(WaitersOf(m)[k])

SameTree(m, n) == n.p_parent = m.p_parent /\ n.p_prio = m.p_prio
SameAsl(m, n) ==
  ActiveOf(n) = ActiveOf(m) /\ WaitersOf(n) = WaitersOf(m) /\ n.p_semAdd = m.p_semAdd

(* The free PCBs are the items of their list.                              *)
LEMMA FreeItems == \A m : FreeOf(m) = Range(ItemsOf(m, pcbFree_h))
BY DEF FreeOf, ToSet, Range

(* The fixed sentinels, in use.                                            *)
LEMMA GoodHeads ==
  ASSUME NEW m, Good(m)
  PROVE  /\ {pcbFree_h, readyQueue, semdFree_h, semd_h} \subseteq InUse(m)
         /\ \A d \in Pcbs : procq(d) \in InUse(m)
         /\ m \in Memories
BY DEF Good, Linked, Tables, Heads, Semds, Pcbs, procq

(* The descriptor of a key is the active one that has it.                  *)
LEMMA DescriptorFacts ==
  ASSUME NEW m, Good(m)
  PROVE  /\ \A d \in Range(ItemsOf(m, semd_h)) :
              d \in Pcbs /\ m.s_key[d] \in Keys /\ Descriptor(m, m.s_key[d]) = d /\ d # None
         /\ \A k : \/ Descriptor(m, k) = None
                   \/ /\ Descriptor(m, k) \in Range(ItemsOf(m, semd_h))
                      /\ m.s_key[Descriptor(m, k)] = k
<1>1. PICK a : a = ItemsOf(m, semd_h)
  OBVIOUS
<1>2. a \in Seq(Pcbs) /\ IsInjective(a) /\ Len(a) \in Nat /\ DOMAIN a = 1..Len(a)
  BY <1>1, GoodHeads, ListFacts, LenProperties DEF Good
<1>3. \A i \in DOMAIN a : a[i] \in Range(a) /\ a[i] \in Pcbs
  BY <1>2, ElementOfSeq DEF Range
<1>4. \A d \in Range(a) : /\ m.s_key[d] \in Keys
                          /\ \A e \in Range(a) : m.s_key[e] = m.s_key[d] => e = d
  BY <1>1 DEF Good, Tables
<1>5. None \notin Pcbs
  BY AddressesAssumption
<1> DEFINE hits(k) == {i \in DOMAIN a : m.s_key[a[i]] = k}
<1>6. \A k : Descriptor(m, k) = IF hits(k) = {} THEN None ELSE a[Min(hits(k))]
  BY <1>1 DEF Descriptor, First
<1>7. ASSUME NEW k, NEW i \in hits(k)  PROVE Descriptor(m, k) = a[i]
  <2>1. \A j \in hits(k) : j = i
    <3> TAKE j \in hits(k)
    <3>1. a[j] = a[i] /\ i \in DOMAIN a /\ j \in DOMAIN a
      BY <1>3, <1>4
    <3> QED  BY <1>2, <3>1 DEF IsInjective
  <2>2. i \in Nat /\ hits(k) = {i}
    BY <1>2, <2>1
  <2> HIDE DEF hits
  <2>3. Min(hits(k)) = i
    BY <2>2 DEF Min
  <2> QED  BY <1>6, <2>2, <2>3
<1>8. ASSUME NEW d \in Range(a)
      PROVE  d \in Pcbs /\ m.s_key[d] \in Keys /\ Descriptor(m, m.s_key[d]) = d /\ d # None
  <2>1. PICK i \in DOMAIN a : d = a[i]
    BY DEF Range
  <2>2. i \in hits(m.s_key[d])
    BY <2>1
  <2> HIDE DEF hits
  <2> QED  BY <1>3, <1>4, <1>5, <1>7, <2>1, <2>2
<1>9. ASSUME NEW k, Descriptor(m, k) # None
      PROVE  Descriptor(m, k) \in Range(a) /\ m.s_key[Descriptor(m, k)] = k
  <2>1. PICK i : i \in hits(k)
    BY <1>6, <1>9
  <2>2. i \in DOMAIN a /\ m.s_key[a[i]] = k
    BY <2>1
  <2> HIDE DEF hits
  <2> QED  BY <1>3, <1>7, <2>1, <2>2
<1> QED  BY <1>1, <1>8, <1>9

(* What the view says of the active descriptors and their queues.          *)
LEMMA AslFacts ==
  ASSUME NEW m, Good(m)
  PROVE  /\ ActiveOf(m) \in Seq(Keys) /\ Len(ActiveOf(m)) = Len(ItemsOf(m, semd_h))
         /\ \A i \in 1..Len(ItemsOf(m, semd_h)) :
              ActiveOf(m)[i] = m.s_key[ItemsOf(m, semd_h)[i]]
         /\ IsInjective(ActiveOf(m))
         /\ \A k : k \in Range(ActiveOf(m)) <=> Descriptor(m, k) # None
         /\ \A d \in Range(ItemsOf(m, semd_h)) :
              /\ WaitersOf(m)[m.s_key[d]] = ItemsOf(m, procq(d))
              /\ ItemsOf(m, procq(d)) # <<>>
         /\ \A k \in Keys : /\ Descriptor(m, k) = None => WaitersOf(m)[k] = <<>>
                            /\ WaitersOf(m)[k] \in Seq(Pcbs) /\ IsInjective(WaitersOf(m)[k])
         /\ WaitersOf(m) \in [Keys -> Seq(Pcbs)]
<1>1. PICK a : a = ItemsOf(m, semd_h)
  OBVIOUS
<1>2. a \in Seq(Pcbs) /\ IsInjective(a) /\ Len(a) \in Nat /\ DOMAIN a = 1..Len(a)
  BY <1>1, GoodHeads, ListFacts, LenProperties DEF Good
<1>3. /\ \A d \in Range(a) : /\ d \in Pcbs /\ m.s_key[d] \in Keys
                             /\ Descriptor(m, m.s_key[d]) = d /\ d # None
      /\ \A k : \/ Descriptor(m, k) = None
                \/ Descriptor(m, k) \in Range(a) /\ m.s_key[Descriptor(m, k)] = k
  BY <1>1, DescriptorFacts
<1>4. \A i \in DOMAIN a : a[i] \in Range(a)
  BY DEF Range
<1>5. PICK v : v = [i \in 1..Len(a) |-> m.s_key[a[i]]] /\ v = ActiveOf(m)
  BY <1>1 DEF ActiveOf
<1>6. v \in Seq(Keys) /\ Len(v) = Len(a) /\ DOMAIN v = 1..Len(a)
  <2>1. v \in [1..Len(a) -> Keys]
    BY <1>2, <1>3, <1>4, <1>5
  <2>2. v \in Seq(Keys)
    BY <1>2, <2>1, SeqDef
  <2> QED  BY <1>2, <2>1, <2>2, LenProperties
<1>7. IsInjective(v)
  <2>1. ASSUME NEW i \in 1..Len(a), NEW j \in 1..Len(a), v[i] = v[j]  PROVE i = j
    <3>1. a[i] = a[j]
      BY <1>2, <1>3, <1>4, <1>5, <2>1
    <3> QED  BY <1>2, <3>1 DEF IsInjective
  <2> QED  BY <1>6, <2>1 DEF IsInjective
<1>8. \A k : k \in Range(v) <=> Descriptor(m, k) # None
  <2> TAKE k
  <2>1. ASSUME k \in Range(v)  PROVE Descriptor(m, k) # None
    <3>1. PICK i \in 1..Len(a) : k = m.s_key[a[i]]
      BY <1>5, <1>6, <2>1 DEF Range
    <3> QED  BY <1>2, <1>3, <1>4, <3>1
  <2>2. ASSUME Descriptor(m, k) # None  PROVE k \in Range(v)
    <3>1. Descriptor(m, k) \in Range(a) /\ m.s_key[Descriptor(m, k)] = k
      BY <1>3, <2>2
    <3>2. PICK i \in DOMAIN a : a[i] = Descriptor(m, k)
      BY <3>1 DEF Range
    <3>3. v[i] = k /\ i \in DOMAIN v
      BY <1>2, <1>5, <1>6, <3>1, <3>2
    <3> QED  BY <3>3 DEF Range
  <2> QED  BY <2>1, <2>2
<1>9. \A k \in Keys : WaitersOf(m)[k] = IF Descriptor(m, k) = None THEN <<>>
                                        ELSE ItemsOf(m, procq(Descriptor(m, k)))
  BY DEF WaitersOf
<1>10. \A d \in Pcbs : /\ procq(d) \in InUse(m) /\ ItemsOf(m, procq(d)) \in Seq(Pcbs)
                       /\ IsInjective(ItemsOf(m, procq(d)))
  BY GoodHeads, ListFacts DEF Good
<1>11. \A d \in Range(a) : /\ WaitersOf(m)[m.s_key[d]] = ItemsOf(m, procq(d))
                           /\ ItemsOf(m, procq(d)) # <<>>
  <2> TAKE d \in Range(a)
  <2>1. d \in Pcbs /\ m.s_key[d] \in Keys /\ Descriptor(m, m.s_key[d]) = d /\ d # None
    BY <1>3
  <2>2. d \notin Range(ItemsOf(m, semdFree_h))
    <3>1. semdFree_h # semd_h /\ Kind(semdFree_h) = Kind(semd_h)
      BY KindOf
    <3> QED  BY <1>1, <3>1, GoodHeads DEF Good, Linked
  <2> QED  BY <1>9, <2>1, <2>2 DEF Good, Tables, Semds, Pcbs
<1>12. \A k \in Keys : /\ Descriptor(m, k) = None => WaitersOf(m)[k] = <<>>
                       /\ WaitersOf(m)[k] \in Seq(Pcbs) /\ IsInjective(WaitersOf(m)[k])
  <2>1. <<>> \in Seq(Pcbs) /\ IsInjective(<<>>)
    BY DEF IsInjective
  <2> QED  BY <1>3, <1>9, <1>10, <2>1
<1>13. WaitersOf(m) \in [Keys -> Seq(Pcbs)]
  BY <1>12 DEF WaitersOf
<1> QED  BY <1>1, <1>5, <1>6, <1>7, <1>8, <1>11, <1>12, <1>13

(* A PCB is on a list of p_list links when it is free, ready or blocked,   *)
(* and on one of p_sib links when it has a parent.                         *)
LEMMA OnWhat ==
  ASSUME NEW m, Good(m), NEW p \in Pcbs
  PROVE  /\ ~ On(m, "p_list", p) <=> Unqueued(m, p)
         /\ On(m, "p_sib", p) <=> m.p_parent[p] # None
<1>1. /\ FreeOf(m) = Range(ItemsOf(m, pcbFree_h)) /\ ReadyOf(m) = ItemsOf(m, readyQueue)
      /\ {pcbFree_h, readyQueue} \subseteq InUse(m) /\ \A d \in Pcbs : procq(d) \in InUse(m)
  BY FreeItems, GoodHeads DEF ReadyOf
<1>2. ASSUME On(m, "p_list", p)  PROVE ~ Unqueued(m, p)
  <2>1. PICK h \in InUse(m) : Kind(h) = "p_list" /\ p \in Range(ItemsOf(m, h))
    BY <1>2 DEF On
  <2>2. h = pcbFree_h \/ h = readyQueue \/ \E d \in Pcbs : h = procq(d)
    BY <2>1, KindOf DEF InUse
  <2>3. ASSUME NEW d \in Pcbs, h = procq(d)  PROVE \E k \in Keys : p \in Range(WaitersOf(m)[k])
    <3>1. ItemsOf(m, procq(d)) # <<>>
      BY <2>1, <2>3, EmptyQueueLemma DEF Range
    <3>2. d \in Range(ItemsOf(m, semd_h))
      BY <3>1 DEF Good, Tables, Semds, Pcbs
    <3> QED  BY <2>1, <2>3, <3>2, AslFacts, DescriptorFacts
  <2> QED  BY <1>1, <2>1, <2>2, <2>3 DEF Unqueued
<1>3. ASSUME ~ Unqueued(m, p)  PROVE On(m, "p_list", p)
  <2>1. CASE p \in FreeOf(m)
    BY <1>1, <2>1, KindOf DEF On
  <2>2. CASE p \in Range(ReadyOf(m))
    BY <1>1, <2>2, KindOf DEF On
  <2>3. ASSUME NEW k \in Keys, p \in Range(WaitersOf(m)[k])  PROVE On(m, "p_list", p)
    <3>1. Descriptor(m, k) # None
      BY <2>3, AslFacts, EmptyQueueLemma DEF Range
    <3>2. /\ Descriptor(m, k) \in Range(ItemsOf(m, semd_h))
          /\ m.s_key[Descriptor(m, k)] = k /\ Descriptor(m, k) \in Pcbs
      BY <3>1, DescriptorFacts
    <3>3. p \in Range(ItemsOf(m, procq(Descriptor(m, k))))
      BY <2>3, <3>2, AslFacts
    <3> QED  BY <1>1, <3>2, <3>3, KindOf DEF On
  <2> QED  BY <1>3, <2>1, <2>2, <2>3 DEF Unqueued
<1>4. ASSUME On(m, "p_sib", p)  PROVE m.p_parent[p] # None
  <2>1. PICK h \in InUse(m) : Kind(h) = "p_sib" /\ p \in Range(ItemsOf(m, h))
    BY <1>4 DEF On
  <2>2. PICK q \in Pcbs : h = p_child(q)
    BY <2>1, KindOf DEF InUse
  <2>3. m.p_parent[p] = q /\ None \notin Pcbs
    BY <2>1, <2>2, AddressesAssumption DEF Good, Tables
  <2> QED  BY <2>3
<1>5. ASSUME m.p_parent[p] # None  PROVE On(m, "p_sib", p)
  <2>1. m.p_parent[p] \in Pcbs /\ p_child(m.p_parent[p]) \in InUse(m)
    BY <1>5, GoodHeads DEF Memories, Good, Tables
  <2>2. p \in Range(ItemsOf(m, p_child(m.p_parent[p])))
    BY <2>1 DEF Good, Tables
  <2> QED  BY <2>1, <2>2, KindOf DEF On
<1> QED  BY <1>2, <1>3, <1>4, <1>5
-----------------------------------------------------------------------------
(* The same descriptors and queues of waiters are the same view of them.   *)
LEMMA AslSame ==
  ASSUME NEW m, Good(m), NEW n, n.s_key = m.s_key,
         ItemsOf(n, semd_h) = ItemsOf(m, semd_h),
         \A d \in Pcbs : ItemsOf(n, procq(d)) = ItemsOf(m, procq(d))
  PROVE  ActiveOf(n) = ActiveOf(m) /\ WaitersOf(n) = WaitersOf(m)
<1>1. ActiveOf(n) = ActiveOf(m)
  BY DEF ActiveOf
<1>2. \A k : Descriptor(n, k) = Descriptor(m, k)
  BY DEF Descriptor, First
<1>3. \A k : Descriptor(m, k) # None => Descriptor(m, k) \in Pcbs
  BY DescriptorFacts
<1>4. WaitersOf(n) = WaitersOf(m)
  BY <1>2, <1>3 DEF WaitersOf
<1> QED  BY <1>1, <1>4

(* A change of the ready queue, or of the free list, is only that.         *)
LEMMA ReadyChanges ==
  ASSUME NEW m, Good(m), NEW n, NEW r, OneListChanges(m, n, readyQueue, r)
  PROVE  /\ Good(n) /\ ReadyOf(n) = r /\ FreeOf(n) = FreeOf(m)
         /\ SameAsl(m, n) /\ SameTree(m, n)
<1>1. /\ Linked(n) /\ InUse(n) = InUse(m) /\ ReadyOf(n) = r
      /\ n.p_parent = m.p_parent /\ n.p_semAdd = m.p_semAdd
      /\ n.p_prio = m.p_prio /\ n.s_key = m.s_key
  BY DEF OneListChanges, ReadyOf
<1>2. /\ ItemsOf(n, pcbFree_h) = ItemsOf(m, pcbFree_h)
      /\ ItemsOf(n, semdFree_h) = ItemsOf(m, semdFree_h)
      /\ ItemsOf(n, semd_h) = ItemsOf(m, semd_h)
      /\ \A d \in Pcbs : ItemsOf(n, procq(d)) = ItemsOf(m, procq(d))
      /\ \A p \in Pcbs : p_child(p) \in InUse(m) =>
           ItemsOf(n, p_child(p)) = ItemsOf(m, p_child(p))
  <2>1. /\ pcbFree_h # readyQueue /\ semdFree_h # readyQueue /\ semd_h # readyQueue
        /\ \A d \in Pcbs : procq(d) # readyQueue /\ p_child(d) # readyQueue
    BY KindOf
  <2> QED  BY <2>1, GoodHeads DEF OneListChanges
<1>3. FreeOf(n) = FreeOf(m)
  BY <1>2, FreeItems
<1>4. SameAsl(m, n) /\ SameTree(m, n)
  BY <1>1, <1>2, AslSame DEF SameTree, SameAsl
<1>5. Tables(n)
  BY <1>1, <1>2, <1>3 DEF Good, Tables, Semds, Pcbs
<1> QED  BY <1>1, <1>3, <1>4, <1>5 DEF Good

(* A change of the free list alone, to PCBs whose p_child is initialised.  *)
LEMMA FreeChanges ==
  ASSUME NEW m, Good(m), NEW n, NEW r, OneListChanges(m, n, pcbFree_h, r),
         \A p \in Pcbs \ Range(r) : p_child(p) \in InUse(m)
  PROVE  /\ Good(n) /\ FreeOf(n) = Range(r) /\ ReadyOf(n) = ReadyOf(m)
         /\ SameAsl(m, n) /\ SameTree(m, n)
<1>1. /\ Linked(n) /\ InUse(n) = InUse(m) /\ FreeOf(n) = Range(r)
      /\ n.p_parent = m.p_parent /\ n.p_semAdd = m.p_semAdd
      /\ n.p_prio = m.p_prio /\ n.s_key = m.s_key
  BY FreeItems DEF OneListChanges
<1>2. /\ ItemsOf(n, readyQueue) = ItemsOf(m, readyQueue)
      /\ ItemsOf(n, semdFree_h) = ItemsOf(m, semdFree_h)
      /\ ItemsOf(n, semd_h) = ItemsOf(m, semd_h)
      /\ \A d \in Pcbs : ItemsOf(n, procq(d)) = ItemsOf(m, procq(d))
      /\ \A p \in Pcbs : p_child(p) \in InUse(m) =>
           ItemsOf(n, p_child(p)) = ItemsOf(m, p_child(p))
  <2>1. /\ pcbFree_h # readyQueue /\ semdFree_h # pcbFree_h /\ semd_h # pcbFree_h
        /\ \A d \in Pcbs : procq(d) # pcbFree_h /\ p_child(d) # pcbFree_h
    BY KindOf
  <2> QED  BY <2>1, GoodHeads DEF OneListChanges
<1>3. ReadyOf(n) = ReadyOf(m)
  BY <1>2 DEF ReadyOf
<1>4. SameAsl(m, n) /\ SameTree(m, n)
  BY <1>1, <1>2, AslSame DEF SameTree, SameAsl
<1>5. Tables(n)
  BY <1>1, <1>2 DEF Good, Tables, Semds, Pcbs
<1> QED  BY <1>1, <1>3, <1>4, <1>5 DEF Good

(* freePcb.                                                                *)
LEMMA FreePcb ==
  ASSUME NEW m, Good(m), NEW p \in Pcbs, Unqueued(m, p), NEW n, n = freePcb(m, p)
  PROVE  /\ Good(n) /\ FreeOf(n) = FreeOf(m) \cup {p} /\ ReadyOf(n) = ReadyOf(m)
         /\ SameAsl(m, n) /\ SameTree(m, n)
<1>1. PICK q, r : q = ItemsOf(m, pcbFree_h) /\ r = <<p>> \o q
  OBVIOUS
<1>2. pcbFree_h \in InUse(m) /\ Kind(pcbFree_h) = "p_list" /\ ~ On(m, "p_list", p)
  BY GoodHeads, KindOf, OnWhat
<1>3. OneListChanges(m, n, pcbFree_h, r)
  BY <1>1, <1>2, AddFirst DEF freePcb, p_list, Good
<1>4. Range(r) = FreeOf(m) \cup {p}
  <2>1. q \in Seq(Pcbs) /\ IsInjective(q) /\ p \notin Range(q) /\ FreeOf(m) = Range(q)
    BY <1>1, <1>2, ListFacts, MayJoin, FreeItems DEF Good
  <2>2. \A a \in Seq(Pcbs), y \in Pcbs :
          IsInjective(a) /\ y \notin Range(a) => Range(<<y>> \o a) = Range(a) \cup {y}
    BY ConsLemma
  <2> QED  BY <1>1, <2>1, <2>2
<1>5. \A x \in Pcbs \ Range(r) : p_child(x) \in InUse(m)
  BY <1>4 DEF Good, Tables
<1> QED  BY <1>3, <1>4, <1>5, FreeChanges

(* insertProcQ and list_add_tail, on the ready queue.                      *)
LEMMA ReadyInsert ==
  ASSUME NEW m, Good(m), NEW p \in Pcbs, Unqueued(m, p),
         NEW n, n = insertProcQ(m, readyQueue, p)
  PROVE  /\ Good(n) /\ ReadyOf(n) = InsertProcQ(ReadyOf(m), m.p_prio, p)
         /\ FreeOf(n) = FreeOf(m) /\ SameAsl(m, n) /\ SameTree(m, n)
<1>1. readyQueue \in InUse(m) /\ Kind(readyQueue) = "p_list" /\ ~ On(m, "p_list", p)
  BY GoodHeads, KindOf, OnWhat
<1>2. PICK r : r = InsertProcQ(ReadyOf(m), m.p_prio, p)
  OBVIOUS
<1>3. OneListChanges(m, n, readyQueue, r)
  BY <1>1, <1>2, InsertOn DEF Good, ReadyOf
<1> QED  BY <1>2, <1>3, ReadyChanges

(* list_add_tail of a PCB in no queue to the ready queue.                  *)
LEMMA ReadyAppend ==
  ASSUME NEW m, Good(m), NEW p \in Pcbs, Unqueued(m, p),
         NEW n, n = list_add_tail(m, p_list(p), readyQueue)
  PROVE  /\ Good(n) /\ ReadyOf(n) = Append(ReadyOf(m), p)
         /\ FreeOf(n) = FreeOf(m) /\ SameAsl(m, n) /\ SameTree(m, n)
<1>1. readyQueue \in InUse(m) /\ Kind(readyQueue) = "p_list" /\ ~ On(m, "p_list", p)
  BY GoodHeads, KindOf, OnWhat
<1>2. PICK r : r = Append(ReadyOf(m), p)
  OBVIOUS
<1>3. OneListChanges(m, n, readyQueue, r)
  BY <1>1, <1>2, AddLast DEF Good, ReadyOf
<1> QED  BY <1>2, <1>3, ReadyChanges

(* outProcQ and removeProcQ, on the ready queue.                           *)
LEMMA ReadyOut ==
  ASSUME NEW m, Good(m), NEW p \in Pcbs, NEW n, n = outProcQ(m, readyQueue, p)
  PROVE  /\ Good(n) /\ ReadyOf(n) = Without(ReadyOf(m), {p})
         /\ FreeOf(n) = FreeOf(m) /\ SameAsl(m, n) /\ SameTree(m, n)
<1>1. PICK q : q = ItemsOf(m, readyQueue) /\ q = ReadyOf(m)
  BY DEF ReadyOf
<1>2. /\ q \in Seq(Pcbs) /\ readyQueue \in InUse(m) /\ Kind(readyQueue) = "p_list"
  <2>1. readyQueue \in InUse(m) /\ Kind(readyQueue) = "p_list"
    BY GoodHeads, KindOf
  <2> QED  BY <1>1, <2>1, ListFacts DEF Good
<1>3. Contains(q, p) <=> p \in Range(q)
  <2>1. DOMAIN q = 1..Len(q)
    BY <1>2, LenProperties
  <2> QED  BY <2>1 DEF Contains, Range
<1>4. CASE p \in Range(q)
  <2>1. n = list_del(m, <<Kind(readyQueue), p>>)
    BY <1>1, <1>2, <1>3, <1>4 DEF outProcQ, p_list
  <2>2. PICK r : r = Without(q, {p})
    OBVIOUS
  <2>3. OneListChanges(m, n, readyQueue, r)
    BY <1>1, <1>2, <1>4, <2>1, <2>2, Delete DEF Good
  <2> QED  BY <1>1, <2>2, <2>3, ReadyChanges
<1>5. CASE p \notin Range(q)
  <2>1. n = m /\ Without(q, {p}) = q
    BY <1>1, <1>2, <1>3, <1>5, WithoutNone DEF outProcQ
  <2> QED  BY <1>1, <2>1 DEF SameAsl, SameTree
<1> QED  BY <1>4, <1>5

(* removeProcQ of the ready queue: NULL and no change if it is empty.      *)
LEMMA ReadyRemove ==
  ASSUME NEW m, Good(m), NEW n, n = removeProcQ(m, readyQueue)
  PROVE  /\ list_empty(m, readyQueue) <=> ReadyOf(m) = <<>>
         /\ ReadyOf(m) = <<>> => n = m /\ headProcQ(m, readyQueue) = None
         /\ ReadyOf(m) # <<>> =>
              /\ headProcQ(m, readyQueue) = Head(ReadyOf(m)) /\ Head(ReadyOf(m)) \in Pcbs
              /\ ReadyOf(n) = Tail(ReadyOf(m))
         /\ Good(n) /\ FreeOf(n) = FreeOf(m) /\ SameAsl(m, n) /\ SameTree(m, n)
<1>1. PICK q : q = ItemsOf(m, readyQueue) /\ q = ReadyOf(m)
  BY DEF ReadyOf
<1>2. /\ q \in Seq(Pcbs) /\ IsInjective(q) /\ Range(q) \subseteq Pcbs
      /\ list_empty(m, readyQueue) <=> q = <<>>
      /\ q # <<>> => m.next[readyQueue] = <<"p_list", Head(q)>> /\ Head(q) \in Range(q)
      /\ readyQueue \in InUse(m) /\ Kind(readyQueue) = "p_list"
  <2>1. readyQueue \in InUse(m) /\ Kind(readyQueue) = "p_list"
    BY GoodHeads, KindOf
  <2>2. /\ q \in Seq(Pcbs) /\ IsInjective(q) /\ Range(q) \subseteq Pcbs
        /\ list_empty(m, readyQueue) <=> q = <<>>
    BY <1>1, <2>1, ListFacts DEF Good
  <2>3. q # <<>> => m.next[readyQueue] = <<Kind(readyQueue), Head(q)>> /\ Head(q) \in Range(q)
    BY <1>1, <2>1, ListFacts DEF Good
  <2> QED  BY <2>1, <2>2, <2>3
<1>3. CASE q = <<>>
  <2>1. n = m /\ headProcQ(m, readyQueue) = None
    BY <1>2, <1>3 DEF removeProcQ, headProcQ
  <2> QED  BY <1>1, <1>2, <1>3, <2>1 DEF SameAsl, SameTree
<1>4. CASE q # <<>>
  <2>1. n = list_del(m, <<Kind(readyQueue), Head(q)>>) /\ headProcQ(m, readyQueue) = Head(q)
    BY <1>2, <1>4 DEF removeProcQ, headProcQ, Owner
  <2>2. PICK p, r : p = Head(q) /\ r = Without(q, {p})
    OBVIOUS
  <2>3. r = Tail(q)
    BY <1>2, <1>4, <2>2, WithoutHead
  <2>4. OneListChanges(m, n, readyQueue, r)
    BY <1>1, <1>2, <1>4, <2>1, <2>2, Delete DEF Good
  <2>5. /\ Good(n) /\ ReadyOf(n) = r /\ FreeOf(n) = FreeOf(m)
        /\ SameAsl(m, n) /\ SameTree(m, n)
    BY <2>4, ReadyChanges
  <2> QED  BY <1>1, <1>2, <1>4, <2>1, <2>3, <2>5
<1> QED  BY <1>3, <1>4
-----------------------------------------------------------------------------
(* An assignment to one field.                                             *)
PutParent(m, p, x) == [m EXCEPT !.p_parent[p] = x]
PutSemAdd(m, p, k) == [m EXCEPT !.p_semAdd[p] = k]
PutPrio(m, p, prio) == [m EXCEPT !.p_prio[p] = prio]
PutKey(m, d, k) == [m EXCEPT !.s_key[d] = k]

Becomes(f, g, x, v) == f = [g EXCEPT ![x] = v]

(* Assignments to p_semAdd and p_prio change nothing else of the view.     *)
LEMMA FieldsView ==
  ASSUME NEW m, Good(m), NEW n \in Memories, n.next = m.next, n.prev = m.prev,
         n.p_parent = m.p_parent, n.s_key = m.s_key
  PROVE  /\ Good(n) /\ FreeOf(n) = FreeOf(m) /\ ReadyOf(n) = ReadyOf(m)
         /\ ActiveOf(n) = ActiveOf(m) /\ WaitersOf(n) = WaitersOf(m)
<1>1. \A h : ItemsOf(n, h) = ItemsOf(m, h)
  BY DEF ItemsOf, Visits, Iterator
<1>2. Linked(n) /\ InUse(n) = InUse(m)
  BY FieldsOnly DEF Good, SameLists
<1>3. FreeOf(n) = FreeOf(m) /\ ReadyOf(n) = ReadyOf(m)
  BY <1>1 DEF FreeOf, ReadyOf
<1>4. ActiveOf(n) = ActiveOf(m) /\ WaitersOf(n) = WaitersOf(m)
  BY <1>1, AslSame
<1>5. Tables(n)
  BY <1>1, <1>2, <1>3 DEF Good, Tables
<1> QED  BY <1>2, <1>3, <1>4, <1>5 DEF Good

(* The free list, seen by allocPcb.                                        *)
LEMMA FreeHead ==
  ASSUME NEW m, Good(m)
  PROVE  /\ list_empty(m, pcbFree_h) <=> FreeOf(m) = {}
         /\ FreeOf(m) # {} => /\ Allocated(m) \in FreeOf(m) /\ Allocated(m) \in Pcbs
                              /\ m.next[pcbFree_h] = <<"p_list", Allocated(m)>>
<1>1. PICK q : q = ItemsOf(m, pcbFree_h)
  OBVIOUS
<1>2. FreeOf(m) = Range(q) /\ pcbFree_h \in InUse(m) /\ Kind(pcbFree_h) = "p_list"
  BY <1>1, FreeItems, GoodHeads, KindOf
<1>3. /\ q \in Seq(Pcbs) /\ Range(q) \subseteq Pcbs
      /\ list_empty(m, pcbFree_h) <=> q = <<>>
      /\ q # <<>> => m.next[pcbFree_h] = <<"p_list", Head(q)>> /\ Head(q) \in Range(q)
  <2>1. /\ q \in Seq(Pcbs) /\ Range(q) \subseteq Pcbs
        /\ list_empty(m, pcbFree_h) <=> q = <<>>
    BY <1>1, <1>2, ListFacts DEF Good
  <2>2. q # <<>> => m.next[pcbFree_h] = <<Kind(pcbFree_h), Head(q)>> /\ Head(q) \in Range(q)
    BY <1>1, <1>2, ListFacts DEF Good
  <2> QED  BY <1>2, <2>1, <2>2
<1>4. q = <<>> <=> Range(q) = {}
  BY <1>3, EmptyQueueLemma
<1>5. q # <<>> => Allocated(m) = Head(q)
  BY <1>3 DEF Allocated, Owner
<1> QED  BY <1>2, <1>3, <1>4, <1>5

(* allocPcb of a PCB that, like every free one, has neither parent nor     *)
(* children.                                                               *)
LEMMA AllocPcb ==
  ASSUME NEW m, Good(m), FreeOf(m) # {}, NEW p, p = Allocated(m),
         m.p_parent[p] = None, \A x \in Pcbs : m.p_parent[x] # p,
         NEW n, n = allocPcb(m)
  PROVE  /\ Good(n) /\ FreeOf(n) = FreeOf(m) \ {p} /\ ReadyOf(n) = ReadyOf(m)
         /\ ActiveOf(n) = ActiveOf(m) /\ WaitersOf(n) = WaitersOf(m)
         /\ n.p_parent = m.p_parent
         /\ Becomes(n.p_semAdd, m.p_semAdd, p, None)
         /\ Becomes(n.p_prio, m.p_prio, p, 0)
<1>1. p \in FreeOf(m) /\ p \in Pcbs
  BY FreeHead
<1>2. /\ pcbFree_h \in InUse(m) /\ Kind(pcbFree_h) = "p_list" /\ Linked(m)
      /\ p \in Range(ItemsOf(m, pcbFree_h))
  BY <1>1, GoodHeads, KindOf, FreeItems DEF Good
<1>3. PICK m1, r : m1 = list_del(m, p_list(p)) /\ r = Without(ItemsOf(m, pcbFree_h), {p})
  OBVIOUS
<1>4. OneListChanges(m, m1, pcbFree_h, r)
  BY <1>2, <1>3, Delete DEF p_list
<1>5. Range(r) = FreeOf(m) \ {p}
  <2>1. ItemsOf(m, pcbFree_h) \in Seq(Pcbs)
    BY <1>2, ListFacts
  <2> QED  BY <1>3, <2>1, WithoutLemma, FreeItems
<1>6. PICK m2 : m2 = INIT_LIST_HEAD(m1, p_child(p))
  OBVIOUS
<1>7. /\ p_child(p) \in Sentinels /\ Kind(p_child(p)) = "p_sib"
      /\ p_child(p) # pcbFree_h
  BY <1>1, Addresses, KindOf
<1>8. p_child(p) \in InUse(m1) => ItemsOf(m1, p_child(p)) = <<>>
  <2> SUFFICES ASSUME p_child(p) \in InUse(m)  PROVE ItemsOf(m, p_child(p)) = <<>>
    BY <1>4, <1>7 DEF OneListChanges
  <2>1. ItemsOf(m, p_child(p)) \in Seq(Pcbs) /\ Range(ItemsOf(m, p_child(p))) \subseteq Pcbs
    BY <1>2, ListFacts
  <2>2. Range(ItemsOf(m, p_child(p))) = {}
    BY <1>1, <2>1 DEF Good, Tables
  <2> QED  BY <2>1, <2>2, EmptyQueueLemma
<1>9. /\ Linked(m2) /\ InUse(m2) = InUse(m) \cup {p_child(p)} /\ ItemsOf(m2, p_child(p)) = <<>>
      /\ \A g \in InUse(m1) : ItemsOf(m2, g) = ItemsOf(m1, g)
      /\ SameData(m1, m2)
  BY <1>4, <1>6, <1>7, <1>8, InitHead DEF OneListChanges
<1>10. PICK m3 : m3 = INIT_LIST_HEAD(m2, p_sib(p))
  OBVIOUS
<1>11. ~ On(m2, "p_sib", p)
  <2>1. ~ On(m, "p_sib", p)
    BY <1>1, OnWhat
  <2>2. Range(<<>>) = {}
    BY DEF Range
  <2>3. ASSUME NEW h \in InUse(m2), Kind(h) = "p_sib"  PROVE p \notin Range(ItemsOf(m2, h))
    <3>1. CASE h = p_child(p)
      BY <1>9, <2>2, <3>1
    <3>2. CASE h # p_child(p)
      <4>1. h \in InUse(m) /\ h # pcbFree_h
        BY <1>2, <1>9, <2>3, <3>2
      <4>2. ItemsOf(m2, h) = ItemsOf(m, h)
        BY <1>4, <1>9, <4>1 DEF OneListChanges
      <4> QED  BY <2>1, <2>3, <4>1, <4>2 DEF On
    <3> QED  BY <3>1, <3>2
  <2> QED  BY <2>3 DEF On
<1>12. SameLists(m2, m3) /\ SameData(m2, m3)
  BY <1>1, <1>9, <1>10, <1>11, InitLink DEF p_sib, Kinds
<1>13. /\ n.next = m3.next /\ n.prev = m3.prev /\ n \in Memories /\ n.s_key = m3.s_key
       /\ n.p_parent = [m3.p_parent EXCEPT ![p] = None]
       /\ n.p_semAdd = [m3.p_semAdd EXCEPT ![p] = None]
       /\ n.p_prio = [m3.p_prio EXCEPT ![p] = 0]
  <2>1. n = [m3 EXCEPT !.p_parent[p] = None, !.p_semAdd[p] = None, !.p_prio[p] = 0]
    BY <1>3, <1>6, <1>10 DEF allocPcb
  <2>2. /\ m3 \in Memories /\ m3.p_parent \in [Pcbs -> Pcbs \cup {None}]
        /\ m3.p_semAdd \in [Pcbs -> Keys \cup {None}] /\ m3.p_prio \in [Pcbs -> Prios]
    BY <1>12 DEF SameLists, Linked, Memories
  <2> DEFINE a == [m3.p_parent EXCEPT ![p] = None]
             b == [m3.p_semAdd EXCEPT ![p] = None]
             c == [m3.p_prio EXCEPT ![p] = 0]
  <2>3. n = [m3 EXCEPT !.p_parent = a, !.p_semAdd = b, !.p_prio = c]
    BY <2>1
  <2>4. /\ a \in [Pcbs -> Pcbs \cup {None}] /\ b \in [Pcbs -> Keys \cup {None}]
        /\ c \in [Pcbs -> Prios]
    BY <1>1, <2>2, PrioritiesAssumption
  <2> HIDE DEF a, b, c
  <2>5. /\ n.next = m3.next /\ n.prev = m3.prev /\ n \in Memories /\ n.s_key = m3.s_key
        /\ n.p_parent = a /\ n.p_semAdd = b /\ n.p_prio = c
    BY <2>2, <2>3, <2>4 DEF Memories
  <2> QED  BY <2>5 DEF a, b, c
<1>14. SameLists(m3, n)
  BY <1>12, <1>13, FieldsOnly DEF SameLists
<1>15. /\ Linked(n) /\ InUse(n) = InUse(m) \cup {p_child(p)} /\ ItemsOf(n, p_child(p)) = <<>>
       /\ ItemsOf(n, pcbFree_h) = r
       /\ \A g \in InUse(m) \ {pcbFree_h} : ItemsOf(n, g) = ItemsOf(m, g)
  BY <1>2, <1>4, <1>9, <1>12, <1>14 DEF SameLists, OneListChanges
<1>16. /\ n.p_parent = m.p_parent /\ n.s_key = m.s_key
       /\ n.p_semAdd = [m.p_semAdd EXCEPT ![p] = None]
       /\ n.p_prio = [m.p_prio EXCEPT ![p] = 0]
  <2>1. SameData(m, m3)
    BY <1>4, <1>9, <1>12 DEF SameData, OneListChanges
  <2>2. [m.p_parent EXCEPT ![p] = None] = m.p_parent
    <3>1. m.p_parent \in [Pcbs -> Pcbs \cup {None}]
      BY <1>2 DEF Linked, Memories
    <3> QED  BY <1>1, <3>1
  <2> QED  BY <1>13, <2>1, <2>2 DEF SameData
<1>17. /\ ItemsOf(n, readyQueue) = ItemsOf(m, readyQueue)
       /\ ItemsOf(n, semdFree_h) = ItemsOf(m, semdFree_h)
       /\ ItemsOf(n, semd_h) = ItemsOf(m, semd_h)
       /\ \A d \in Pcbs : ItemsOf(n, procq(d)) = ItemsOf(m, procq(d))
       /\ \A x \in Pcbs : p_child(x) \in InUse(m) =>
            ItemsOf(n, p_child(x)) = ItemsOf(m, p_child(x))
  <2>1. /\ pcbFree_h # readyQueue /\ semdFree_h # pcbFree_h /\ semd_h # pcbFree_h
        /\ \A d \in Pcbs : procq(d) # pcbFree_h /\ p_child(d) # pcbFree_h
    BY KindOf
  <2> QED  BY <1>15, <2>1, GoodHeads
<1>18. /\ FreeOf(n) = FreeOf(m) \ {p} /\ ReadyOf(n) = ReadyOf(m)
       /\ ActiveOf(n) = ActiveOf(m) /\ WaitersOf(n) = WaitersOf(m)
  BY <1>5, <1>15, <1>16, <1>17, FreeItems, AslSame DEF ReadyOf
<1>19. Tables(n)
  <2>1. /\ Heads \cup {semdFree_h, semd_h} \subseteq InUse(n)
        /\ \A d \in Semds : \/ d \in Range(ItemsOf(n, semdFree_h))
                            \/ d \in Range(ItemsOf(n, semd_h))
        /\ \A d \in Semds : d \in Range(ItemsOf(n, semdFree_h)) <=> ItemsOf(n, procq(d)) = <<>>
        /\ \A d \in Range(ItemsOf(n, semd_h)) :
             /\ n.s_key[d] \in Keys
             /\ \A e \in Range(ItemsOf(n, semd_h)) : n.s_key[e] = n.s_key[d] => e = d
    BY <1>15, <1>16, <1>17 DEF Good, Tables, Semds, Pcbs
  <2>2. ASSUME NEW x \in Pcbs, p_child(x) \in InUse(n), NEW y \in Pcbs
        PROVE  y \in Range(ItemsOf(n, p_child(x))) <=> n.p_parent[y] = x
    <3>1. CASE x = p
      <4>1. Range(<<>>) = {}
        BY DEF Range
      <4> QED  BY <1>15, <1>16, <3>1, <4>1
    <3>2. CASE x # p
      <4>1. p_child(x) \in InUse(m)
        BY <1>1, <1>15, <2>2, <3>2, KindOf
      <4> QED  BY <1>16, <1>17, <4>1 DEF Good, Tables
    <3> QED  BY <3>1, <3>2
  <2>3. \A x \in Pcbs : n.p_parent[x] # None => p_child(n.p_parent[x]) \in InUse(n)
    BY <1>15, <1>16 DEF Good, Tables
  <2>4. \A x \in Pcbs \ FreeOf(n) : p_child(x) \in InUse(n)
    BY <1>15, <1>18 DEF Good, Tables
  <2> QED  BY <2>1, <2>2, <2>3, <2>4 DEF Tables
<1> QED  BY <1>15, <1>16, <1>18, <1>19 DEF Good, Becomes
-----------------------------------------------------------------------------
(* Assignments to one field of a memory.                                   *)
SameLinks(m, n) == n \in Memories /\ n.next = m.next /\ n.prev = m.prev

(* Of the fields, an assignment to p_parent changes that one alone.         *)
LEMMA SetParent ==
  ASSUME NEW m \in Memories, NEW p \in Pcbs, NEW x \in Pcbs \cup {None},
         NEW n, n = PutParent(m, p, x)
  PROVE  /\ SameLinks(m, n) /\ Becomes(n.p_parent, m.p_parent, p, x)
         /\ n.p_semAdd = m.p_semAdd /\ n.p_prio = m.p_prio /\ n.s_key = m.s_key
<1> DEFINE a == [m.p_parent EXCEPT ![p] = x]
<1>1. n = [m EXCEPT !.p_parent = a]
  BY DEF PutParent
<1>2. a \in [Pcbs -> Pcbs \cup {None}]
  BY DEF Memories
<1> HIDE DEF a
<1>3. /\ SameLinks(m, n) /\ n.p_parent = a
      /\ n.p_semAdd = m.p_semAdd /\ n.p_prio = m.p_prio /\ n.s_key = m.s_key
  BY <1>1, <1>2 DEF Memories, SameLinks
<1> QED  BY <1>3 DEF a, Becomes

(* The same, of the field p_semAdd.                                        *)
LEMMA SetSemAdd ==
  ASSUME NEW m \in Memories, NEW p \in Pcbs, NEW x \in Keys \cup {None},
         NEW n, n = PutSemAdd(m, p, x)
  PROVE  /\ SameLinks(m, n) /\ Becomes(n.p_semAdd, m.p_semAdd, p, x)
         /\ n.p_parent = m.p_parent /\ n.p_prio = m.p_prio /\ n.s_key = m.s_key
<1> DEFINE a == [m.p_semAdd EXCEPT ![p] = x]
<1>1. n = [m EXCEPT !.p_semAdd = a]
  BY DEF PutSemAdd
<1>2. a \in [Pcbs -> Keys \cup {None}]
  BY DEF Memories
<1> HIDE DEF a
<1>3. /\ SameLinks(m, n) /\ n.p_semAdd = a
      /\ n.p_parent = m.p_parent /\ n.p_prio = m.p_prio /\ n.s_key = m.s_key
  BY <1>1, <1>2 DEF Memories, SameLinks
<1> QED  BY <1>3 DEF a, Becomes

(* The same, of the field p_prio.                                          *)
LEMMA SetPrio ==
  ASSUME NEW m \in Memories, NEW p \in Pcbs, NEW x \in Prios,
         NEW n, n = PutPrio(m, p, x)
  PROVE  /\ SameLinks(m, n) /\ Becomes(n.p_prio, m.p_prio, p, x)
         /\ n.p_parent = m.p_parent /\ n.p_semAdd = m.p_semAdd /\ n.s_key = m.s_key
<1> DEFINE a == [m.p_prio EXCEPT ![p] = x]
<1>1. n = [m EXCEPT !.p_prio = a]
  BY DEF PutPrio
<1>2. a \in [Pcbs -> Prios]
  BY DEF Memories
<1> HIDE DEF a
<1>3. /\ SameLinks(m, n) /\ n.p_prio = a
      /\ n.p_parent = m.p_parent /\ n.p_semAdd = m.p_semAdd /\ n.s_key = m.s_key
  BY <1>1, <1>2 DEF Memories, SameLinks
<1> QED  BY <1>3 DEF a, Becomes

(* The same, of a descriptor's key.                                        *)
LEMMA SetKey ==
  ASSUME NEW m \in Memories, NEW d \in Pcbs, NEW x \in Keys,
         NEW n, n = PutKey(m, d, x)
  PROVE  /\ SameLinks(m, n) /\ Becomes(n.s_key, m.s_key, d, x)
         /\ n.p_parent = m.p_parent /\ n.p_semAdd = m.p_semAdd /\ n.p_prio = m.p_prio
<1> DEFINE a == [m.s_key EXCEPT ![d] = x]
<1>1. n = [m EXCEPT !.s_key = a]
  BY DEF PutKey
<1>2. a \in [Semds -> Keys \cup {None}]
  BY DEF Memories, Pcbs, Semds
<1> HIDE DEF a
<1>3. /\ SameLinks(m, n) /\ n.s_key = a
      /\ n.p_parent = m.p_parent /\ n.p_semAdd = m.p_semAdd /\ n.p_prio = m.p_prio
  BY <1>1, <1>2 DEF Memories, SameLinks
<1> QED  BY <1>3 DEF a, Becomes
-----------------------------------------------------------------------------
(* A change of the children of one PCB is only that.                       *)
LEMMA TreeChanges ==
  ASSUME NEW m, Good(m), NEW x \in Pcbs, p_child(x) \in InUse(m),
         NEW n, Linked(n), InUse(n) = InUse(m),
         \A g \in InUse(m) \ {p_child(x)} : ItemsOf(n, g) = ItemsOf(m, g),
         n.p_semAdd = m.p_semAdd, n.p_prio = m.p_prio, n.s_key = m.s_key,
         \A q \in Pcbs : q \in Range(ItemsOf(n, p_child(x))) <=> n.p_parent[q] = x,
         \A q \in Pcbs : \/ n.p_parent[q] = m.p_parent[q]
                         \/ n.p_parent[q] \in {x, None} /\ m.p_parent[q] \in {x, None}
  PROVE  Good(n) /\ FreeOf(n) = FreeOf(m) /\ ReadyOf(n) = ReadyOf(m) /\ SameAsl(m, n)
<1>1. /\ ItemsOf(n, readyQueue) = ItemsOf(m, readyQueue)
      /\ ItemsOf(n, pcbFree_h) = ItemsOf(m, pcbFree_h)
      /\ ItemsOf(n, semdFree_h) = ItemsOf(m, semdFree_h)
      /\ ItemsOf(n, semd_h) = ItemsOf(m, semd_h)
      /\ \A d \in Pcbs : ItemsOf(n, procq(d)) = ItemsOf(m, procq(d))
      /\ \A y \in Pcbs : y # x /\ p_child(y) \in InUse(m) =>
           ItemsOf(n, p_child(y)) = ItemsOf(m, p_child(y))
  <2>1. /\ p_child(x) \notin {pcbFree_h, readyQueue, semdFree_h, semd_h}
        /\ \A d \in Pcbs : procq(d) # p_child(x)
        /\ \A y \in Pcbs : p_child(y) = p_child(x) => y = x
    BY KindOf
  <2> QED  BY <2>1, GoodHeads
<1>2. FreeOf(n) = FreeOf(m) /\ ReadyOf(n) = ReadyOf(m)
  BY <1>1, FreeItems DEF ReadyOf
<1>3. SameAsl(m, n)
  BY <1>1, AslSame DEF SameAsl
<1>4. None \notin Pcbs
  BY AddressesAssumption
<1>5. ASSUME NEW y \in Pcbs, p_child(y) \in InUse(n), NEW q \in Pcbs
      PROVE  q \in Range(ItemsOf(n, p_child(y))) <=> n.p_parent[q] = y
  BY <1>1, <1>4, <1>5 DEF Good, Tables
<1>6. \A y \in Pcbs : n.p_parent[y] # None => p_child(n.p_parent[y]) \in InUse(n)
  BY DEF Good, Tables
<1>7. Tables(n)
  BY <1>1, <1>2, <1>5, <1>6 DEF Good, Tables, Semds, Pcbs
<1> QED  BY <1>2, <1>3, <1>7 DEF Good

(* insertChild of a PCB without a parent.                                  *)
LEMMA InsertChild ==
  ASSUME NEW m, Good(m), NEW x \in Pcbs, p_child(x) \in InUse(m), NEW p \in Pcbs,
         m.p_parent[p] = None, NEW n, n = insertChild(m, x, p)
  PROVE  /\ Good(n) /\ FreeOf(n) = FreeOf(m) /\ ReadyOf(n) = ReadyOf(m)
         /\ SameAsl(m, n) /\ n.p_prio = m.p_prio
         /\ Becomes(n.p_parent, m.p_parent, p, x)
<1>1. PICK m1, q : m1 = PutParent(m, p, x) /\ q = ItemsOf(m, p_child(x))
  OBVIOUS
<1>2. /\ SameLinks(m, m1) /\ Becomes(m1.p_parent, m.p_parent, p, x)
      /\ m1.p_semAdd = m.p_semAdd /\ m1.p_prio = m.p_prio /\ m1.s_key = m.s_key
  BY <1>1, SetParent, GoodHeads
<1>3. SameLists(m, m1) /\ ~ On(m1, "p_sib", p)
  <2>1. ~ On(m, "p_sib", p)
    BY OnWhat
  <2> QED  BY <1>2, <2>1, FieldsOnly DEF SameLinks, Good
<1>4. Kind(p_child(x)) = "p_sib"
  BY KindOf
<1>5. PICK r : r = <<p>> \o q
  OBVIOUS
<1>6. OneListChanges(m1, n, p_child(x), r)
  <2>1. n = list_add(m1, <<Kind(p_child(x)), p>>, p_child(x))
    BY <1>1, <1>4 DEF insertChild, p_sib, PutParent
  <2>2. r = <<p>> \o ItemsOf(m1, p_child(x))
    BY <1>1, <1>3, <1>5 DEF SameLists
  <2> QED  BY <1>3, <1>4, <2>1, <2>2, AddFirst DEF SameLists
<1>7. Range(r) = Range(q) \cup {p}
  <2>1. \A a \in Seq(Pcbs), y \in Pcbs :
          IsInjective(a) /\ y \notin Range(a) => Range(<<y>> \o a) = Range(a) \cup {y}
    BY ConsLemma
  <2>2. q \in Seq(Pcbs) /\ IsInjective(q)
    BY <1>1, ListFacts DEF Good
  <2>3. p \notin Range(q)
    BY <1>1, AddressesAssumption DEF Good, Tables
  <2> QED  BY <1>5, <2>1, <2>2, <2>3
<1>8. m.p_parent \in [Pcbs -> Pcbs \cup {None}]
  BY GoodHeads DEF Memories
<1>9. Becomes(n.p_parent, m.p_parent, p, x)
  BY <1>2, <1>6 DEF OneListChanges
<1>10. /\ Linked(n) /\ InUse(n) = InUse(m) /\ ItemsOf(n, p_child(x)) = r
       /\ \A g \in InUse(m) \ {p_child(x)} : ItemsOf(n, g) = ItemsOf(m, g)
       /\ n.p_semAdd = m.p_semAdd /\ n.p_prio = m.p_prio /\ n.s_key = m.s_key
  BY <1>2, <1>3, <1>6 DEF OneListChanges, SameLists
<1>11. \A y \in Pcbs : n.p_parent[y] = IF y = p THEN x ELSE m.p_parent[y]
  BY <1>8, <1>9 DEF Becomes
<1>12. \A y \in Pcbs : y \in Range(r) <=> n.p_parent[y] = x
  BY <1>1, <1>7, <1>11 DEF Good, Tables
<1>13. Good(n) /\ FreeOf(n) = FreeOf(m) /\ ReadyOf(n) = ReadyOf(m) /\ SameAsl(m, n)
  BY <1>10, <1>11, <1>12, TreeChanges
<1> QED  BY <1>9, <1>10, <1>13

(* outChild, of a PCB with or without a parent.                            *)
LEMMA OutChild ==
  ASSUME NEW m, Good(m), NEW p \in Pcbs, NEW n, n = outChild(m, p)
  PROVE  /\ Good(n) /\ FreeOf(n) = FreeOf(m) /\ ReadyOf(n) = ReadyOf(m)
         /\ SameAsl(m, n) /\ n.p_prio = m.p_prio
         /\ Becomes(n.p_parent, m.p_parent, p, None)
<1>1. m.p_parent \in [Pcbs -> Pcbs \cup {None}]
  BY GoodHeads DEF Memories
<1>2. CASE m.p_parent[p] = None
  <2>1. n = m /\ Becomes(n.p_parent, m.p_parent, p, None)
    BY <1>1, <1>2 DEF outChild, Becomes
  <2> QED  BY <2>1 DEF SameAsl
<1>3. CASE m.p_parent[p] # None
  <2>1. PICK x \in Pcbs : x = m.p_parent[p] /\ p_child(x) \in InUse(m)
    BY <1>1, <1>3 DEF Good, Tables
  <2>2. PICK m1, q, r : /\ m1 = list_del(m, p_sib(p)) /\ q = ItemsOf(m, p_child(x))
                        /\ r = Without(q, {p})
    OBVIOUS
  <2>3. Kind(p_child(x)) = "p_sib" /\ p \in Range(q)
    BY <2>1, <2>2, KindOf DEF Good, Tables
  <2>4. /\ OneListChanges(m, m1, p_child(x), r)
        /\ m1.next[p_sib(p)] = p_sib(p) /\ m1.prev[p_sib(p)] = p_sib(p)
    <3>1. m1 = list_del(m, <<Kind(p_child(x)), p>>) /\ p_sib(p) = <<Kind(p_child(x)), p>>
      BY <2>2, <2>3 DEF p_sib
    <3>2. Linked(m) /\ p_child(x) \in InUse(m) /\ p \in Range(ItemsOf(m, p_child(x)))
      BY <2>1, <2>2, <2>3 DEF Good
    <3> QED  BY <2>2, <3>1, <3>2, Delete
  <2>5. PICK m2 : m2 = PutParent(m1, p, None)
    OBVIOUS
  <2>6. /\ SameLinks(m1, m2) /\ Becomes(m2.p_parent, m1.p_parent, p, None)
        /\ m2.p_semAdd = m1.p_semAdd /\ m2.p_prio = m1.p_prio /\ m2.s_key = m1.s_key
    BY <2>4, <2>5, SetParent DEF OneListChanges, Linked
  <2>7. n = m2
    <3>1. n = INIT_LIST_HEAD(m2, p_sib(p))
      BY <1>3, <2>2, <2>5 DEF outChild, PutParent
    <3>2. p_sib(p) \in Links
      BY Addresses DEF p_sib, Kinds
    <3> QED  BY <2>4, <2>6, <3>1, <3>2, InitAgain DEF SameLinks
  <2>8. SameLists(m1, n)
    BY <2>4, <2>6, <2>7, FieldsOnly DEF SameLinks, OneListChanges
  <2>9. Range(r) = Range(q) \ {p}
    <3>1. q \in Seq(Pcbs)
      BY <2>1, <2>2, ListFacts DEF Good
    <3> QED  BY <2>2, <3>1, WithoutLemma
  <2>10. Becomes(n.p_parent, m.p_parent, p, None)
    BY <2>4, <2>6, <2>7 DEF OneListChanges
  <2>11. /\ Linked(n) /\ InUse(n) = InUse(m) /\ ItemsOf(n, p_child(x)) = r
         /\ \A g \in InUse(m) \ {p_child(x)} : ItemsOf(n, g) = ItemsOf(m, g)
         /\ n.p_semAdd = m.p_semAdd /\ n.p_prio = m.p_prio /\ n.s_key = m.s_key
    BY <2>1, <2>4, <2>6, <2>7, <2>8 DEF OneListChanges, SameLists
  <2>12. \A y \in Pcbs : n.p_parent[y] = IF y = p THEN None ELSE m.p_parent[y]
    BY <1>1, <2>10 DEF Becomes
  <2>13. \A y \in Pcbs : y \in Range(r) <=> n.p_parent[y] = x
    <3>1. \A y \in Pcbs : y \in Range(q) <=> m.p_parent[y] = x
      BY <2>1, <2>2 DEF Good, Tables
    <3> QED  BY <2>9, <2>12, <3>1, AddressesAssumption
  <2>14. Good(n) /\ FreeOf(n) = FreeOf(m) /\ ReadyOf(n) = ReadyOf(m) /\ SameAsl(m, n)
    BY <2>1, <2>11, <2>12, <2>13, TreeChanges
  <2> QED  BY <2>10, <2>11, <2>14
<1> QED  BY <1>2, <1>3

(* emptyChild, and the child that removeChild takes.                       *)
LEMMA FirstChild ==
  ASSUME NEW m, Good(m), NEW p \in Pcbs, p_child(p) \in InUse(m)
  PROVE  /\ emptyChild(m, p) <=> \A q \in Pcbs : m.p_parent[q] # p
         /\ ~ emptyChild(m, p) => /\ Owner(m.next[p_child(p)]) \in Pcbs
                                  /\ m.p_parent[Owner(m.next[p_child(p)])] = p
<1>1. PICK q : q = ItemsOf(m, p_child(p))
  OBVIOUS
<1>2. /\ q \in Seq(Pcbs) /\ Range(q) \subseteq Pcbs
      /\ emptyChild(m, p) <=> q = <<>>
      /\ q # <<>> => Owner(m.next[p_child(p)]) \in Range(q)
  <2>1. /\ q \in Seq(Pcbs) /\ Range(q) \subseteq Pcbs
        /\ (list_empty(m, p_child(p)) <=> q = <<>>)
    BY <1>1, ListFacts DEF Good
  <2>2. q # <<>> => m.next[p_child(p)] = <<Kind(p_child(p)), Head(q)>> /\ Head(q) \in Range(q)
    BY <1>1, ListFacts DEF Good
  <2>3. q # <<>> => Owner(m.next[p_child(p)]) = Head(q)
    BY <2>2 DEF Owner
  <2> QED  BY <2>1, <2>2, <2>3 DEF emptyChild
<1>3. q = <<>> <=> Range(q) = {}
  BY <1>2, EmptyQueueLemma
<1>4. \A y \in Pcbs : y \in Range(q) <=> m.p_parent[y] = p
  BY <1>1 DEF Good, Tables
<1> QED  BY <1>2, <1>3, <1>4
-----------------------------------------------------------------------------
(* The keys of the active descriptors, one descriptor less.                *)
LEMMA KeysWithout ==
  ASSUME NEW m, Good(m), NEW d \in Range(ItemsOf(m, semd_h)),
         NEW n, n.s_key = m.s_key, ItemsOf(n, semd_h) = Without(ItemsOf(m, semd_h), {d})
  PROVE  ActiveOf(n) = Without(ActiveOf(m), {m.s_key[d]})
<1>1. PICK a, b : a = ItemsOf(m, semd_h) /\ b = Without(a, {d}) /\ b = ItemsOf(n, semd_h)
  OBVIOUS
<1>2. a \in Seq(Pcbs) /\ IsInjective(a) /\ Len(a) \in Nat /\ DOMAIN a = 1..Len(a)
  BY <1>1, GoodHeads, ListFacts, LenProperties DEF Good
<1>3. PICK v : /\ v = ActiveOf(m) /\ v \in Seq(Keys) /\ Len(v) = Len(a) /\ IsInjective(v)
               /\ \A i \in 1..Len(a) : v[i] = m.s_key[a[i]]
  BY <1>1, AslFacts
<1>4. PICK i \in 1..Len(a) : d = a[i]
  BY <1>1, <1>2 DEF Range
<1>5. IsRemoval(Pcbs, a, i, b)
  BY <1>1, <1>2, <1>4, WithoutOne
<1>6. PICK w : w = Without(v, {v[i]}) /\ IsRemoval(Keys, v, i, w)
  BY <1>3, WithoutOne
<1>7. b \in Seq(Pcbs) /\ Len(b) = Len(a) - 1 /\ Len(b) \in Nat
  BY <1>5, LenProperties DEF IsRemoval
<1>8. \A j \in 1..Len(b) : w[j] = m.s_key[b[j]]
  <2> TAKE j \in 1..Len(b)
  <2>1. j \in 1..(Len(a) - 1) /\ j \in 1..Len(a) /\ j + 1 \in 1..Len(a)
    BY <1>2, <1>7
  <2>2. /\ b[j] = IF j < i THEN a[j] ELSE a[j + 1]
        /\ w[j] = IF j < i THEN v[j] ELSE v[j + 1]
    BY <1>3, <1>5, <1>6, <2>1 DEF IsRemoval
  <2> QED  BY <1>3, <2>1, <2>2
<1>9. w \in Seq(Keys) /\ Len(w) = Len(b)
  BY <1>3, <1>6, <1>7 DEF IsRemoval
<1>10. w = [j \in 1..Len(b) |-> m.s_key[b[j]]]
  <2>1. w = [j \in 1..Len(w) |-> w[j]]
    BY <1>9, LenProperties
  <2> QED  BY <1>8, <1>9, <2>1
<1> QED  BY <1>1, <1>3, <1>4, <1>6, <1>10 DEF ActiveOf

(* The waiters of each key, when one descriptor's queue is r.              *)
WaitersBecome(m, n, k, r) ==
  \A j \in Keys : WaitersOf(n)[j] = IF j = k THEN r ELSE WaitersOf(m)[j]

(* The keys of the active descriptors, when the queue of one is r.          *)
ActiveBecomes(m, n, k, r) ==
  ActiveOf(n) = IF r = <<>> THEN Without(ActiveOf(m), {k}) ELSE ActiveOf(m)

(* An active descriptor's queue changes, but is not emptied.               *)
LEMMA QueueChanges ==
  ASSUME NEW m, Good(m), NEW d \in Range(ItemsOf(m, semd_h)), NEW n, NEW r,
         OneListChanges(m, n, procq(d), r), r # <<>>
  PROVE  /\ Good(n) /\ FreeOf(n) = FreeOf(m) /\ ReadyOf(n) = ReadyOf(m)
         /\ SameTree(m, n) /\ n.p_semAdd = m.p_semAdd
         /\ ActiveOf(n) = ActiveOf(m) /\ WaitersBecome(m, n, m.s_key[d], r)
<1>1. /\ Linked(n) /\ InUse(n) = InUse(m) /\ ItemsOf(n, procq(d)) = r
      /\ n.p_parent = m.p_parent /\ n.p_semAdd = m.p_semAdd
      /\ n.p_prio = m.p_prio /\ n.s_key = m.s_key
  BY DEF OneListChanges
<1>2. d \in Pcbs /\ m.s_key[d] \in Keys /\ Descriptor(m, m.s_key[d]) = d /\ d # None
  BY DescriptorFacts
<1>3. /\ ItemsOf(n, pcbFree_h) = ItemsOf(m, pcbFree_h)
      /\ ItemsOf(n, readyQueue) = ItemsOf(m, readyQueue)
      /\ ItemsOf(n, semdFree_h) = ItemsOf(m, semdFree_h)
      /\ ItemsOf(n, semd_h) = ItemsOf(m, semd_h)
      /\ \A e \in Pcbs : e # d => ItemsOf(n, procq(e)) = ItemsOf(m, procq(e))
      /\ \A p \in Pcbs : p_child(p) \in InUse(m) =>
           ItemsOf(n, p_child(p)) = ItemsOf(m, p_child(p))
  <2>1. /\ procq(d) \notin {pcbFree_h, readyQueue, semdFree_h, semd_h}
        /\ \A e \in Pcbs : e # d => procq(e) # procq(d)
        /\ \A p \in Pcbs : p_child(p) # procq(d)
    BY <1>2, KindOf, Addresses
  <2> QED  BY <2>1, GoodHeads DEF OneListChanges
<1>4. FreeOf(n) = FreeOf(m) /\ ReadyOf(n) = ReadyOf(m)
  BY <1>3, FreeItems DEF ReadyOf
<1>5. ItemsOf(m, procq(d)) # <<>>
  BY AslFacts
<1>6. Tables(n)
  BY <1>1, <1>2, <1>3, <1>4, <1>5 DEF Good, Tables, Semds, Pcbs
<1>7. ActiveOf(n) = ActiveOf(m)
  BY <1>1, <1>3 DEF ActiveOf
<1>8. WaitersBecome(m, n, m.s_key[d], r)
  <2>1. \A k : Descriptor(n, k) = Descriptor(m, k)
    BY <1>1, <1>3 DEF Descriptor, First
  <2>2. ASSUME NEW k \in Keys
        PROVE  WaitersOf(n)[k] = IF k = m.s_key[d] THEN r ELSE WaitersOf(m)[k]
    <3>1. CASE k = m.s_key[d]
      BY <1>1, <1>2, <2>1, <3>1 DEF WaitersOf
    <3>2. CASE k # m.s_key[d]
      <4>1. Descriptor(m, k) # None => Descriptor(m, k) \in Pcbs /\ Descriptor(m, k) # d
        BY <3>2, DescriptorFacts
      <4> QED  BY <1>3, <2>1, <3>2, <4>1 DEF WaitersOf
    <3> QED  BY <3>1, <3>2
  <2> QED  BY <2>2 DEF WaitersBecome
<1> QED  BY <1>1, <1>4, <1>6, <1>7, <1>8 DEF Good, SameTree

(* A change of one list leaves the links of the other kinds where they are. *)
LEMMA OnOthers ==
  ASSUME NEW m, NEW n, NEW h, NEW r, OneListChanges(m, n, h, r),
         NEW kind, kind # Kind(h), NEW p
  PROVE  On(n, kind, p) <=> On(m, kind, p)
BY DEF OneListChanges, On

(* INIT_LIST_HEAD of an empty list.                                        *)
LEMMA InitEmpty ==
  ASSUME NEW m, Linked(m), NEW h \in InUse(m), ItemsOf(m, h) = <<>>
  PROVE  INIT_LIST_HEAD(m, h) = m
<1>1. h \in Links /\ m \in Memories /\ Paired(m)
  BY Addresses DEF Linked, InUse
<1>2. m.next[h] = h
  BY ListFacts DEF list_empty
<1>3. m.prev[h] = h
  BY <1>1, <1>2, Addresses, MemoryFacts DEF Paired
<1> QED  BY <1>1, <1>2, <1>3, InitAgain

(* What the active descriptors of n say, when those of m change in order   *)
(* to serve the key k with the descriptor d, or no longer.                 *)
LEMMA OtherWaiters ==
  ASSUME NEW m, Good(m), NEW n, Good(n), NEW d \in Pcbs, NEW k \in Keys,
         \A e \in Pcbs \ {d} : /\ ItemsOf(n, procq(e)) = ItemsOf(m, procq(e))
                               /\ n.s_key[e] = m.s_key[e]
                               /\ e \in Range(ItemsOf(n, semd_h))
                                    <=> e \in Range(ItemsOf(m, semd_h)),
         d \in Range(ItemsOf(n, semd_h)) => n.s_key[d] = k,
         d \in Range(ItemsOf(m, semd_h)) => m.s_key[d] = k
  PROVE  \A j \in Keys \ {k} : WaitersOf(n)[j] = WaitersOf(m)[j]
<1> SUFFICES ASSUME NEW j \in Keys \ {k}  PROVE WaitersOf(n)[j] = WaitersOf(m)[j]
  OBVIOUS
<1>1. CASE Descriptor(m, j) # None
  <2>1. PICK e : /\ e = Descriptor(m, j) /\ e \in Range(ItemsOf(m, semd_h))
                 /\ m.s_key[e] = j /\ e \in Pcbs
    BY <1>1, DescriptorFacts
  <2>2. e # d
    BY <2>1
  <2>3. e \in Range(ItemsOf(n, semd_h)) /\ n.s_key[e] = j
    BY <2>1, <2>2
  <2>4. WaitersOf(m)[j] = ItemsOf(m, procq(e)) /\ WaitersOf(n)[j] = ItemsOf(n, procq(e))
    BY <2>1, <2>3, AslFacts
  <2> QED  BY <2>1, <2>2, <2>4
<1>2. CASE Descriptor(m, j) = None
  <2>1. Descriptor(n, j) = None
    <3> SUFFICES ASSUME Descriptor(n, j) # None  PROVE FALSE
      OBVIOUS
    <3>1. PICK e : /\ e = Descriptor(n, j) /\ e \in Range(ItemsOf(n, semd_h))
                   /\ n.s_key[e] = j /\ e \in Pcbs
      BY DescriptorFacts
    <3>2. e # d
      BY <3>1
    <3>3. e \in Range(ItemsOf(m, semd_h)) /\ m.s_key[e] = j
      BY <3>1, <3>2
    <3> QED  BY <1>2, <3>3, DescriptorFacts
  <2> QED  BY <1>2, <2>1, AslFacts
<1> QED  BY <1>1, <1>2

(* A descriptor's queue changes to r, and the descriptor goes back to      *)
(* semdFree_h when r is empty.                                             *)
LEMMA Recycle ==
  ASSUME NEW m, Good(m), NEW d \in Range(ItemsOf(m, semd_h)), NEW m1, NEW r,
         OneListChanges(m, m1, procq(d), r), NEW n, n = Recycled(m1, d)
  PROVE  /\ Good(n) /\ FreeOf(n) = FreeOf(m) /\ ReadyOf(n) = ReadyOf(m)
         /\ SameTree(m, n) /\ n.p_semAdd = m.p_semAdd
         /\ WaitersBecome(m, n, m.s_key[d], r)
         /\ ActiveBecomes(m, n, m.s_key[d], r)
<1>1. /\ Linked(m1) /\ InUse(m1) = InUse(m) /\ ItemsOf(m1, procq(d)) = r
      /\ m1.p_parent = m.p_parent /\ m1.p_semAdd = m.p_semAdd
      /\ m1.p_prio = m.p_prio /\ m1.s_key = m.s_key
  BY DEF OneListChanges
<1>2. d \in Pcbs /\ m.s_key[d] \in Keys /\ procq(d) \in InUse(m)
  BY DescriptorFacts, GoodHeads
<1>3. list_empty(m1, procq(d)) <=> r = <<>>
  BY <1>1, <1>2, ListFacts
<1>4. CASE r # <<>>
  <2>1. n = m1
    BY <1>3, <1>4 DEF Recycled
  <2> QED  BY <1>4, <2>1, QueueChanges DEF ActiveBecomes
<1>5. CASE r = <<>>
  <2>1. PICK m2, f, a, b :
          /\ m2 = list_del(m1, s_link(d)) /\ f = ItemsOf(m, semdFree_h)
          /\ a = ItemsOf(m, semd_h) /\ b = Without(a, {d})
    OBVIOUS
  <2>2. /\ Kind(semd_h) = "s_link" /\ Kind(semdFree_h) = "s_link" /\ semd_h # semdFree_h
        /\ {semd_h, semdFree_h} \subseteq InUse(m) /\ Kind(procq(d)) = "p_list"
        /\ semd_h # procq(d) /\ semdFree_h # procq(d)
    BY <1>2, KindOf, GoodHeads
  <2>3. ItemsOf(m1, semd_h) = a /\ ItemsOf(m1, semdFree_h) = f
    BY <2>1, <2>2 DEF OneListChanges
  <2>4. OneListChanges(m1, m2, semd_h, b) /\ ~ On(m2, "s_link", d)
    <3>1. m2 = list_del(m1, <<Kind(semd_h), d>>) /\ d \in Range(ItemsOf(m1, semd_h))
      BY <2>1, <2>2, <2>3 DEF s_link
    <3>2. semd_h \in InUse(m1) /\ b = Without(ItemsOf(m1, semd_h), {d})
      BY <1>1, <2>1, <2>2, <2>3
    <3> QED  BY <1>1, <2>2, <3>1, <3>2, Delete
  <2>5. n = list_add(m2, <<Kind(semdFree_h), d>>, semdFree_h)
    BY <1>3, <1>5, <2>1, <2>2 DEF Recycled, s_link
  <2>6. PICK g : g = <<d>> \o f
    OBVIOUS
  <2>7. ItemsOf(m2, semdFree_h) = f /\ InUse(m2) = InUse(m) /\ Linked(m2)
    BY <1>1, <2>2, <2>3, <2>4 DEF OneListChanges
  <2>8. OneListChanges(m2, n, semdFree_h, g)
    BY <1>2, <2>2, <2>4, <2>5, <2>6, <2>7, AddFirst
  <2>9. Range(b) = Range(a) \ {d} /\ Range(g) = Range(f) \cup {d}
    <3>1. a \in Seq(Pcbs) /\ f \in Seq(Pcbs) /\ IsInjective(f)
      BY <2>1, <2>2, ListFacts DEF Good
    <3>2. d \notin Range(f)
      BY <2>1, <2>2 DEF Good, Linked
    <3>3. \A c \in Seq(Pcbs), y \in Pcbs :
            IsInjective(c) /\ y \notin Range(c) => Range(<<y>> \o c) = Range(c) \cup {y}
      BY ConsLemma
    <3> QED  BY <1>2, <2>1, <2>6, <3>1, <3>2, <3>3, WithoutLemma
  <2>10. /\ Linked(n) /\ InUse(n) = InUse(m) /\ ItemsOf(n, procq(d)) = <<>>
         /\ ItemsOf(n, semdFree_h) = g /\ ItemsOf(n, semd_h) = b
         /\ n.p_parent = m.p_parent /\ n.p_semAdd = m.p_semAdd
         /\ n.p_prio = m.p_prio /\ n.s_key = m.s_key
         /\ \A h \in InUse(m) \ {procq(d), semdFree_h, semd_h} : ItemsOf(n, h) = ItemsOf(m, h)
    BY <1>1, <1>2, <1>5, <2>2, <2>4, <2>8 DEF OneListChanges
  <2>11. /\ ItemsOf(n, pcbFree_h) = ItemsOf(m, pcbFree_h)
         /\ ItemsOf(n, readyQueue) = ItemsOf(m, readyQueue)
         /\ \A e \in Pcbs : e # d => ItemsOf(n, procq(e)) = ItemsOf(m, procq(e))
         /\ \A p \in Pcbs : p_child(p) \in InUse(m) =>
              ItemsOf(n, p_child(p)) = ItemsOf(m, p_child(p))
    <3>1. /\ {pcbFree_h, readyQueue} \cap {procq(d), semdFree_h, semd_h} = {}
          /\ \A e \in Pcbs : e # d => procq(e) \notin {procq(d), semdFree_h, semd_h}
          /\ \A p \in Pcbs : p_child(p) \notin {procq(d), semdFree_h, semd_h}
      BY <1>2, KindOf, Addresses
    <3> QED  BY <2>10, <3>1, GoodHeads
  <2>12. FreeOf(n) = FreeOf(m) /\ ReadyOf(n) = ReadyOf(m)
    BY <2>11, FreeItems DEF ReadyOf
  <2>13. Tables(n)
    <3>1. /\ Heads \cup {semdFree_h, semd_h} \subseteq InUse(n)
          /\ \A e \in Semds : \/ e \in Range(ItemsOf(n, semdFree_h))
                              \/ e \in Range(ItemsOf(n, semd_h))
      BY <2>1, <2>9, <2>10 DEF Good, Tables
    <3>2. \A e \in Semds : e \in Range(ItemsOf(n, semdFree_h)) <=> ItemsOf(n, procq(e)) = <<>>
      BY <2>1, <2>9, <2>10, <2>11 DEF Good, Tables, Semds, Pcbs
    <3>3. \A e \in Range(ItemsOf(n, semd_h)) :
            /\ n.s_key[e] \in Keys
            /\ \A c \in Range(ItemsOf(n, semd_h)) : n.s_key[c] = n.s_key[e] => c = e
      BY <2>1, <2>9, <2>10 DEF Good, Tables
    <3>4. /\ \A p \in Pcbs : p_child(p) \in InUse(n) =>
               \A q \in Pcbs : q \in Range(ItemsOf(n, p_child(p))) <=> n.p_parent[q] = p
          /\ \A p \in Pcbs : n.p_parent[p] # None => p_child(n.p_parent[p]) \in InUse(n)
          /\ \A p \in Pcbs \ FreeOf(n) : p_child(p) \in InUse(n)
      BY <2>10, <2>11, <2>12 DEF Good, Tables
    <3> QED  BY <3>1, <3>2, <3>3, <3>4 DEF Tables
  <2>14. Good(n)
    BY <2>10, <2>13 DEF Good
  <2>15. ActiveOf(n) = Without(ActiveOf(m), {m.s_key[d]})
    BY <2>1, <2>10, KeysWithout
  <2>16. \A j \in Keys \ {m.s_key[d]} : WaitersOf(n)[j] = WaitersOf(m)[j]
    <3>1. PICK k \in Keys : k = m.s_key[d]
      BY <1>2
    <3>2. \A e \in Pcbs \ {d} :
            /\ ItemsOf(n, procq(e)) = ItemsOf(m, procq(e))
            /\ n.s_key[e] = m.s_key[e]
            /\ e \in Range(ItemsOf(n, semd_h)) <=> e \in Range(ItemsOf(m, semd_h))
      BY <2>1, <2>9, <2>10, <2>11
    <3>3. n.s_key[d] = k /\ m.s_key[d] = k
      BY <2>10, <3>1
    <3>4. \A j \in Keys \ {k} : WaitersOf(n)[j] = WaitersOf(m)[j]
      BY <1>2, <2>14, <3>2, <3>3, OtherWaiters
    <3> QED  BY <3>1, <3>4
  <2>17. WaitersOf(n)[m.s_key[d]] = <<>>
    <3>1. Descriptor(n, m.s_key[d]) = None
      <4> SUFFICES ASSUME Descriptor(n, m.s_key[d]) # None  PROVE FALSE
        OBVIOUS
      <4>1. PICK e : e \in Range(ItemsOf(n, semd_h)) /\ n.s_key[e] = m.s_key[d]
        BY <2>14, DescriptorFacts
      <4>2. e \in Range(a) /\ e # d /\ m.s_key[e] = m.s_key[d]
        BY <2>9, <2>10, <4>1
      <4> QED  BY <2>1, <4>2 DEF Good, Tables
    <3> QED  BY <1>2, <2>14, <3>1, AslFacts
  <2>18. WaitersBecome(m, n, m.s_key[d], r)
    BY <1>5, <2>16, <2>17 DEF WaitersBecome
  <2> QED  BY <1>5, <2>10, <2>12, <2>14, <2>15, <2>18 DEF SameTree, ActiveBecomes
<1> QED  BY <1>4, <1>5

(* The field p_semAdd is assigned last.                                    *)
LEMMA SemAddLast ==
  ASSUME NEW m, Good(m), NEW p \in Pcbs, NEW k \in Keys \cup {None},
         NEW n, n = PutSemAdd(m, p, k)
  PROVE  /\ Good(n) /\ FreeOf(n) = FreeOf(m) /\ ReadyOf(n) = ReadyOf(m)
         /\ SameTree(m, n) /\ ActiveOf(n) = ActiveOf(m) /\ WaitersOf(n) = WaitersOf(m)
         /\ Becomes(n.p_semAdd, m.p_semAdd, p, k)
<1>1. /\ SameLinks(m, n) /\ Becomes(n.p_semAdd, m.p_semAdd, p, k)
      /\ n.p_parent = m.p_parent /\ n.p_prio = m.p_prio /\ n.s_key = m.s_key
  BY GoodHeads, SetSemAdd
<1> QED  BY <1>1, FieldsView DEF SameLinks, SameTree

(* removeBlocked and outBlocked: a waiter leaves.                          *)
LEMMA Unblock ==
  ASSUME NEW m, Good(m), NEW k \in Keys, NEW p \in Range(WaitersOf(m)[k]),
         NEW d, d = Descriptor(m, k), NEW m1, m1 = list_del(m, p_list(p)),
         NEW n, n = PutSemAdd(Recycled(m1, d), p, None)
  PROVE  /\ Good(n) /\ FreeOf(n) = FreeOf(m) /\ ReadyOf(n) = ReadyOf(m)
         /\ SameTree(m, n) /\ Becomes(n.p_semAdd, m.p_semAdd, p, None)
         /\ WaitersBecome(m, n, k, Without(WaitersOf(m)[k], {p}))
         /\ ActiveBecomes(m, n, k, Without(WaitersOf(m)[k], {p}))
<1>1. d \in Range(ItemsOf(m, semd_h)) /\ m.s_key[d] = k /\ d \in Pcbs
  <2>1. d # None
    BY AslFacts, EmptyQueueLemma DEF Range
  <2> QED  BY <2>1, DescriptorFacts
<1>2. PICK q, r : q = WaitersOf(m)[k] /\ r = Without(q, {p})
  OBVIOUS
<1>3. /\ q = ItemsOf(m, procq(d)) /\ procq(d) \in InUse(m) /\ Kind(procq(d)) = "p_list"
      /\ q \in Seq(Pcbs)
  BY <1>1, <1>2, AslFacts, GoodHeads, KindOf
<1>4. p \in Pcbs /\ p \in Range(q)
  BY <1>2, <1>3, RangeOfSeq
<1>5. OneListChanges(m, m1, procq(d), r)
  <2>1. m1 = list_del(m, <<Kind(procq(d)), p>>) /\ p \in Range(ItemsOf(m, procq(d)))
    BY <1>2, <1>3 DEF p_list
  <2> QED  BY <1>2, <1>3, <2>1, Delete DEF Good
<1>6. PICK m2 : m2 = Recycled(m1, d)
  OBVIOUS
<1>7. /\ Good(m2) /\ FreeOf(m2) = FreeOf(m) /\ ReadyOf(m2) = ReadyOf(m)
      /\ SameTree(m, m2) /\ m2.p_semAdd = m.p_semAdd /\ WaitersBecome(m, m2, k, r)
      /\ ActiveBecomes(m, m2, k, r)
  BY <1>1, <1>5, <1>6, Recycle
<1>8. /\ Good(n) /\ FreeOf(n) = FreeOf(m2) /\ ReadyOf(n) = ReadyOf(m2)
      /\ SameTree(m2, n) /\ ActiveOf(n) = ActiveOf(m2) /\ WaitersOf(n) = WaitersOf(m2)
      /\ Becomes(n.p_semAdd, m2.p_semAdd, p, None)
  BY <1>4, <1>6, <1>7, SemAddLast
<1> QED  BY <1>2, <1>7, <1>8 DEF SameTree, WaitersBecome, ActiveBecomes

(* outBlocked of a PCB that waits.                                         *)
LEMMA OutBlocked ==
  ASSUME NEW m, Good(m), NEW k \in Keys, NEW p \in Range(WaitersOf(m)[k]),
         m.p_semAdd[p] = k, NEW n, n = outBlocked(m, p)
  PROVE  /\ Good(n) /\ FreeOf(n) = FreeOf(m) /\ ReadyOf(n) = ReadyOf(m)
         /\ SameTree(m, n) /\ Becomes(n.p_semAdd, m.p_semAdd, p, None)
         /\ WaitersBecome(m, n, k, Without(WaitersOf(m)[k], {p}))
         /\ ActiveBecomes(m, n, k, Without(WaitersOf(m)[k], {p}))
<1>1. PICK d, m1 : d = Descriptor(m, k) /\ m1 = list_del(m, p_list(p))
  OBVIOUS
<1>2. d # None
  BY <1>1, AslFacts, EmptyQueueLemma DEF Range
<1>3. d \in Range(ItemsOf(m, semd_h)) /\ m.s_key[d] = k /\ d \in Pcbs
  BY <1>1, <1>2, DescriptorFacts
<1>4. p \in Range(ItemsOf(m, procq(d))) /\ ItemsOf(m, procq(d)) \in Seq(Pcbs)
  BY <1>3, AslFacts
<1>5. Contains(ItemsOf(m, procq(d)), p)
  <2>1. DOMAIN ItemsOf(m, procq(d)) = 1..Len(ItemsOf(m, procq(d)))
    BY <1>4, LenProperties
  <2> QED  BY <1>4, <2>1 DEF Contains, Range
<1>6. n = PutSemAdd(Recycled(m1, d), p, None)
  BY <1>1, <1>2, <1>5 DEF outBlocked, outProcQ, PutSemAdd
<1> QED  BY <1>1, <1>6, Unblock

(* removeBlocked.                                                          *)
LEMMA RemoveHead ==
  ASSUME NEW m, Good(m), NEW k \in Keys, NEW n, n = removeBlocked(m, k),
         NEW w, w = WaitersOf(m)[k], NEW p, p = headBlocked(m, k)
  PROVE  /\ w = <<>> => p = None /\ n = m
         /\ w # <<>> =>
              /\ p = Head(w) /\ p \in Range(w) /\ p \in Pcbs /\ p # None
              /\ Good(n) /\ FreeOf(n) = FreeOf(m) /\ ReadyOf(n) = ReadyOf(m)
              /\ SameTree(m, n) /\ Becomes(n.p_semAdd, m.p_semAdd, p, None)
              /\ WaitersBecome(m, n, k, Without(w, {p}))
              /\ ActiveBecomes(m, n, k, Without(w, {p}))
<1>1. PICK d : d = Descriptor(m, k)
  OBVIOUS
<1>2. CASE d = None
  <2>1. w = <<>>
    BY <1>1, <1>2, AslFacts
  <2> QED  BY <1>1, <1>2, <2>1 DEF headBlocked, removeBlocked
<1>3. CASE d # None
  <2>1. d \in Range(ItemsOf(m, semd_h)) /\ m.s_key[d] = k /\ d \in Pcbs
    BY <1>1, <1>3, DescriptorFacts
  <2>2. /\ w = ItemsOf(m, procq(d)) /\ w # <<>> /\ procq(d) \in InUse(m)
        /\ Kind(procq(d)) = "p_list"
    BY <2>1, AslFacts, GoodHeads, KindOf
  <2>3. /\ ~ list_empty(m, procq(d)) /\ m.next[procq(d)] = <<Kind(procq(d)), Head(w)>>
        /\ Head(w) \in Range(w) /\ Range(w) \subseteq Pcbs
    BY <2>2, ListFacts DEF Good
  <2>4. p = Head(w) /\ p # None /\ p \in Pcbs /\ p \in Range(w)
    BY <1>1, <1>3, <2>2, <2>3, AddressesAssumption DEF headBlocked, headProcQ, Owner
  <2>5. PICK m1 : m1 = list_del(m, p_list(p))
    OBVIOUS
  <2>6. n = PutSemAdd(Recycled(m1, d), p, None)
    <3>1. removeProcQ(m, procq(d)) = m1
      BY <2>2, <2>3, <2>4, <2>5 DEF removeProcQ, p_list
    <3> QED  BY <1>1, <1>3, <2>4, <3>1 DEF removeBlocked, PutSemAdd
  <2>7. /\ Good(n) /\ FreeOf(n) = FreeOf(m) /\ ReadyOf(n) = ReadyOf(m)
        /\ SameTree(m, n) /\ Becomes(n.p_semAdd, m.p_semAdd, p, None)
        /\ WaitersBecome(m, n, k, Without(w, {p}))
        /\ ActiveBecomes(m, n, k, Without(w, {p}))
    BY <1>1, <2>4, <2>5, <2>6, Unblock
  <2> QED  BY <2>2, <2>4, <2>7
<1> QED  BY <1>2, <1>3

(* findBlockedPcb sees the queue of the first active descriptor.           *)
LEMMA FindBlocked ==
  ASSUME NEW m, Good(m), NEW p
  PROVE  /\ findBlockedPcb(m, p) = IF ActiveOf(m) = <<>> THEN None
                                   ELSE IF p \in Range(WaitersOf(m)[Head(ActiveOf(m))]) THEN p
                                   ELSE Lost
         /\ Contains(ItemsOf(m, readyQueue), p) <=> p \in Range(ReadyOf(m))
         /\ Contains(ItemsOf(m, pcbFree_h), p) <=> p \in FreeOf(m)
<1>1. \A s \in Seq(Pcbs) : Contains(s, p) <=> p \in Range(s)
  <2> TAKE s \in Seq(Pcbs)
  <2>1. DOMAIN s = 1..Len(s)
    BY LenProperties
  <2> QED  BY <2>1 DEF Contains, Range
<1>2. /\ ItemsOf(m, readyQueue) \in Seq(Pcbs) /\ ItemsOf(m, pcbFree_h) \in Seq(Pcbs)
      /\ semd_h \in InUse(m)
  BY GoodHeads, ListFacts DEF Good
<1>3. PICK a : a = ItemsOf(m, semd_h)
  OBVIOUS
<1>4. /\ list_empty(m, semd_h) <=> a = <<>>
      /\ a # <<>> => m.next[semd_h] = <<Kind(semd_h), Head(a)>> /\ Head(a) \in Range(a)
      /\ a \in Seq(Pcbs) /\ Len(a) \in Nat
  BY <1>2, <1>3, ListFacts DEF Good
<1>5. /\ ActiveOf(m) \in Seq(Keys) /\ Len(ActiveOf(m)) = Len(a)
      /\ \A i \in 1..Len(a) : ActiveOf(m)[i] = m.s_key[a[i]]
  BY <1>3, AslFacts
<1>6. CASE a = <<>>
  <2>1. ActiveOf(m) = <<>>
    BY <1>4, <1>5, <1>6, EmptySeq
  <2> QED  BY <1>1, <1>2, <1>4, <1>6, <2>1, FreeItems DEF ReadyOf, findBlockedPcb
<1>7. CASE a # <<>>
  <2>1. /\ ActiveOf(m) # <<>> /\ Head(ActiveOf(m)) = m.s_key[Head(a)]
    BY <1>4, <1>5, <1>7, EmptySeq
  <2>2. Owner(m.next[semd_h]) = Head(a) /\ Head(a) \in Pcbs
    BY <1>3, <1>4, <1>7, DescriptorFacts DEF Owner
  <2>3. /\ WaitersOf(m)[Head(ActiveOf(m))] = ItemsOf(m, procq(Head(a)))
        /\ ItemsOf(m, procq(Head(a))) \in Seq(Pcbs)
    BY <1>3, <1>4, <1>7, <2>1, <2>2, AslFacts, GoodHeads, ListFacts DEF Good
  <2> QED  BY <1>1, <1>2, <1>4, <1>7, <2>1, <2>2, <2>3, FreeItems DEF ReadyOf, findBlockedPcb
<1> QED  BY <1>6, <1>7

(* insertBlocked of a PCB that is in no queue, when the key has an active  *)
(* descriptor ...                                                          *)
LEMMA InsertActive ==
  ASSUME NEW m, Good(m), NEW k \in Keys, NEW p \in Pcbs, Unqueued(m, p),
         k \in Range(ActiveOf(m)), NEW n, n = insertBlocked(m, k, p)
  PROVE  /\ Good(n) /\ FreeOf(n) = FreeOf(m) /\ ReadyOf(n) = ReadyOf(m)
         /\ SameTree(m, n) /\ Becomes(n.p_semAdd, m.p_semAdd, p, k)
         /\ ActiveOf(n) = ActiveOf(m)
         /\ WaitersBecome(m, n, k, Append(WaitersOf(m)[k], p))
<1>1. PICK d, m1, r : /\ d = Descriptor(m, k) /\ m1 = list_add_tail(m, p_list(p), procq(d))
                      /\ r = Append(WaitersOf(m)[k], p)
  OBVIOUS
<1>2. d # None /\ d \in Range(ItemsOf(m, semd_h)) /\ m.s_key[d] = k /\ d \in Pcbs
  BY <1>1, AslFacts, DescriptorFacts
<1>3. /\ WaitersOf(m)[k] = ItemsOf(m, procq(d)) /\ procq(d) \in InUse(m)
      /\ Kind(procq(d)) = "p_list" /\ ~ On(m, "p_list", p) /\ WaitersOf(m)[k] \in Seq(Pcbs)
  BY <1>2, AslFacts, GoodHeads, KindOf, OnWhat
<1>4. OneListChanges(m, m1, procq(d), r)
  BY <1>1, <1>3, AddLast DEF Good
<1>5. r # <<>>
  BY <1>1, <1>3, EnqueueLemma
<1>6. /\ Good(m1) /\ FreeOf(m1) = FreeOf(m) /\ ReadyOf(m1) = ReadyOf(m)
      /\ SameTree(m, m1) /\ m1.p_semAdd = m.p_semAdd
      /\ ActiveOf(m1) = ActiveOf(m) /\ WaitersBecome(m, m1, k, r)
  BY <1>2, <1>4, <1>5, QueueChanges
<1>7. n = PutSemAdd(m1, p, k)
  BY <1>1, <1>2 DEF insertBlocked, PutSemAdd
<1>8. /\ Good(n) /\ FreeOf(n) = FreeOf(m1) /\ ReadyOf(n) = ReadyOf(m1)
      /\ SameTree(m1, n) /\ ActiveOf(n) = ActiveOf(m1) /\ WaitersOf(n) = WaitersOf(m1)
      /\ Becomes(n.p_semAdd, m1.p_semAdd, p, k)
  BY <1>6, <1>7, SemAddLast
<1> QED  BY <1>1, <1>6, <1>8 DEF SameTree, WaitersBecome

(* ... or when it has none, but a descriptor is free: that one is the      *)
(* first on semd_h now.                                                    *)
LEMMA InsertFree ==
  ASSUME NEW m, Good(m), NEW k \in Keys, NEW p \in Pcbs, Unqueued(m, p),
         k \notin Range(ActiveOf(m)), Len(ActiveOf(m)) < MaxProc,
         NEW n, n = insertBlocked(m, k, p)
  PROVE  /\ Good(n) /\ FreeOf(n) = FreeOf(m) /\ ReadyOf(n) = ReadyOf(m)
         /\ SameTree(m, n) /\ Becomes(n.p_semAdd, m.p_semAdd, p, k)
         /\ ActiveOf(n) = <<k>> \o ActiveOf(m)
         /\ WaitersBecome(m, n, k, Append(WaitersOf(m)[k], p))
<1>1. PICK f, a : f = ItemsOf(m, semdFree_h) /\ a = ItemsOf(m, semd_h)
  OBVIOUS
<1>2. /\ Kind(semd_h) = "s_link" /\ Kind(semdFree_h) = "s_link" /\ semd_h # semdFree_h
      /\ {semd_h, semdFree_h} \subseteq InUse(m) /\ Linked(m)
  BY KindOf, GoodHeads DEF Good
<1>3. /\ f \in Seq(Pcbs) /\ IsInjective(f) /\ Range(f) \subseteq Pcbs
      /\ list_empty(m, semdFree_h) <=> f = <<>>
      /\ f # <<>> => m.next[semdFree_h] = <<Kind(semdFree_h), Head(f)>> /\ Head(f) \in Range(f)
  BY <1>1, <1>2, ListFacts
<1>4. a \in Seq(Pcbs) /\ IsInjective(a) /\ Range(a) \subseteq Pcbs /\ Range(f) \cap Range(a) = {}
  <2>1. a \in Seq(Pcbs) /\ IsInjective(a) /\ Range(a) \subseteq Pcbs
    BY <1>1, <1>2, ListFacts
  <2> QED  BY <1>1, <1>2, <2>1 DEF Linked
<1>5. f # <<>>
  <2> SUFFICES ASSUME f = <<>>  PROVE FALSE
    OBVIOUS
  <2>1. Range(f) = {}
    BY <1>3, EmptyQueueLemma
  <2>2. Range(a) = Pcbs
    BY <1>1, <1>4, <2>1 DEF Good, Tables, Semds, Pcbs
  <2>3. Len(a) = Cardinality(Pcbs)
    BY <1>4, <2>2, QueueLength
  <2>4. Cardinality(Pcbs) = MaxProc /\ MaxProc \in Nat
    BY FS_Interval, TableAssumption DEF Pcbs
  <2> QED  BY <1>1, <2>3, <2>4, AslFacts
<1>6. PICK e \in Pcbs : e = Head(f) /\ e \in Range(f) /\ e \notin Range(a)
  BY <1>3, <1>4, <1>5
<1>7. Owner(m.next[semdFree_h]) = e /\ Descriptor(m, k) = None
  BY <1>3, <1>5, <1>6, AslFacts DEF Owner
<1>8. /\ procq(e) \in InUse(m) /\ Kind(procq(e)) = "p_list" /\ ItemsOf(m, procq(e)) = <<>>
      /\ semd_h # procq(e) /\ semdFree_h # procq(e)
  BY <1>1, <1>6, KindOf, GoodHeads DEF Good, Tables, Semds, Pcbs
<1>9. PICK m1, g : m1 = list_del(m, s_link(e)) /\ g = Without(f, {e})
  OBVIOUS
<1>10. OneListChanges(m, m1, semdFree_h, g) /\ ~ On(m1, "s_link", e)
  <2>1. m1 = list_del(m, <<Kind(semdFree_h), e>>) /\ e \in Range(ItemsOf(m, semdFree_h))
    BY <1>1, <1>2, <1>6, <1>9 DEF s_link
  <2> QED  BY <1>1, <1>2, <1>9, <2>1, Delete
<1>11. /\ Linked(m1) /\ InUse(m1) = InUse(m) /\ ItemsOf(m1, procq(e)) = <<>>
       /\ ItemsOf(m1, semdFree_h) = g /\ ItemsOf(m1, semd_h) = a
       /\ m1.p_parent = m.p_parent /\ m1.p_semAdd = m.p_semAdd
       /\ m1.p_prio = m.p_prio /\ m1.s_key = m.s_key
  BY <1>1, <1>2, <1>8, <1>10 DEF OneListChanges
<1>12. INIT_LIST_HEAD(m1, procq(e)) = m1
  BY <1>8, <1>11, InitEmpty
<1>13. PICK m2 : m2 = PutKey(m1, e, k)
  OBVIOUS
<1>14. /\ SameLinks(m1, m2) /\ Becomes(m2.s_key, m1.s_key, e, k)
       /\ m2.p_parent = m1.p_parent /\ m2.p_semAdd = m1.p_semAdd /\ m2.p_prio = m1.p_prio
  BY <1>6, <1>11, <1>13, SetKey DEF Linked
<1>15. SameLists(m1, m2) /\ ~ On(m2, "s_link", e) /\ ~ On(m2, "p_list", p)
  <2>1. ~ On(m, "p_list", p)
    BY OnWhat
  <2>2. ~ On(m1, "p_list", p)
    BY <1>2, <1>10, <2>1, OnOthers
  <2> QED  BY <1>10, <1>11, <1>14, <2>2, FieldsOnly DEF SameLinks
<1>16. PICK m3, b : m3 = list_add(m2, s_link(e), semd_h) /\ b = <<e>> \o a
  OBVIOUS
<1>17. OneListChanges(m2, m3, semd_h, b) /\ ~ On(m3, "p_list", p)
  <2>1. m3 = list_add(m2, <<Kind(semd_h), e>>, semd_h)
    BY <1>2, <1>16 DEF s_link
  <2>2. Linked(m2) /\ semd_h \in InUse(m2) /\ ItemsOf(m2, semd_h) = a
    BY <1>2, <1>11, <1>15 DEF SameLists
  <2>3. OneListChanges(m2, m3, semd_h, b)
    BY <1>2, <1>15, <1>16, <2>1, <2>2, AddFirst
  <2> QED  BY <1>2, <1>15, <2>3, OnOthers
<1>18. PICK m4 : m4 = list_add_tail(m3, p_list(p), procq(e))
  OBVIOUS
<1>19. PICK r : r = Append(<<>>, p)
  OBVIOUS
<1>20. OneListChanges(m3, m4, procq(e), r)
  <2>1. Linked(m3) /\ procq(e) \in InUse(m3) /\ ItemsOf(m3, procq(e)) = <<>>
    BY <1>8, <1>11, <1>15, <1>17 DEF SameLists, OneListChanges
  <2> QED  BY <1>8, <1>17, <1>18, <1>19, <2>1, AddLast
<1>21. n = PutSemAdd(m4, p, k)
  BY <1>3, <1>5, <1>7, <1>9, <1>12, <1>13, <1>16, <1>18 DEF insertBlocked, PutKey, PutSemAdd
<1>22. /\ Linked(m4) /\ InUse(m4) = InUse(m) /\ ItemsOf(m4, procq(e)) = r
       /\ ItemsOf(m4, semdFree_h) = g /\ ItemsOf(m4, semd_h) = b
       /\ \A h \in InUse(m) \ {procq(e), semdFree_h, semd_h} : ItemsOf(m4, h) = ItemsOf(m, h)
       /\ m4.p_parent = m.p_parent /\ m4.p_semAdd = m.p_semAdd
       /\ m4.p_prio = m.p_prio /\ Becomes(m4.s_key, m.s_key, e, k)
  <2>1. \A h \in InUse(m) \ {semdFree_h} : ItemsOf(m1, h) = ItemsOf(m, h)
    BY <1>10 DEF OneListChanges
  <2>2. InUse(m2) = InUse(m) /\ \A h \in InUse(m) : ItemsOf(m2, h) = ItemsOf(m1, h)
    BY <1>11, <1>15 DEF SameLists
  <2>3. InUse(m3) = InUse(m) /\ \A h \in InUse(m) \ {semd_h} : ItemsOf(m3, h) = ItemsOf(m2, h)
    BY <1>17, <2>2 DEF OneListChanges
  <2>4. InUse(m4) = InUse(m) /\ \A h \in InUse(m) \ {procq(e)} : ItemsOf(m4, h) = ItemsOf(m3, h)
    BY <1>20, <2>3 DEF OneListChanges
  <2>5. /\ m4.p_parent = m.p_parent /\ m4.p_semAdd = m.p_semAdd
        /\ m4.p_prio = m.p_prio /\ Becomes(m4.s_key, m.s_key, e, k)
    BY <1>11, <1>14, <1>17, <1>20 DEF OneListChanges
  <2>6. Linked(m4) /\ ItemsOf(m4, procq(e)) = r /\ ItemsOf(m3, semd_h) = b
    BY <1>17, <1>20 DEF OneListChanges
  <2>7. ItemsOf(m4, semdFree_h) = g /\ ItemsOf(m4, semd_h) = b
    BY <1>2, <1>8, <1>11, <2>2, <2>3, <2>4, <2>6
  <2> QED  BY <2>1, <2>2, <2>3, <2>4, <2>5, <2>6, <2>7
<1>23. /\ ItemsOf(m4, pcbFree_h) = ItemsOf(m, pcbFree_h)
       /\ ItemsOf(m4, readyQueue) = ItemsOf(m, readyQueue)
       /\ \A d \in Pcbs : d # e => ItemsOf(m4, procq(d)) = ItemsOf(m, procq(d))
       /\ \A x \in Pcbs : p_child(x) \in InUse(m) =>
            ItemsOf(m4, p_child(x)) = ItemsOf(m, p_child(x))
  <2>1. /\ {pcbFree_h, readyQueue} \cap {procq(e), semdFree_h, semd_h} = {}
        /\ \A d \in Pcbs : d # e => procq(d) \notin {procq(e), semdFree_h, semd_h}
        /\ \A x \in Pcbs : p_child(x) \notin {procq(e), semdFree_h, semd_h}
    BY <1>6, KindOf, Addresses
  <2> QED  BY <1>22, <2>1, GoodHeads
<1>24. FreeOf(m4) = FreeOf(m) /\ ReadyOf(m4) = ReadyOf(m)
  BY <1>23, FreeItems DEF ReadyOf
<1>25. /\ Range(g) = Range(f) \ {e} /\ Range(b) = Range(a) \cup {e} /\ r # <<>>
       /\ b \in Seq(Pcbs)
  <2>1. Range(g) = Range(f) \ {e}
    BY <1>3, <1>9, WithoutLemma
  <2>2. \A c \in Seq(Pcbs), y \in Pcbs :
          IsInjective(c) /\ y \notin Range(c) =>
            Range(<<y>> \o c) = Range(c) \cup {y} /\ <<y>> \o c \in Seq(Pcbs)
    BY ConsLemma
  <2>3. r # <<>>
    BY <1>19, EnqueueLemma
  <2> QED  BY <1>4, <1>6, <1>16, <2>1, <2>2, <2>3
<1>26. m.s_key \in [Pcbs -> Keys \cup {None}]
  BY GoodHeads DEF Memories, Pcbs, Semds
<1>27. \A d \in Pcbs : m4.s_key[d] = IF d = e THEN k ELSE m.s_key[d]
  BY <1>22, <1>26 DEF Becomes
<1>28. \A d \in Range(a) : m.s_key[d] # k
  BY <1>1, <1>7, DescriptorFacts
<1>29. Tables(m4)
  <2>1. /\ Heads \cup {semdFree_h, semd_h} \subseteq InUse(m4)
        /\ \A d \in Semds : \/ d \in Range(ItemsOf(m4, semdFree_h))
                            \/ d \in Range(ItemsOf(m4, semd_h))
    BY <1>1, <1>22, <1>25 DEF Good, Tables
  <2>2. \A d \in Semds : d \in Range(ItemsOf(m4, semdFree_h)) <=> ItemsOf(m4, procq(d)) = <<>>
    BY <1>1, <1>22, <1>23, <1>25 DEF Good, Tables, Semds, Pcbs
  <2>3. \A d \in Range(ItemsOf(m4, semd_h)) :
          /\ m4.s_key[d] \in Keys
          /\ \A c \in Range(ItemsOf(m4, semd_h)) : m4.s_key[c] = m4.s_key[d] => c = d
    <3>1. \A d \in Range(a) : /\ m.s_key[d] \in Keys
                              /\ \A c \in Range(a) : m.s_key[c] = m.s_key[d] => c = d
      BY <1>1 DEF Good, Tables
    <3> QED  BY <1>4, <1>6, <1>22, <1>25, <1>27, <1>28, <3>1
  <2>4. /\ \A x \in Pcbs : p_child(x) \in InUse(m4) =>
             \A q \in Pcbs : q \in Range(ItemsOf(m4, p_child(x))) <=> m4.p_parent[q] = x
        /\ \A x \in Pcbs : m4.p_parent[x] # None => p_child(m4.p_parent[x]) \in InUse(m4)
        /\ \A x \in Pcbs \ FreeOf(m4) : p_child(x) \in InUse(m4)
    BY <1>22, <1>23, <1>24 DEF Good, Tables
  <2> QED  BY <2>1, <2>2, <2>3, <2>4 DEF Tables
<1>30. Good(m4)
  BY <1>22, <1>29 DEF Good
<1>31. \A j \in Keys \ {k} : WaitersOf(m4)[j] = WaitersOf(m)[j]
  <2>1. \A d \in Pcbs \ {e} : /\ ItemsOf(m4, procq(d)) = ItemsOf(m, procq(d))
                              /\ m4.s_key[d] = m.s_key[d]
                              /\ d \in Range(ItemsOf(m4, semd_h))
                                   <=> d \in Range(ItemsOf(m, semd_h))
    BY <1>1, <1>22, <1>23, <1>25, <1>27
  <2> QED  BY <1>1, <1>6, <1>27, <1>30, <2>1, OtherWaiters
<1>32. WaitersOf(m4)[k] = r /\ WaitersOf(m)[k] = <<>>
  <2>1. e \in Range(ItemsOf(m4, semd_h)) /\ m4.s_key[e] = k
    BY <1>6, <1>22, <1>25, <1>27
  <2> QED  BY <1>7, <1>22, <1>30, <2>1, AslFacts
<1>33. ActiveOf(m4) = <<k>> \o ActiveOf(m)
  <2>1. PICK v, w : v = ActiveOf(m) /\ w = ActiveOf(m4)
    OBVIOUS
  <2>2. /\ v \in Seq(Keys) /\ Len(v) = Len(a) /\ \A i \in 1..Len(a) : v[i] = m.s_key[a[i]]
        /\ w \in Seq(Keys) /\ Len(w) = Len(b) /\ \A i \in 1..Len(b) : w[i] = m4.s_key[b[i]]
    BY <1>1, <1>22, <1>30, <2>1, AslFacts
  <2>3. /\ Len(a) \in Nat /\ Len(b) = Len(a) + 1
        /\ \A j \in 1..(Len(a) + 1) : b[j] = IF j <= 1 THEN <<e>>[j] ELSE a[j - 1]
    BY <1>4, <1>6, <1>16, LenProperties, ConcatProperties
  <2>4. PICK u : u = <<k>> \o v
    OBVIOUS
  <2>5. /\ u \in Seq(Keys) /\ Len(u) = Len(a) + 1
        /\ \A j \in 1..(Len(a) + 1) : u[j] = IF j <= 1 THEN <<k>>[j] ELSE v[j - 1]
    BY <2>2, <2>3, <2>4, ConcatProperties
  <2>6. \A j \in 1..(Len(a) + 1) : w[j] = u[j]
    <3> TAKE j \in 1..(Len(a) + 1)
    <3>1. CASE j = 1
      <4>1. b[j] = e /\ u[j] = k
        BY <2>3, <2>5, <3>1
      <4> QED  BY <1>6, <1>27, <2>2, <2>3, <4>1
    <3>2. CASE j # 1
      <4>1. j - 1 \in 1..Len(a) /\ ~ (j <= 1)
        BY <2>3, <3>2
      <4>2. b[j] = a[j - 1] /\ u[j] = v[j - 1] /\ w[j] = m4.s_key[b[j]]
        BY <2>2, <2>3, <2>5, <4>1
      <4>3. a[j - 1] \in Range(a) /\ a[j - 1] \in Pcbs /\ a[j - 1] # e
        <5>1. DOMAIN a = 1..Len(a)
          BY <1>4, LenProperties
        <5> QED  BY <1>4, <1>6, <4>1, <5>1 DEF Range
      <4> QED  BY <1>27, <2>2, <4>1, <4>2, <4>3
    <3> QED  BY <3>1, <3>2
  <2>7. w = u
    BY <2>2, <2>3, <2>5, <2>6, SeqEqual
  <2> QED  BY <2>1, <2>4, <2>7
<1>34. /\ Good(n) /\ FreeOf(n) = FreeOf(m4) /\ ReadyOf(n) = ReadyOf(m4)
       /\ SameTree(m4, n) /\ ActiveOf(n) = ActiveOf(m4) /\ WaitersOf(n) = WaitersOf(m4)
       /\ Becomes(n.p_semAdd, m4.p_semAdd, p, k)
  BY <1>21, <1>30, SemAddLast
<1> QED
  BY <1>19, <1>22, <1>24, <1>31, <1>32, <1>33, <1>34 DEF SameTree, WaitersBecome
-----------------------------------------------------------------------------
(* killProcess.  Before it, a PCB waits on the key in its p_semAdd, if any, *)
(* and is neither ready nor free then.                                     *)
OneQueue(m) ==
  /\ \A p \in Pcbs, k \in Keys : p \in Range(WaitersOf(m)[k]) <=> m.p_semAdd[p] = k
  /\ \A p \in Pcbs : m.p_semAdd[p] # None => p \notin FreeOf(m) /\ p \notin Range(ReadyOf(m))
  /\ Range(ReadyOf(m)) \cap FreeOf(m) = {}

(* m0 without the PCBs of K in its queues, and in p_semAdd.                *)
Unlinked(m0, m, K) ==
  /\ Good(m) /\ m.p_prio = m0.p_prio
  /\ \A q \in Pcbs : m.p_semAdd[q] = IF q \in K THEN None ELSE m0.p_semAdd[q]
  /\ ReadyOf(m) = Without(ReadyOf(m0), K)
  /\ \A k \in Keys : WaitersOf(m)[k] = Without(WaitersOf(m0)[k], K)
  /\ ActiveOf(m) = Without(ActiveOf(m0), {k \in Keys : Range(WaitersOf(m0)[k]) \subseteq K})

(* The sequences that K is taken from.                                     *)
LEMMA ViewFacts ==
  ASSUME NEW m, Good(m)
  PROVE  /\ ReadyOf(m) \in Seq(Pcbs) /\ IsInjective(ReadyOf(m))
         /\ \A k \in Keys : WaitersOf(m)[k] \in Seq(Pcbs) /\ IsInjective(WaitersOf(m)[k])
         /\ ActiveOf(m) \in Seq(Keys) /\ IsInjective(ActiveOf(m))
         /\ m.p_semAdd \in [Pcbs -> Keys \cup {None}] /\ m.p_parent \in [Pcbs -> Pcbs \cup {None}]
         /\ \A k \in Keys : k \in Range(ActiveOf(m)) <=> WaitersOf(m)[k] # <<>>
         /\ FreeOf(m) \subseteq Pcbs
<1>1. ReadyOf(m) \in Seq(Pcbs) /\ IsInjective(ReadyOf(m))
  BY GoodHeads, ListFacts DEF Good, ReadyOf
<1>2. FreeOf(m) \subseteq Pcbs
  BY GoodHeads, ListFacts, FreeItems DEF Good
<1>3. \A k \in Keys : k \in Range(ActiveOf(m)) <=> WaitersOf(m)[k] # <<>>
  BY AslFacts, DescriptorFacts
<1> QED  BY <1>1, <1>2, <1>3, AslFacts, GoodHeads DEF Memories

(* Behind the loop of killProcess: p leaves the queue it is in, if any.    *)
LeaveQueue(m, p) == IF m.p_semAdd[p] # None THEN outBlocked(m, p)
                    ELSE outProcQ(m, readyQueue, p)

Dying(m0, m, K, p) ==
  /\ Good(m0) /\ OneQueue(m0) /\ K \subseteq Pcbs \ FreeOf(m0) /\ Unlinked(m0, m, K)
  /\ FreeOf(m) = FreeOf(m0) \cup K /\ p \in Pcbs \ (K \cup FreeOf(m0))

(* That takes p out of the view, too.                                      *)
LEMMA UnlinkOne ==
  ASSUME NEW m0, NEW m, NEW K, NEW p, Dying(m0, m, K, p),
         NEW n, n = LeaveQueue(m, p), NEW L, L = K \cup {p}
  PROVE  /\ Unlinked(m0, n, L) /\ FreeOf(n) = FreeOf(m) /\ n.p_parent = m.p_parent
         /\ Unqueued(n, p)
<1>0. L = K \cup {p} /\ p \in L
  OBVIOUS
<1>14. /\ Good(m0) /\ OneQueue(m0) /\ K \subseteq Pcbs \ FreeOf(m0) /\ Unlinked(m0, m, K)
       /\ FreeOf(m) = FreeOf(m0) \cup K /\ p \in Pcbs \ (K \cup FreeOf(m0)) /\ p \in Pcbs
  BY DEF Dying
<1>1. PICK r0, w0, a0 : r0 = ReadyOf(m0) /\ w0 = WaitersOf(m0) /\ a0 = ActiveOf(m0)
  OBVIOUS
<1>2. /\ r0 \in Seq(Pcbs) /\ IsInjective(r0)
      /\ \A k \in Keys : w0[k] \in Seq(Pcbs) /\ IsInjective(w0[k])
      /\ a0 \in Seq(Keys) /\ IsInjective(a0)
      /\ m0.p_semAdd \in [Pcbs -> Keys \cup {None}] /\ None \notin Keys
  BY <1>1, <1>14, ViewFacts, AddressesAssumption
<1>3. /\ \A k \in Keys : p \in Range(w0[k]) <=> m0.p_semAdd[p] = k
      /\ m0.p_semAdd[p] # None => p \notin Range(r0)
  BY <1>1, <1>14 DEF OneQueue
<1>4. /\ Good(m) /\ m.p_prio = m0.p_prio /\ m.p_semAdd[p] = m0.p_semAdd[p]
      /\ ReadyOf(m) = Without(r0, K)
      /\ \A k \in Keys : WaitersOf(m)[k] = Without(w0[k], K)
      /\ ActiveOf(m) = Without(a0, {k \in Keys : Range(w0[k]) \subseteq K})
  BY <1>1, <1>14 DEF Unlinked
<1>5. \A k \in Keys : /\ Range(Without(w0[k], K)) = Range(w0[k]) \ K
                      /\ Range(Without(w0[k], L)) = Range(w0[k]) \ L
                      /\ Without(Without(w0[k], K), {p}) = Without(w0[k], L)
  <2> TAKE k \in Keys
  <2>1. PICK w : w = w0[k] /\ w \in Seq(Pcbs) /\ IsInjective(w)
    BY <1>2
  <2>2. Range(Without(w, K)) = Range(w) \ K /\ Range(Without(w, L)) = Range(w) \ L
    BY <2>1, WithoutLemma
  <2>3. Without(Without(w, K), {p}) = Without(w, L)
    BY <1>0, <2>1, WithoutTwice
  <2> QED  BY <2>1, <2>2, <2>3
<1>6. Without(Without(r0, K), {p}) = Without(r0, L) /\ Range(Without(r0, L)) = Range(r0) \ L
  <2>1. Range(Without(r0, L)) = Range(r0) \ L
    BY <1>2, WithoutLemma
  <2> QED  BY <1>0, <1>2, <2>1, WithoutTwice
<1>7. m.p_semAdd \in [Pcbs -> Keys \cup {None}]
  BY <1>4, ViewFacts
<1>8. CASE m0.p_semAdd[p] # None
  <2>1. PICK k0 \in Keys : k0 = m0.p_semAdd[p] /\ p \in Range(w0[k0]) /\ p \notin Range(r0)
    BY <1>2, <1>3, <1>8, <1>14
  <2>2. n = outBlocked(m, p) /\ m.p_semAdd[p] = k0 /\ p \in Range(WaitersOf(m)[k0])
    BY <1>4, <1>5, <1>8, <1>14, <2>1 DEF LeaveQueue
  <2>3. /\ Good(n) /\ FreeOf(n) = FreeOf(m) /\ ReadyOf(n) = ReadyOf(m)
        /\ SameTree(m, n) /\ Becomes(n.p_semAdd, m.p_semAdd, p, None)
        /\ WaitersBecome(m, n, k0, Without(WaitersOf(m)[k0], {p}))
        /\ ActiveBecomes(m, n, k0, Without(WaitersOf(m)[k0], {p}))
    BY <1>4, <1>14, <2>2, OutBlocked
  <2>4. ReadyOf(n) = Without(r0, L)
    <3>1. Without(r0, K) \in Seq(Pcbs) /\ p \notin Range(Without(r0, K))
      BY <1>2, <2>1, WithoutLemma
    <3>2. Without(Without(r0, K), {p}) = Without(r0, K)
      BY <3>1, WithoutNone
    <3> QED  BY <1>4, <1>6, <2>3, <3>2
  <2>5. \A k \in Keys : WaitersOf(n)[k] = Without(w0[k], L)
    <3> TAKE k \in Keys
    <3>1. CASE k = k0
      BY <1>4, <1>5, <2>3, <3>1 DEF WaitersBecome
    <3>2. CASE k # k0
      <4>1. WaitersOf(n)[k] = Without(w0[k], K)
        BY <1>4, <2>3, <3>2 DEF WaitersBecome
      <4>2. p \notin Range(w0[k])
        BY <1>3, <2>1, <3>2
      <4>3. Without(w0[k], K) \in Seq(Pcbs) /\ p \notin Range(Without(w0[k], K))
        BY <1>2, <1>5, <4>2, WithoutLemma
      <4>4. Without(Without(w0[k], K), {p}) = Without(w0[k], K)
        BY <4>3, WithoutNone
      <4> QED  BY <1>5, <4>1, <4>4
    <3> QED  BY <3>1, <3>2
  <2>10. Without(WaitersOf(m)[k0], {p}) = <<>> <=> Range(WaitersOf(m)[k0]) \subseteq {p}
    <3>1. PICK v : v = WaitersOf(m)[k0] /\ v \in Seq(Pcbs)
      BY <1>4, ViewFacts
    <3>2. Without(v, {p}) \in Seq(Pcbs) /\ Range(Without(v, {p})) = Range(v) \ {p}
      BY <3>1, WithoutLemma
    <3>3. Without(v, {p}) = <<>> <=> Range(Without(v, {p})) = {}
      BY <3>2, EmptyQueueLemma
    <3> QED  BY <3>1, <3>2, <3>3
  <2>6. ActiveOf(n) = Without(a0, {k \in Keys : Range(w0[k]) \subseteq L})
    <3>1. PICK B : B = {k \in Keys : Range(w0[k]) \subseteq K}
      OBVIOUS
    <3>2. \A k \in Keys \ {k0} : Range(w0[k]) \subseteq L <=> Range(w0[k]) \subseteq K
      BY <1>0, <1>3, <2>1
    <3>3. CASE Range(w0[k0]) \subseteq L
      <4>1. {k \in Keys : Range(w0[k]) \subseteq L} = B \cup {k0}
        BY <3>1, <3>2, <3>3
      <4>2. Range(WaitersOf(m)[k0]) \subseteq {p}
        BY <1>0, <1>4, <1>5, <3>3
      <4>3. Without(Without(a0, B), {k0}) = Without(a0, B \cup {k0})
        BY <1>2, WithoutTwice
      <4>4. ActiveOf(n) = Without(ActiveOf(m), {k0})
        BY <2>3, <2>10, <4>2 DEF ActiveBecomes
      <4> QED  BY <1>4, <3>1, <4>1, <4>3, <4>4
    <3>4. CASE ~ (Range(w0[k0]) \subseteq L)
      <4>1. {k \in Keys : Range(w0[k]) \subseteq L} = B
        BY <1>0, <3>1, <3>2, <3>4
      <4>2. ~ (Range(WaitersOf(m)[k0]) \subseteq {p})
        BY <1>0, <1>4, <1>5, <3>4
      <4>3. ActiveOf(n) = ActiveOf(m)
        BY <2>3, <2>10, <4>2 DEF ActiveBecomes
      <4> QED  BY <1>4, <3>1, <4>1, <4>3
    <3> QED  BY <3>3, <3>4
  <2>7. \A q \in Pcbs : n.p_semAdd[q] = IF q \in L THEN None ELSE m0.p_semAdd[q]
    <3>1. \A q \in Pcbs : m.p_semAdd[q] = IF q \in K THEN None ELSE m0.p_semAdd[q]
      BY <1>14 DEF Unlinked
    <3>2. n.p_semAdd = [m.p_semAdd EXCEPT ![p] = None]
      BY <2>3 DEF Becomes
    <3>3. \A q \in Pcbs : n.p_semAdd[q] = IF q = p THEN None ELSE m.p_semAdd[q]
      BY <1>7, <3>2
    <3> QED  BY <1>0, <3>1, <3>3
  <2>8. Unlinked(m0, n, L)
    BY <1>1, <1>4, <2>3, <2>4, <2>5, <2>6, <2>7 DEF Unlinked, SameTree
  <2>9. Unqueued(n, p)
    <3>1. p \notin Range(ReadyOf(n)) /\ \A k \in Keys : p \notin Range(WaitersOf(n)[k])
      <4>1. p \notin Range(Without(r0, L))
        BY <1>0, <1>6
      <4>2. \A k \in Keys : p \notin Range(Without(w0[k], L))
        BY <1>0, <1>5
      <4> QED  BY <2>4, <2>5, <4>1, <4>2
    <3> QED  BY <1>0, <1>14, <2>3, <3>1 DEF Unqueued
  <2> QED  BY <1>0, <2>3, <2>8, <2>9 DEF SameTree
<1>9. CASE m0.p_semAdd[p] = None
  <2>1. n = outProcQ(m, readyQueue, p)
    BY <1>4, <1>9 DEF LeaveQueue
  <2>2. /\ Good(n) /\ ReadyOf(n) = Without(ReadyOf(m), {p})
        /\ FreeOf(n) = FreeOf(m) /\ SameAsl(m, n) /\ SameTree(m, n)
    BY <1>4, <1>14, <2>1, ReadyOut
  <2>3. ReadyOf(n) = Without(r0, L)
    BY <1>4, <1>6, <2>2
  <2>4. \A k \in Keys : p \notin Range(w0[k])
    BY <1>2, <1>3, <1>9
  <2>5. \A k \in Keys : WaitersOf(n)[k] = Without(w0[k], L)
    <3> TAKE k \in Keys
    <3>1. WaitersOf(n)[k] = Without(w0[k], K)
      BY <1>4, <2>2 DEF SameAsl
    <3>2. Without(w0[k], K) \in Seq(Pcbs) /\ p \notin Range(Without(w0[k], K))
      BY <1>2, <1>5, <2>4, WithoutLemma
    <3>3. Without(Without(w0[k], K), {p}) = Without(w0[k], K)
      BY <3>2, WithoutNone
    <3> QED  BY <1>5, <3>1, <3>3
  <2>6. {k \in Keys : Range(w0[k]) \subseteq L} = {k \in Keys : Range(w0[k]) \subseteq K}
    BY <1>0, <2>4
  <2>7. ActiveOf(n) = Without(a0, {k \in Keys : Range(w0[k]) \subseteq L})
    BY <1>4, <2>2, <2>6 DEF SameAsl
  <2>8. \A q \in Pcbs : n.p_semAdd[q] = IF q \in L THEN None ELSE m0.p_semAdd[q]
    <3>1. \A q \in Pcbs : m.p_semAdd[q] = IF q \in K THEN None ELSE m0.p_semAdd[q]
      BY <1>14 DEF Unlinked
    <3> QED  BY <1>0, <1>9, <2>2, <3>1 DEF SameAsl
  <2>9. Unlinked(m0, n, L)
    BY <1>1, <1>4, <2>2, <2>3, <2>5, <2>7, <2>8 DEF Unlinked, SameTree
  <2>10. Unqueued(n, p)
    <3>1. p \notin Range(ReadyOf(n)) /\ \A k \in Keys : p \notin Range(WaitersOf(n)[k])
      <4>1. p \notin Range(Without(r0, L))
        BY <1>0, <1>6
      <4>2. \A k \in Keys : p \notin Range(Without(w0[k], L))
        BY <1>0, <1>5
      <4> QED  BY <2>3, <2>5, <4>1, <4>2
    <3> QED  BY <1>0, <1>14, <2>2, <3>1 DEF Unqueued
  <2> QED  BY <1>0, <2>2, <2>9, <2>10 DEF SameTree
<1> QED  BY <1>8, <1>9

(* The innermost call, and the calls that are left when it returns.        *)
LEMMA CallFacts ==
  ASSUME NEW c \in Seq(Pcbs), c # <<>>, IsInjective(c)
  PROVE  /\ Last(c) = c[Len(c)] /\ Last(c) \in Range(c) /\ Len(c) \in Nat \ {0}
         /\ Front(c) \in Seq(Pcbs) /\ IsInjective(Front(c))
         /\ Len(Front(c)) = Len(c) - 1
         /\ \A i \in 1..(Len(c) - 1) : Front(c)[i] = c[i]
         /\ Range(Front(c)) = Range(c) \ {Last(c)}
         /\ Front(c) = <<>> <=> Len(c) = 1
<1>1. /\ Len(c) \in Nat \ {0} /\ DOMAIN c = 1..Len(c) /\ \A i \in 1..Len(c) : c[i] \in Pcbs
      /\ Last(c) = c[Len(c)]
  BY EmptySeq, LenProperties, ElementOfSeq DEF Last
<1>2. PICK n \in Nat : n = Len(c) - 1 /\ n + 1 = Len(c)
  <2>1. \A l \in Nat : l # 0 => l - 1 \in Nat /\ (l - 1) + 1 = l
    OBVIOUS
  <2>2. Len(c) \in Nat /\ Len(c) # 0
    BY <1>1
  <2> QED  BY <2>1, <2>2
<1>3. PICK f : f = Front(c)
  OBVIOUS
<1>4. f \in Seq(Pcbs) /\ Len(f) = n /\ \A i \in 1..n : f[i] = c[i]
  <2>1. f = SubSeq(c, 1, n)
    BY <1>2, <1>3 DEF Front
  <2>2. \A i \in 1..n : c[i] \in Pcbs
    BY <1>1, <1>2
  <2>3. /\ SubSeq(c, 1, n) \in Seq(Pcbs)
        /\ Len(SubSeq(c, 1, n)) = IF 1 <= n THEN n - 1 + 1 ELSE 0
        /\ \A i \in 1..(n - 1 + 1) : SubSeq(c, 1, n)[i] = c[1 + i - 1]
    BY <2>2, SubSeqProperties
  <2>4. \A i \in 1..n : i \in 1..(n - 1 + 1) /\ 1 + i - 1 = i
    OBVIOUS
  <2> QED  BY <2>1, <2>3, <2>4
<1>5. DOMAIN f = 1..n
  BY <1>4, LenProperties
<1>6. IsInjective(f)
  BY <1>1, <1>2, <1>4, <1>5 DEF IsInjective
<1>7. Range(f) = Range(c) \ {c[Len(c)]}
  <2>1. PICK l \in Nat : l = n + 1 /\ l = Len(c)
    BY <1>2
  <2>2. l \in 1..l /\ \A i \in 1..l : i = l \/ i \in 1..n
    BY <2>1
  <2>3. \A i \in 1..n : i \in 1..l /\ i # l
    BY <2>1
  <2>4. DOMAIN c = 1..l
    BY <1>1, <2>1
  <2>5. \A i \in 1..l : c[i] = c[l] => i = l
    BY <2>2, <2>4 DEF IsInjective
  <2>6. Range(c) = {c[i] : i \in 1..l} /\ Range(f) = {f[i] : i \in 1..n}
    BY <1>5, <2>4 DEF Range
  <2> QED  BY <1>4, <2>1, <2>2, <2>3, <2>5, <2>6
<1>8. c[Len(c)] \in Range(c)
  BY <1>1 DEF Range
<1>9. f = <<>> <=> Len(c) = 1
  BY <1>2, <1>4, EmptySeq
<1> QED  BY <1>1, <1>2, <1>3, <1>4, <1>6, <1>7, <1>8, <1>9

(* t and its descendants in m0, all live, t's parent not among them.       *)
Killable(m0, t, S) ==
  /\ Good(m0) /\ OneQueue(m0) /\ S \subseteq Pcbs \ FreeOf(m0)
  /\ t \in S /\ m0.p_parent[t] \notin S
  /\ \A q \in Pcbs : m0.p_parent[q] \in S => q \in S

(* A state of killProcess(m0, soft, count, t): the PCBs of K are dead, and *)
(* their descendants before them; each call is of a child of the one that  *)
(* made it, taken out of its list.                                         *)
Killing(m0, soft, count, t, S, K, s) ==
  /\ K \subseteq S /\ Unlinked(m0, s.mem, K) /\ FreeOf(s.mem) = FreeOf(m0) \cup K
  /\ s.calls \in Seq(Pcbs) /\ IsInjective(s.calls) /\ Range(s.calls) \subseteq S \ K
  /\ \A q \in Pcbs : s.mem.p_parent[q] = IF q \in K \cup (Range(s.calls) \ {t}) THEN None
                                         ELSE m0.p_parent[q]
  /\ \A q \in Pcbs : m0.p_parent[q] \in K => q \in K
  /\ s.calls # <<>> => s.calls[1] = t
  /\ \A j \in 2..Len(s.calls) : m0.p_parent[s.calls[j]] = s.calls[j - 1]
  /\ s.calls = <<>> => t \in K
  /\ s.soft = soft - Cardinality({q \in K : m0.p_semAdd[q] = PseudoClock})
  /\ s.count = count - Cardinality(K)

(* K is a finite set, with as many PCBs as there are or fewer.             *)
LEMMA DeadFinite ==
  ASSUME NEW K, K \subseteq Pcbs
  PROVE  IsFiniteSet(K) /\ Cardinality(K) \in Nat /\ Cardinality(K) <= MaxProc
<1>1. IsFiniteSet(Pcbs) /\ Cardinality(Pcbs) = MaxProc /\ MaxProc \in Nat
  BY FS_Interval, TableAssumption DEF Pcbs
<1> QED  BY <1>1, FS_Subset, FS_CardinalityType

(* A child is taken out of its list, and is the argument of another call.  *)
LEMMA KillPush ==
  ASSUME NEW m0, NEW t, NEW S, Killable(m0, t, S), NEW soft, NEW count, NEW K, NEW s,
         Killing(m0, soft, count, t, S, K, s), s.calls # <<>>,
         NEW p, p = Last(s.calls), ~ emptyChild(s.mem, p),
         NEW m, NEW x, x = Owner(s.mem.next[p_child(p)]), m = removeChild(s.mem, p),
         NEW r, r.mem = m, r.soft = s.soft, r.count = s.count, r.calls = Append(s.calls, x)
  PROVE  Killing(m0, soft, count, t, S, K, r) /\ Len(r.calls) = Len(s.calls) + 1
<1>1. PICK c, d : c = s.calls /\ d = Append(c, x) /\ d = r.calls
  OBVIOUS
<1>2. /\ c \in Seq(Pcbs) /\ IsInjective(c) /\ Range(c) \subseteq S \ K /\ c # <<>> /\ c[1] = t
      /\ \A j \in 2..Len(c) : m0.p_parent[c[j]] = c[j - 1]
      /\ Unlinked(m0, s.mem, K) /\ FreeOf(s.mem) = FreeOf(m0) \cup K /\ Good(s.mem)
  BY <1>1 DEF Killing, Unlinked
<1>3. /\ p = c[Len(c)] /\ p \in Range(c) /\ Len(c) \in Nat \ {0}
  BY <1>1, <1>2, CallFacts
<1>4. p \in Pcbs /\ p_child(p) \in InUse(s.mem)
  BY <1>2, <1>3 DEF Killable, Good, Tables
<1>5. x \in Pcbs /\ s.mem.p_parent[x] = p
  BY <1>2, <1>4, FirstChild
<1>6. \A q \in Pcbs : s.mem.p_parent[q] = IF q \in K \cup (Range(c) \ {t}) THEN None
                                          ELSE m0.p_parent[q]
  BY <1>1 DEF Killing
<1>7. x \notin K /\ x \notin Range(c) /\ x \in S /\ m0.p_parent[x] = p
  <2>1. p # None
    BY <1>4, AddressesAssumption
  <2>2. x \notin K /\ x \notin Range(c) \ {t} /\ m0.p_parent[x] = p
    BY <1>5, <1>6, <2>1
  <2>3. x # t /\ x \in S
    BY <1>2, <1>3, <1>5, <2>2 DEF Killable
  <2> QED  BY <2>2, <2>3
<1>8. /\ Good(m) /\ FreeOf(m) = FreeOf(s.mem) /\ ReadyOf(m) = ReadyOf(s.mem)
      /\ SameAsl(s.mem, m) /\ m.p_prio = s.mem.p_prio
      /\ Becomes(m.p_parent, s.mem.p_parent, x, None)
  <2>1. m = outChild(s.mem, x)
    BY DEF removeChild
  <2> QED  BY <1>2, <1>5, <2>1, OutChild
<1>9. Unlinked(m0, m, K)
  BY <1>2, <1>8 DEF Unlinked, SameAsl
<1>10. /\ d \in Seq(Pcbs) /\ IsInjective(d) /\ Range(d) = Range(c) \cup {x} /\ d # <<>>
       /\ Len(d) = Len(c) + 1 /\ \A i \in 1..Len(c) : d[i] = c[i] /\ d[Len(c) + 1] = x
  BY <1>1, <1>2, <1>5, <1>7, EnqueueLemma, AppendProperties
<1>11. d[1] = t
  BY <1>2, <1>3, <1>10
<1>12. \A j \in 2..Len(d) : m0.p_parent[d[j]] = d[j - 1]
  <2> TAKE j \in 2..Len(d)
  <2>1. CASE j = Len(c) + 1
    <3>1. d[j] = x /\ j - 1 = Len(c) /\ d[j - 1] = p
      BY <1>3, <1>10, <2>1
    <3> QED  BY <1>7, <3>1
  <2>2. CASE j # Len(c) + 1
    <3>1. j \in 2..Len(c) /\ j \in 1..Len(c) /\ j - 1 \in 1..Len(c)
      BY <1>3, <1>10, <2>2
    <3> QED  BY <1>2, <1>10, <3>1
  <2> QED  BY <2>1, <2>2
<1>13. \A q \in Pcbs : m.p_parent[q] = IF q \in K \cup (Range(d) \ {t}) THEN None
                                       ELSE m0.p_parent[q]
  <2>1. s.mem.p_parent \in [Pcbs -> Pcbs \cup {None}]
    BY <1>2, ViewFacts
  <2>4. m.p_parent = [s.mem.p_parent EXCEPT ![x] = None]
    BY <1>8 DEF Becomes
  <2>2. \A q \in Pcbs : m.p_parent[q] = IF q = x THEN None ELSE s.mem.p_parent[q]
    BY <2>1, <2>4
  <2>3. x # t
    BY <1>7, <1>2, <1>3 DEF Killable
  <2> QED  BY <1>6, <1>10, <2>2, <2>3
<1>14. /\ K \subseteq S /\ FreeOf(m) = FreeOf(m0) \cup K /\ Range(d) \subseteq S \ K
       /\ \A q \in Pcbs : m0.p_parent[q] \in K => q \in K
       /\ r.soft = soft - Cardinality({q \in K : m0.p_semAdd[q] = PseudoClock})
       /\ r.count = count - Cardinality(K)
  BY <1>2, <1>7, <1>8, <1>10 DEF Killing
<1>15. Killing(m0, soft, count, t, S, K, r)
  BY <1>1, <1>9, <1>10, <1>11, <1>12, <1>13, <1>14 DEF Killing
<1> QED  BY <1>1, <1>10, <1>15

(* A process without children dies, and the call returns.                  *)
LEMMA KillPop ==
  ASSUME NEW m0, NEW t, NEW S, Killable(m0, t, S), NEW soft \in Int, NEW count \in Int,
         NEW K, NEW s, Killing(m0, soft, count, t, S, K, s), s.calls # <<>>,
         NEW p, p = Last(s.calls), emptyChild(s.mem, p), NEW r, r = KillOne(s, p),
         NEW L, L = K \cup {p}
  PROVE  /\ Killing(m0, soft, count, t, S, L, r) /\ r.mem \in Memories
         /\ Len(r.calls) = Len(s.calls) - 1 /\ Cardinality(L) = Cardinality(K) + 1
<1>1. PICK c, d : c = s.calls /\ d = Front(c)
  OBVIOUS
<1>2. /\ c \in Seq(Pcbs) /\ IsInjective(c) /\ Range(c) \subseteq S \ K /\ c # <<>> /\ c[1] = t
      /\ \A j \in 2..Len(c) : m0.p_parent[c[j]] = c[j - 1]
      /\ Unlinked(m0, s.mem, K) /\ FreeOf(s.mem) = FreeOf(m0) \cup K /\ Good(s.mem)
  BY <1>1 DEF Killing, Unlinked
<1>3. /\ p = c[Len(c)] /\ p \in Range(c) /\ Len(c) \in Nat \ {0}
      /\ d \in Seq(Pcbs) /\ IsInjective(d) /\ Len(d) = Len(c) - 1
      /\ \A i \in 1..(Len(c) - 1) : d[i] = c[i]
      /\ Range(d) = Range(c) \ {p}
      /\ d = <<>> <=> Len(c) = 1
  BY <1>1, <1>2, CallFacts
<1>4. /\ p \in Pcbs \ (K \cup FreeOf(m0)) /\ p \in S /\ p_child(p) \in InUse(s.mem)
      /\ K \subseteq Pcbs \ FreeOf(m0) /\ K \subseteq S /\ S \subseteq Pcbs
  BY <1>2, <1>3 DEF Killable, Killing, Good, Tables
<1>5. \A q \in Pcbs : s.mem.p_parent[q] = IF q \in K \cup (Range(c) \ {t}) THEN None
                                          ELSE m0.p_parent[q]
  BY <1>1 DEF Killing
<1>6. PICK m1 : m1 = outChild(s.mem, p)
  OBVIOUS
<1>7. /\ Good(m1) /\ FreeOf(m1) = FreeOf(s.mem) /\ ReadyOf(m1) = ReadyOf(s.mem)
      /\ SameAsl(s.mem, m1) /\ m1.p_prio = s.mem.p_prio
      /\ Becomes(m1.p_parent, s.mem.p_parent, p, None)
  BY <1>2, <1>4, <1>6, OutChild
<1>8. Unlinked(m0, m1, K) /\ FreeOf(m1) = FreeOf(m0) \cup K
  BY <1>2, <1>7 DEF Unlinked, SameAsl
<1>9. PICK m2 : m2 = LeaveQueue(m1, p)
  OBVIOUS
<1>10. /\ Unlinked(m0, m2, L) /\ FreeOf(m2) = FreeOf(m1) /\ m2.p_parent = m1.p_parent
       /\ Unqueued(m2, p)
  <2>1. Dying(m0, m1, K, p)
    BY <1>4, <1>8 DEF Killable, Dying
  <2> QED  BY <1>9, <2>1, UnlinkOne
<1>11. PICK m3 : m3 = freePcb(m2, p)
  OBVIOUS
<1>12. /\ Good(m3) /\ FreeOf(m3) = FreeOf(m2) \cup {p} /\ ReadyOf(m3) = ReadyOf(m2)
       /\ SameAsl(m2, m3) /\ SameTree(m2, m3)
  BY <1>4, <1>10, <1>11, FreePcb DEF Unlinked
<1>13. Unlinked(m0, m3, L)
  BY <1>10, <1>12 DEF Unlinked, SameAsl, SameTree
<1>14. /\ r.mem = m3 /\ r.calls = d /\ r.count = s.count - 1
       /\ r.soft = s.soft - (IF m1.p_semAdd[p] = PseudoClock THEN 1 ELSE 0)
  <2> DEFINE z == s.soft - (IF m1.p_semAdd[p] = PseudoClock THEN 1 ELSE 0)
  <2>1. r = [mem |-> m3, soft |-> z, count |-> s.count - 1, calls |-> Front(s.calls)]
    BY <1>6, <1>9, <1>11 DEF KillOne, LeaveQueue
  <2> HIDE DEF z
  <2>2. r.mem = m3 /\ r.soft = z /\ r.count = s.count - 1 /\ r.calls = Front(s.calls)
    BY <2>1
  <2> QED  BY <1>1, <2>2 DEF z
<1>15. L \subseteq S /\ Range(d) \subseteq S \ L /\ FreeOf(m3) = FreeOf(m0) \cup L
  BY <1>2, <1>3, <1>4, <1>8, <1>10, <1>12
<1>16. \A q \in Pcbs : m3.p_parent[q] = IF q \in L \cup (Range(d) \ {t}) THEN None
                                        ELSE m0.p_parent[q]
  <2>1. s.mem.p_parent \in [Pcbs -> Pcbs \cup {None}]
    BY <1>2, ViewFacts
  <2>3. m3.p_parent = [s.mem.p_parent EXCEPT ![p] = None]
    BY <1>7, <1>10, <1>12 DEF SameTree, Becomes
  <2>2. \A q \in Pcbs : m3.p_parent[q] = IF q = p THEN None ELSE s.mem.p_parent[q]
    BY <2>1, <2>3
  <2> QED  BY <1>3, <1>5, <2>2
<1>17. \A q \in Pcbs : m0.p_parent[q] \in L => q \in L
  <2> SUFFICES ASSUME NEW q \in Pcbs, m0.p_parent[q] = p  PROVE q \in K
    BY DEF Killing
  <2>1. s.mem.p_parent[q] # p
    BY <1>2, <1>4, FirstChild
  <2>2. q \in K \cup (Range(c) \ {t})
    BY <1>5, <2>1
  <2>3. q \notin Range(c) \ {t}
    <3> SUFFICES ASSUME q \in Range(c), q # t  PROVE FALSE
      OBVIOUS
    <3>1. DOMAIN c = 1..Len(c)
      BY <1>2, LenProperties
    <3>2. PICK j \in 1..Len(c) : q = c[j]
      BY <3>1 DEF Range
    <3>3. j \in 2..Len(c)
      BY <1>2, <1>3, <3>2
    <3>4. c[j - 1] = c[Len(c)] /\ j - 1 \in 1..Len(c) /\ Len(c) \in 1..Len(c) /\ j - 1 # Len(c)
      BY <1>2, <1>3, <3>2, <3>3
    <3> QED  BY <1>2, <3>1, <3>4 DEF IsInjective
  <2> QED  BY <2>2, <2>3
<1>18. d # <<>> => d[1] = t
  BY <1>2, <1>3, LenProperties
<1>19. \A j \in 2..Len(d) : m0.p_parent[d[j]] = d[j - 1]
  <2> TAKE j \in 2..Len(d)
  <2>1. j \in 2..Len(c) /\ j \in 1..(Len(c) - 1) /\ j - 1 \in 1..(Len(c) - 1)
    BY <1>3
  <2> QED  BY <1>2, <1>3, <2>1
<1>20. d = <<>> => t \in L
  <2>1. d = <<>> => p = t
    BY <1>2, <1>3
  <2> QED  BY <2>1
<1>21. /\ IsFiniteSet(K) /\ Cardinality(K) \in Nat /\ Cardinality(L) = Cardinality(K) + 1
  <2>1. IsFiniteSet(K) /\ Cardinality(K) \in Nat
    BY <1>4, DeadFinite
  <2> QED  BY <1>4, <2>1, FS_AddElement
<1>22. r.count = count - Cardinality(L)
  <2>1. s.count = count - Cardinality(K)
    BY DEF Killing
  <2> QED  BY <1>14, <1>21, <2>1
<1>23. r.soft = soft - Cardinality({q \in L : m0.p_semAdd[q] = PseudoClock})
  <2> DEFINE A == {q \in K : m0.p_semAdd[q] = PseudoClock}
             B == {q \in L : m0.p_semAdd[q] = PseudoClock}
  <2>1. s.soft = soft - Cardinality(A) /\ A \subseteq K /\ p \notin A
    BY <1>4 DEF Killing
  <2>2. m1.p_semAdd[p] = m0.p_semAdd[p]
    BY <1>4, <1>8 DEF Unlinked
  <2>3. IF m0.p_semAdd[p] = PseudoClock THEN B = A \cup {p} ELSE B = A
    OBVIOUS
  <2>4. IsFiniteSet(A) /\ Cardinality(A) \in Nat
    BY <1>4, <2>1, DeadFinite
  <2> HIDE DEF A, B
  <2>5. Cardinality(A \cup {p}) = Cardinality(A) + 1
    BY <2>1, <2>4, FS_AddElement
  <2>6. r.soft = soft - Cardinality(B)
    <3>1. CASE m0.p_semAdd[p] = PseudoClock
      <4>1. r.soft = s.soft - 1 /\ Cardinality(B) = Cardinality(A) + 1
        BY <1>14, <2>2, <2>3, <2>5, <3>1
      <4>2. \A a \in Nat : (soft - a) - 1 = soft - (a + 1)
        OBVIOUS
      <4> QED  BY <2>1, <2>4, <4>1, <4>2
    <3>2. CASE m0.p_semAdd[p] # PseudoClock
      BY <1>14, <2>1, <2>2, <2>3, <2>4, <3>2
    <3> QED  BY <3>1, <3>2
  <2> QED  BY <2>6 DEF B
<1>24. Killing(m0, soft, count, t, S, L, r)
  BY <1>3, <1>13, <1>14, <1>15, <1>16, <1>17, <1>18, <1>19, <1>20, <1>22, <1>23 DEF Killing
<1>25. r.mem \in Memories
  BY <1>12, <1>14, GoodHeads
<1> QED  BY <1>1, <1>3, <1>14, <1>21, <1>24, <1>25

KillStates == [mem : Memories, soft : Int, count : Int, calls : Seq(Pcbs)]

(* The states after n steps: each call is made once, and returns once.     *)
AfterSteps(m0, soft, count, t, S, n) ==
  {s \in KillStates : \E K \in SUBSET Pcbs :
     /\ Killing(m0, soft, count, t, S, K, s)
     /\ s.calls # <<>> => 2 * Cardinality(K) + Len(s.calls) = n + 1}

(* A state that Killing describes is one of killProcess.                   *)
LEMMA KillType ==
  ASSUME NEW m0, NEW t, NEW S, Killable(m0, t, S), NEW soft \in Int, NEW count \in Int,
         NEW K, NEW s, Killing(m0, soft, count, t, S, K, s)
  PROVE  /\ s.mem \in Memories /\ s.soft \in Int /\ s.count \in Int
         /\ s.calls \in Seq(Pcbs) /\ K \subseteq Pcbs /\ Cardinality(K) \in Nat
         /\ Len(s.calls) \in Nat
<1>1. K \subseteq Pcbs
  BY DEF Killing, Killable
<1>2. Cardinality(K) \in Nat
  BY <1>1, DeadFinite
<1>3. Cardinality({q \in K : m0.p_semAdd[q] = PseudoClock}) \in Nat
  BY <1>1, DeadFinite
<1>4. s.mem \in Memories
  BY GoodHeads DEF Killing, Unlinked
<1>5. s.calls \in Seq(Pcbs)
  BY DEF Killing
<1>6. s.soft \in Int
  <2>1. s.soft = soft - Cardinality({q \in K : m0.p_semAdd[q] = PseudoClock})
    BY DEF Killing
  <2> QED  BY <1>3, <2>1
<1>7. s.count \in Int
  <2>1. s.count = count - Cardinality(K)
    BY DEF Killing
  <2> QED  BY <1>2, <2>1
<1> QED  BY <1>1, <1>2, <1>4, <1>5, <1>6, <1>7, LenProperties

(* A step of killProcess, from one of its states to the next.              *)
LEMMA KillStepLemma ==
  ASSUME NEW m0, NEW t, NEW S, Killable(m0, t, S), NEW soft \in Int, NEW count \in Int,
         NEW n \in Nat, NEW s \in AfterSteps(m0, soft, count, t, S, n)
  PROVE  KillStep(s) \in AfterSteps(m0, soft, count, t, S, n + 1)
<1>1. s \in KillStates
  BY DEF AfterSteps
<1>2. PICK K \in SUBSET Pcbs :
        /\ Killing(m0, soft, count, t, S, K, s)
        /\ s.calls # <<>> => 2 * Cardinality(K) + Len(s.calls) = n + 1
  BY DEF AfterSteps
<1>3. Cardinality(K) \in Nat /\ Len(s.calls) \in Nat
  BY <1>2, KillType
<1>4. CASE s.calls = <<>>
  <2>1. KillStep(s) = s
    BY <1>4 DEF KillStep
  <2> QED  BY <1>1, <1>2, <1>4, <2>1 DEF AfterSteps
<1>5. CASE s.calls # <<>>
  <2>1. PICK p, r : p = Last(s.calls) /\ r = KillStep(s)
    OBVIOUS
  <2>2. CASE emptyChild(s.mem, p)
    <3>1. r = KillOne(s, p)
      BY <1>5, <2>1, <2>2 DEF KillStep
    <3>2. PICK L : L = K \cup {p}
      OBVIOUS
    <3>3. /\ Killing(m0, soft, count, t, S, L, r) /\ r.mem \in Memories
          /\ Len(r.calls) = Len(s.calls) - 1 /\ Cardinality(L) = Cardinality(K) + 1
      <4>1. Killing(m0, soft, count, t, S, K, s) /\ p = Last(s.calls)
        BY <1>2, <2>1
      <4> HIDE <1>2
      <4> QED  BY <1>5, <2>2, <3>1, <3>2, <4>1, KillPop
    <3>4. /\ r.mem \in Memories /\ r.soft \in Int /\ r.count \in Int
          /\ r.calls \in Seq(Pcbs) /\ L \subseteq Pcbs
      BY <3>3, KillType
    <3>5. r \in KillStates
      <4>1. r = [mem |-> r.mem, soft |-> r.soft, count |-> r.count, calls |-> r.calls]
        BY <3>1 DEF KillOne
      <4> QED  BY <3>4, <4>1 DEF KillStates
    <3>6. 2 * Cardinality(L) + Len(r.calls) = (n + 1) + 1
      <4>1. \A k, l \in Nat : 2 * k + l = n + 1 => 2 * (k + 1) + (l - 1) = (n + 1) + 1
        OBVIOUS
      <4> QED  BY <1>2, <1>3, <1>5, <3>3, <4>1
    <3> QED  BY <2>1, <3>3, <3>4, <3>5, <3>6 DEF AfterSteps
  <2>3. CASE ~ emptyChild(s.mem, p)
    <3>1. PICK m, x, d : /\ x = Owner(s.mem.next[p_child(p)]) /\ m = removeChild(s.mem, p)
                         /\ d = Append(s.calls, x)
      OBVIOUS
    <3>2. r = [s EXCEPT !.mem = m, !.calls = d]
      BY <1>5, <2>1, <2>3, <3>1 DEF KillStep
    <3>3. r.mem = m /\ r.soft = s.soft /\ r.count = s.count /\ r.calls = d
      BY <1>1, <3>2 DEF KillStates
    <3>4. Killing(m0, soft, count, t, S, K, r) /\ Len(r.calls) = Len(s.calls) + 1
      BY <1>2, <1>5, <2>1, <2>3, <3>1, <3>3, KillPush
    <3>5. /\ r.mem \in Memories /\ r.soft \in Int /\ r.count \in Int
          /\ r.calls \in Seq(Pcbs)
      BY <3>4, KillType
    <3>6. r \in KillStates
      BY <1>1, <3>2, <3>3, <3>5 DEF KillStates
    <3>7. 2 * Cardinality(K) + Len(r.calls) = (n + 1) + 1
      <4>1. \A k, l \in Nat : 2 * k + l = n + 1 => 2 * k + (l + 1) = (n + 1) + 1
        OBVIOUS
      <4> QED  BY <1>2, <1>3, <1>5, <3>4, <4>1
    <3> QED  BY <2>1, <3>4, <3>6, <3>7 DEF AfterSteps
  <2> QED  BY <2>2, <2>3
<1> QED  BY <1>4, <1>5

(* Before the first step.                                                  *)
LEMMA KillStart ==
  ASSUME NEW m0, NEW t, NEW S, Killable(m0, t, S), NEW soft \in Int, NEW count \in Int,
         NEW s, s = [mem |-> m0, soft |-> soft, count |-> count, calls |-> <<t>>]
  PROVE  s \in AfterSteps(m0, soft, count, t, S, 0)
<1>1. s.mem = m0 /\ s.soft = soft /\ s.count = count /\ s.calls = <<t>>
  OBVIOUS
<1>2. /\ Good(m0) /\ m0 \in Memories /\ S \subseteq Pcbs /\ t \in Pcbs /\ t \in S
  BY GoodHeads DEF Killable
<1>3. /\ <<t>> \in Seq(Pcbs) /\ Len(<<t>>) = 1 /\ <<t>>[1] = t /\ <<t>> # <<>>
      /\ Range(<<t>>) = {t} /\ IsInjective(<<t>>)
  BY <1>2 DEF Range, IsInjective
<1>4. Unlinked(m0, m0, {})
  <2>1. ReadyOf(m0) = Without(ReadyOf(m0), {})
    BY <1>2, ViewFacts, WithoutOthers
  <2>2. \A k \in Keys : WaitersOf(m0)[k] = Without(WaitersOf(m0)[k], {})
    BY <1>2, ViewFacts, WithoutOthers
  <2>3. PICK B : B = {k \in Keys : Range(WaitersOf(m0)[k]) \subseteq {}}
    OBVIOUS
  <2>4. Range(ActiveOf(m0)) \cap B = {}
    <3> SUFFICES ASSUME NEW k \in Keys, k \in Range(ActiveOf(m0)),
                        Range(WaitersOf(m0)[k]) \subseteq {}
                 PROVE  FALSE
      BY <2>3
    <3>1. WaitersOf(m0)[k] \in Seq(Pcbs) /\ WaitersOf(m0)[k] # <<>>
      BY <1>2, ViewFacts
    <3> QED  BY <3>1, EmptyQueueLemma
  <2>5. ActiveOf(m0) = Without(ActiveOf(m0), B)
    BY <1>2, <2>4, ViewFacts, WithoutOthers
  <2> QED  BY <1>2, <2>1, <2>2, <2>3, <2>5 DEF Unlinked
<1>5. Cardinality({}) = 0 /\ {q \in {} : m0.p_semAdd[q] = PseudoClock} = {}
  BY FS_EmptySet
<1>6. m0.p_parent \in [Pcbs -> Pcbs \cup {None}]
  BY <1>2 DEF Memories
<1>7. Killing(m0, soft, count, t, S, {}, s)
  <2>1. \A j \in 2..Len(<<t>>) : m0.p_parent[<<t>>[j]] = <<t>>[j - 1]
    BY <1>3
  <2>2. \A q \in Pcbs : m0.p_parent[q] = IF q \in {} \cup (Range(<<t>>) \ {t}) THEN None
                                         ELSE m0.p_parent[q]
    BY <1>3
  <2>3. /\ s.soft = soft - Cardinality({q \in {} : m0.p_semAdd[q] = PseudoClock})
        /\ s.count = count - Cardinality({})
    BY <1>1, <1>5
  <2> QED  BY <1>1, <1>2, <1>3, <1>4, <2>1, <2>2, <2>3 DEF Killing
<1>8. s \in KillStates
  BY <1>2, <1>3 DEF KillStates
<1>9. 2 * Cardinality({}) + Len(s.calls) = 0 + 1
  BY <1>1, <1>3, <1>5
<1> QED  BY <1>7, <1>8, <1>9 DEF AfterSteps

(* Every set of PCBs with t that has the children of its members has S.    *)
Least(m0, t, S) ==
  \A T \in SUBSET Pcbs :
    t \in T /\ (\A q \in Pcbs : m0.p_parent[q] \in T => q \in T) => S \subseteq T

(* The calls of killProcess return, and t has died with all of S.          *)
LEMMA KillEnd ==
  ASSUME NEW m0, NEW t, NEW S, Killable(m0, t, S), Least(m0, t, S),
         NEW soft \in Int, NEW count \in Int, NEW n, n = 2 * MaxProc,
         NEW s \in AfterSteps(m0, soft, count, t, S, n)
  PROVE  Killing(m0, soft, count, t, S, S, s)
<1>1. PICK K \in SUBSET Pcbs :
        /\ Killing(m0, soft, count, t, S, K, s)
        /\ s.calls # <<>> => 2 * Cardinality(K) + Len(s.calls) = n + 1
  BY DEF AfterSteps
<1>2. /\ s.calls \in Seq(Pcbs) /\ IsInjective(s.calls) /\ Range(s.calls) \cap K = {}
      /\ Cardinality(K) \in Nat /\ IsFiniteSet(K)
  BY <1>1, DeadFinite DEF Killing
<1>3. s.calls = <<>>
  <2> SUFFICES ASSUME s.calls # <<>>  PROVE FALSE
    OBVIOUS
  <2>1. PICK R : R = Range(s.calls)
    OBVIOUS
  <2>2. /\ R \subseteq Pcbs /\ IsFiniteSet(R) /\ Cardinality(R) \in Nat
        /\ Cardinality(R) = Len(s.calls)
    BY <1>2, <2>1, RangeOfSeq, DeadFinite, QueueLength
  <2>3. R # {} /\ Cardinality(R) # 0
    BY <1>2, <2>1, <2>2, EmptyQueueLemma, FS_EmptySet
  <2>4. R \cap K = {} /\ K \cup R \subseteq Pcbs
    BY <1>2, <2>1, <2>2
  <2>5. Cardinality(K \cup R) = Cardinality(K) + Cardinality(R)
    <3>1. K \cap R = {}
      BY <2>4
    <3>2. Cardinality(K \cup R) = Cardinality(K) + Cardinality(R) - Cardinality(K \cap R)
      BY <1>2, <2>2, FS_Union
    <3>3. Cardinality(K \cap R) = 0
      BY <3>1, FS_EmptySet
    <3> QED  BY <1>2, <2>2, <3>2, <3>3
  <2>6. Cardinality(K \cup R) <= MaxProc /\ MaxProc \in Nat
    BY <2>4, DeadFinite, TableAssumption
  <2>8. \A a, b, c \in Nat : a + b <= c /\ b # 0 => 2 * a + b # 2 * c + 1
    OBVIOUS
  <2> QED  BY <1>1, <1>2, <2>2, <2>3, <2>5, <2>6, <2>8
<1>4. t \in K /\ K \subseteq S /\ \A q \in Pcbs : m0.p_parent[q] \in K => q \in K
  BY <1>1, <1>3 DEF Killing
<1>5. K = S
  BY <1>4 DEF Least
<1> QED  BY <1>1, <1>5

(* killProcess: t and all its descendants leave the tree and their queues, *)
(* and are free.                                                           *)
LEMMA KillAll ==
  ASSUME NEW m0, NEW t, NEW S, Killable(m0, t, S), Least(m0, t, S),
         NEW soft \in Int, NEW count \in Int, NEW s, s = killProcess(m0, soft, count, t)
  PROVE  Killing(m0, soft, count, t, S, S, s)
<1> DEFINE a == [mem |-> m0, soft |-> soft, count |-> count, calls |-> <<t>>]
           Goes(f) == f = [n \in Nat |-> IF n = 0 THEN a ELSE KillStep(f[n - 1])]
<1>1. PICK P : P = [n \in Nat |-> AfterSteps(m0, soft, count, t, S, n)]
  OBVIOUS
<1>2. PICK F : F = [n \in Nat |-> [v \in KillStates |-> KillStep(v)]]
  OBVIOUS
<1>3. \A n \in Nat : P[n] \subseteq KillStates
  BY <1>1 DEF AfterSteps
<1>4. \A n \in Nat : \A v \in P[n] : F[n][v] = KillStep(v) /\ KillStep(v) \in P[n + 1]
  <2> TAKE n \in Nat
  <2> TAKE v \in P[n]
  <2>1. v \in AfterSteps(m0, soft, count, t, S, n) /\ v \in KillStates
    BY <1>1, <1>3
  <2>2. KillStep(v) \in AfterSteps(m0, soft, count, t, S, n + 1)
    BY <2>1, KillStepLemma
  <2>3. n + 1 \in Nat /\ F[n][v] = KillStep(v)
    BY <1>2, <2>1
  <2> QED  BY <1>1, <2>2, <2>3
<1>5. a \in P[0]
  BY <1>1, KillStart
<1> HIDE DEF a
<1>6. PICK g : /\ g = [n \in Nat |-> g[n]] /\ g[0] = a
               /\ \A n \in Nat : g[n] \in P[n] /\ g[n + 1] = F[n][g[n]]
  BY <1>4, <1>5, LoopExists
<1>7. Goes(g)
  <2>1. ASSUME NEW n \in Nat
        PROVE  g[n] = IF n = 0 THEN a ELSE KillStep(g[n - 1])
    <3>1. CASE n = 0
      BY <1>6, <3>1
    <3>2. CASE n # 0
      <4>1. n - 1 \in Nat /\ (n - 1) + 1 = n
        BY <3>2
      <4> QED  BY <1>4, <1>6, <3>2, <4>1
    <3> QED  BY <3>1, <3>2
  <2> QED  BY <1>6, <2>1
<1>8. PICK f : Goes(f) /\ s = f[2 * MaxProc]
  <2>1. s = (CHOOSE f : Goes(f))[2 * MaxProc]
    BY DEF killProcess, a
  <2> HIDE DEF Goes
  <2> QED  BY <1>7, <2>1
<1>9. \A n \in Nat : f[n] \in P[n]
  <2>1. f[0] = a /\ \A n \in Nat : n # 0 => f[n] = KillStep(f[n - 1])
    BY <1>8
  <2>2. \A n \in Nat : n + 1 \in Nat /\ n + 1 # 0 /\ (n + 1) - 1 = n
    OBVIOUS
  <2>3. \A n \in Nat : f[n + 1] = KillStep(f[n])
    BY <2>1, <2>2
  <2>4. \A n \in Nat : f[n] \in P[n] => f[n + 1] = F[n][f[n]]
    BY <1>4, <2>3
  <2> HIDE DEF Goes
  <2> QED  BY <1>4, <1>5, <2>1, <2>4, LoopStates
<1>10. PICK n \in Nat : n = 2 * MaxProc
  BY TableAssumption
<1>11. s \in AfterSteps(m0, soft, count, t, S, n)
  BY <1>1, <1>8, <1>9, <1>10
<1> QED  BY <1>10, <1>11, KillEnd

(* The sequence w in two parts.                                            *)
Parts(w, d, e) ==
  /\ d \in Seq(Pcbs) /\ e \in Seq(Pcbs) /\ Len(w) = Len(d) + Len(e)
  /\ \A i \in 1..Len(d) : d[i] = w[i]
  /\ \A i \in 1..Len(e) : e[i] = w[Len(d) + i]

(* The first of the second part moves to the end of the first.             *)
LEMMA PartsMove ==
  ASSUME NEW w \in Seq(Pcbs), IsInjective(w), NEW d, NEW e, Parts(w, d, e), e # <<>>,
         NEW p, p = Head(e)
  PROVE  /\ Parts(w, Append(d, p), Tail(e)) /\ Len(Append(d, p)) = Len(d) + 1
         /\ p \in Range(w) /\ p \notin Range(d) /\ Range(d) \subseteq Range(w)
         /\ IsInjective(d) /\ IsInjective(e) /\ Len(d) \in Nat
<1>1. /\ Len(w) \in Nat /\ DOMAIN w = 1..Len(w) /\ Len(d) \in Nat /\ DOMAIN d = 1..Len(d)
      /\ Len(e) \in Nat /\ DOMAIN e = 1..Len(e) /\ Len(e) # 0
      /\ d \in Seq(Pcbs) /\ e \in Seq(Pcbs) /\ Len(w) = Len(d) + Len(e)
  BY LenProperties, EmptySeq DEF Parts
<1>2. p = e[1] /\ p \in Pcbs /\ p = w[Len(d) + 1]
  <2>1. p = e[1] /\ 1 \in 1..Len(e)
    BY <1>1, HeadTailProperties
  <2> QED  BY <1>1, <2>1, ElementOfSeq DEF Parts
<1>3. PICK a, b : a = Append(d, p) /\ b = Tail(e)
  OBVIOUS
<1>4. /\ a \in Seq(Pcbs) /\ Len(a) = Len(d) + 1 /\ a[Len(d) + 1] = p
      /\ \A i \in 1..Len(d) : a[i] = d[i]
  BY <1>1, <1>2, <1>3, AppendProperties
<1>5. b \in Seq(Pcbs) /\ Len(b) = Len(e) - 1 /\ \A i \in 1..Len(b) : b[i] = e[i + 1]
  BY <1>1, <1>3, HeadTailProperties
<1>6. Parts(w, a, b)
  <2>1. Len(w) = Len(a) + Len(b)
    BY <1>1, <1>4, <1>5
  <2>2. \A i \in 1..Len(a) : a[i] = w[i]
    <3> TAKE i \in 1..Len(a)
    <3>1. i = Len(d) + 1 \/ i \in 1..Len(d)
      BY <1>1, <1>4
    <3> QED  BY <1>2, <1>4, <3>1 DEF Parts
  <2>3. \A i \in 1..Len(b) : b[i] = w[Len(a) + i]
    <3> TAKE i \in 1..Len(b)
    <3>1. i + 1 \in 1..Len(e) /\ Len(d) + (i + 1) = Len(a) + i
      BY <1>1, <1>4, <1>5
    <3>2. b[i] = e[i + 1]
      BY <1>5
    <3>3. e[i + 1] = w[Len(d) + (i + 1)]
      BY <3>1 DEF Parts
    <3> QED  BY <3>1, <3>2, <3>3
  <2> QED  BY <1>4, <1>5, <2>1, <2>2, <2>3 DEF Parts
<1>7. Len(d) + 1 \in 1..Len(w) /\ \A i \in 1..Len(d) : i \in 1..Len(w) /\ i # Len(d) + 1
  BY <1>1
<1>8. p \in Range(w) /\ p \notin Range(d) /\ Range(d) \subseteq Range(w)
  <2>1. \A i \in 1..Len(d) : d[i] = w[i] /\ w[i] # p
    BY <1>1, <1>2, <1>7 DEF IsInjective, Parts
  <2> QED  BY <1>1, <1>2, <1>7, <2>1 DEF Range
<1>9. IsInjective(d)
  <2> SUFFICES ASSUME NEW i \in 1..Len(d), NEW j \in 1..Len(d), d[i] = d[j]  PROVE i = j
    BY <1>1 DEF IsInjective
  <2>1. w[i] = w[j]
    BY DEF Parts
  <2> QED  BY <1>1, <1>7, <2>1 DEF IsInjective
<1>10. IsInjective(e)
  <2> SUFFICES ASSUME NEW i \in 1..Len(e), NEW j \in 1..Len(e), e[i] = e[j]  PROVE i = j
    BY <1>1 DEF IsInjective
  <2>1. w[Len(d) + i] = w[Len(d) + j]
    BY DEF Parts
  <2>2. Len(d) + i \in 1..Len(w) /\ Len(d) + j \in 1..Len(w)
    BY <1>1
  <2>3. Len(d) + i = Len(d) + j
    BY <1>1, <2>1, <2>2 DEF IsInjective
  <2> QED  BY <1>1, <2>3
<1> QED  BY <1>1, <1>3, <1>4, <1>6, <1>8, <1>9, <1>10

(* Rounds of the loop of handleIntervalClock, on v, which m was before it: *)
(* d have been woken, and e have not.                                      *)
Waking(m, v, d, e) ==
  /\ Good(v) /\ FreeOf(v) = FreeOf(m) /\ SameTree(m, v)
  /\ Parts(WaitersOf(m)[PseudoClock], d, e)
  /\ ReadyOf(v) \in Wakeups(ReadyOf(m), m.p_prio, d)
  /\ WaitersBecome(m, v, PseudoClock, e) /\ ActiveBecomes(m, v, PseudoClock, e)
  /\ \A q \in Pcbs : v.p_semAdd[q] = IF q \in Range(d) THEN None ELSE m.p_semAdd[q]

(* A round.                                                                *)
LEMMA WakeOne ==
  ASSUME NEW m, Good(m), OneQueue(m), NEW v, NEW d, NEW e, Waking(m, v, d, e), e # <<>>,
         NEW n, n = WakeStep(v)
  PROVE  Waking(m, n, Append(d, Head(e)), Tail(e)) /\ Len(Append(d, Head(e))) = Len(d) + 1
<1>1. PICK w, q, p, prio : /\ w = WaitersOf(m)[PseudoClock] /\ q = ReadyOf(m)
                           /\ p = Head(e) /\ prio = m.p_prio
  OBVIOUS
<1>2. PseudoClock \in Keys /\ None \notin Pcbs
  BY AddressesAssumption DEF Keys
<1>3. /\ w \in Seq(Pcbs) /\ IsInjective(w) /\ q \in Seq(Pcbs) /\ IsInjective(q)
      /\ m.p_semAdd \in [Pcbs -> Keys \cup {None}] /\ IsFiniteSet(Pcbs)
  BY <1>1, <1>2, ViewFacts, DeadFinite
<1>4. Parts(w, d, e) /\ Good(v) /\ WaitersOf(v)[PseudoClock] = e
  BY <1>1, <1>2 DEF Waking, WaitersBecome
<1>5. /\ Parts(w, Append(d, p), Tail(e)) /\ Len(Append(d, p)) = Len(d) + 1
      /\ p \in Range(w) /\ p \notin Range(d) /\ Range(d) \subseteq Range(w)
      /\ IsInjective(d) /\ IsInjective(e)
  BY <1>1, <1>3, <1>4, PartsMove
<1>6. /\ d \in Seq(Pcbs) /\ e \in Seq(Pcbs)
  BY <1>4 DEF Parts
<1>7. PICK m1 : m1 = removeBlocked(v, PseudoClock)
  OBVIOUS
<1>8. /\ headBlocked(v, PseudoClock) = p /\ p \in Pcbs /\ p # None
      /\ Good(m1) /\ FreeOf(m1) = FreeOf(v) /\ ReadyOf(m1) = ReadyOf(v)
      /\ SameTree(v, m1) /\ Becomes(m1.p_semAdd, v.p_semAdd, p, None)
      /\ WaitersBecome(v, m1, PseudoClock, Without(e, {p}))
      /\ ActiveBecomes(v, m1, PseudoClock, Without(e, {p}))
  <2>1. PICK h : h = headBlocked(v, PseudoClock)
    OBVIOUS
  <2>2. /\ h = Head(e) /\ h \in Pcbs /\ h # None
        /\ Good(m1) /\ FreeOf(m1) = FreeOf(v) /\ ReadyOf(m1) = ReadyOf(v)
        /\ SameTree(v, m1) /\ Becomes(m1.p_semAdd, v.p_semAdd, h, None)
        /\ WaitersBecome(v, m1, PseudoClock, Without(e, {h}))
        /\ ActiveBecomes(v, m1, PseudoClock, Without(e, {h}))
    BY <1>2, <1>4, <1>7, <2>1, RemoveHead
  <2> QED  BY <1>1, <2>1, <2>2
<1>9. Without(e, {p}) = Tail(e)
  BY <1>1, <1>5, <1>6, WithoutHead
<1>10. /\ p \notin FreeOf(m) /\ p \notin Range(q)
       /\ \A k \in Keys \ {PseudoClock} : p \notin Range(WaitersOf(m)[k])
       /\ Range(q) \cap Range(d) = {}
  <2>1. \A x \in Range(w) : x \in Pcbs /\ m.p_semAdd[x] = PseudoClock
    BY <1>1, <1>2, <1>3, RangeOfSeq DEF OneQueue
  <2>2. PseudoClock # None
    BY <1>2, AddressesAssumption
  <2>3. \A x \in Range(w) : x \notin FreeOf(m) /\ x \notin Range(q)
    BY <1>1, <2>1, <2>2 DEF OneQueue
  <2>4. \A k \in Keys \ {PseudoClock} : p \notin Range(WaitersOf(m)[k])
    BY <1>5, <2>1 DEF OneQueue
  <2> QED  BY <1>5, <2>3, <2>4
<1>11. ReadyOf(v) \in Wakeups(q, prio, d)
  BY <1>1 DEF Waking
<1>12. ReadyOf(v) \in Seq(Pcbs) /\ Range(ReadyOf(v)) = Range(q) \cup Range(d)
  BY <1>3, <1>6, <1>11, WakeupsLemma
<1>13. Unqueued(m1, p)
  <2>1. p \notin FreeOf(m1) /\ p \notin Range(ReadyOf(m1))
    BY <1>5, <1>8, <1>10, <1>12 DEF Waking
  <2>2. \A k \in Keys : p \notin Range(WaitersOf(m1)[k])
    <3> TAKE k \in Keys
    <3>1. CASE k = PseudoClock
      <4>1. WaitersOf(m1)[k] = Without(e, {p})
        BY <1>8, <3>1 DEF WaitersBecome
      <4>2. Range(Without(e, {p})) = Range(e) \ {p}
        BY <1>6, WithoutLemma
      <4> QED  BY <4>1, <4>2
    <3>2. CASE k # PseudoClock
      <4>1. WaitersOf(m1)[k] = WaitersOf(v)[k]
        BY <1>8, <3>2 DEF WaitersBecome
      <4>2. WaitersOf(v)[k] = WaitersOf(m)[k]
        BY <3>2 DEF Waking, WaitersBecome
      <4> QED  BY <1>10, <3>2, <4>1, <4>2
    <3> QED  BY <3>1, <3>2
  <2> QED  BY <2>1, <2>2 DEF Unqueued
<1>14. n = insertProcQ(m1, readyQueue, p)
  BY <1>7, <1>8 DEF WakeStep
<1>15. /\ Good(n) /\ ReadyOf(n) = InsertProcQ(ReadyOf(m1), m1.p_prio, p)
       /\ FreeOf(n) = FreeOf(m1) /\ SameAsl(m1, n) /\ SameTree(m1, n)
  BY <1>8, <1>13, <1>14, ReadyInsert
<1>16. FreeOf(n) = FreeOf(m) /\ SameTree(m, n) /\ m1.p_prio = prio
  BY <1>1, <1>8, <1>15 DEF Waking, SameTree
<1>17. ReadyOf(n) \in Wakeups(q, prio, Append(d, p))
  <2>1. \A x \in Pcbs : prio[x] \in Int
    BY <1>1, PrioFacts, GoodHeads
  <2>2. p \in Pcbs \ (Range(q) \cup Range(d))
    BY <1>5, <1>8, <1>10
  <2>3. ReadyOf(n) = InsertProcQ(ReadyOf(v), prio, p)
    BY <1>8, <1>15, <1>16
  <2> QED  BY <1>3, <1>5, <1>6, <1>10, <1>11, <2>1, <2>2, <2>3, WakeupsStep
<1>18. WaitersBecome(m, n, PseudoClock, Tail(e))
  BY <1>8, <1>9, <1>15 DEF Waking, WaitersBecome, SameAsl
<1>19. ActiveBecomes(m, n, PseudoClock, Tail(e))
  BY <1>8, <1>9, <1>15 DEF Waking, ActiveBecomes, SameAsl
<1>20. \A x \in Pcbs : n.p_semAdd[x] = IF x \in Range(Append(d, p)) THEN None
                                       ELSE m.p_semAdd[x]
  <2>1. Range(Append(d, p)) = Range(d) \cup {p}
    BY <1>6, <1>8, EnqueueLemma
  <2>2. n.p_semAdd = [v.p_semAdd EXCEPT ![p] = None]
    BY <1>8, <1>15 DEF Becomes, SameAsl
  <2>3. v.p_semAdd \in [Pcbs -> Keys \cup {None}]
    BY <1>4, ViewFacts
  <2>4. \A x \in Pcbs : v.p_semAdd[x] = IF x \in Range(d) THEN None ELSE m.p_semAdd[x]
    BY DEF Waking
  <2> QED  BY <2>1, <2>2, <2>3, <2>4
<1> QED
  BY <1>1, <1>5, <1>15, <1>16, <1>17, <1>18, <1>19, <1>20 DEF Waking

(* The memories after n rounds.                                            *)
AfterRounds(m, n) ==
  {v \in Memories : \E d, e \in Seq(Pcbs) : Waking(m, v, d, e) /\ (e # <<>> => Len(d) = n)}

(* Before the first round.                                                 *)
LEMMA WakeStart ==
  ASSUME NEW m, Good(m)
  PROVE  m \in AfterRounds(m, 0)
<1>1. PICK w, q, prio : w = WaitersOf(m)[PseudoClock] /\ q = ReadyOf(m) /\ prio = m.p_prio
  OBVIOUS
<1>2. PseudoClock \in Keys
  BY DEF Keys
<1>3. /\ w \in Seq(Pcbs) /\ q \in Seq(Pcbs) /\ IsInjective(q) /\ IsFiniteSet(Pcbs)
      /\ Len(w) \in Nat /\ m \in Memories
  BY <1>1, <1>2, ViewFacts, DeadFinite, LenProperties, GoodHeads
<1>4. PICK d : d = <<>> /\ d \in Seq(Pcbs) /\ Len(d) = 0 /\ Range(d) = {}
  <2>1. <<>> \in Seq(Pcbs) /\ Len(<<>>) = 0
    BY EmptySeq
  <2>2. Range(<<>>) = {}
    BY <2>1, EmptyQueueLemma
  <2> QED  BY <2>1, <2>2
<1>5. Parts(w, d, w)
  <2>1. Len(w) = 0 + Len(w) /\ \A i \in 1..Len(w) : 0 + i = i
    BY <1>3
  <2>2. \A i \in 1..0 : FALSE
    OBVIOUS
  <2> QED  BY <1>3, <1>4, <2>1, <2>2 DEF Parts
<1>6. q \in Wakeups(q, prio, d)
  BY <1>3, <1>4, WakeupsOfNone
<1>7. WaitersBecome(m, m, PseudoClock, w)
  BY <1>1 DEF WaitersBecome
<1>8. ActiveBecomes(m, m, PseudoClock, w)
  <2>1. w = <<>> => PseudoClock \notin Range(ActiveOf(m))
    BY <1>1, <1>2, ViewFacts
  <2>2. w = <<>> => Without(ActiveOf(m), {PseudoClock}) = ActiveOf(m)
    BY <2>1, ViewFacts, WithoutNone
  <2> QED  BY <2>2 DEF ActiveBecomes
<1>9. Waking(m, m, d, w)
  BY <1>1, <1>4, <1>5, <1>6, <1>7, <1>8 DEF Waking, SameTree
<1> QED  BY <1>3, <1>4, <1>9 DEF AfterRounds

(* A round, when there is a waiter left and when there is none.            *)
LEMMA WakeRound ==
  ASSUME NEW m, Good(m), OneQueue(m), NEW n \in Nat, NEW v \in AfterRounds(m, n)
  PROVE  WakeStep(v) \in AfterRounds(m, n + 1)
<1>1. v \in Memories
  BY DEF AfterRounds
<1>2. PICK d \in Seq(Pcbs), e \in Seq(Pcbs) : Waking(m, v, d, e) /\ (e # <<>> => Len(d) = n)
  BY DEF AfterRounds
<1>3. PICK r : r = WakeStep(v)
  OBVIOUS
<1>4. CASE e = <<>>
  <2>1. Good(v) /\ WaitersOf(v)[PseudoClock] = e /\ PseudoClock \in Keys
    BY <1>2 DEF Waking, WaitersBecome, Keys
  <2>2. headBlocked(v, PseudoClock) = None /\ removeBlocked(v, PseudoClock) = v
    <3>1. PICK k, y, h : /\ k = PseudoClock /\ y = removeBlocked(v, k)
                         /\ h = headBlocked(v, k) /\ k \in Keys
      BY <2>1
    <3>2. WaitersOf(v)[k] = <<>> => h = None /\ y = v
      BY <2>1, <3>1, RemoveHead
    <3> QED  BY <1>4, <2>1, <3>1, <3>2
  <2>3. r = v
    BY <1>3, <2>2 DEF WakeStep
  <2> QED  BY <1>1, <1>2, <1>3, <1>4, <2>3 DEF AfterRounds
<1>5. CASE e # <<>>
  <2>1. PICK a, b : a = Append(d, Head(e)) /\ b = Tail(e)
    OBVIOUS
  <2>2. Waking(m, r, a, b) /\ Len(a) = Len(d) + 1
    BY <1>2, <1>3, <1>5, <2>1, WakeOne
  <2>3. a \in Seq(Pcbs) /\ b \in Seq(Pcbs) /\ r \in Memories
    BY <2>2, GoodHeads DEF Waking, Parts
  <2>4. Len(a) = n + 1
    BY <1>2, <1>5, <2>2
  <2> QED  BY <1>3, <2>2, <2>3, <2>4 DEF AfterRounds
<1> QED  BY <1>4, <1>5

(* After the last round nobody waits for the clock.                        *)
LEMMA WakeEnd ==
  ASSUME NEW m, Good(m), NEW v \in AfterRounds(m, MaxProc)
  PROVE  Waking(m, v, WaitersOf(m)[PseudoClock], <<>>)
<1>1. PICK d \in Seq(Pcbs), e \in Seq(Pcbs) :
        Waking(m, v, d, e) /\ (e # <<>> => Len(d) = MaxProc)
  BY DEF AfterRounds
<1>2. PICK w : w = WaitersOf(m)[PseudoClock]
  OBVIOUS
<1>3. w \in Seq(Pcbs) /\ IsInjective(w) /\ Len(w) \in Nat /\ Len(w) <= MaxProc
  <2>1. w \in Seq(Pcbs) /\ IsInjective(w)
    BY <1>2, ViewFacts DEF Keys
  <2> QED  BY <2>1, QueueFits
<1>4. Parts(w, d, e) /\ Len(d) \in Nat /\ Len(e) \in Nat /\ Len(w) = Len(d) + Len(e)
  BY <1>1, <1>2, LenProperties DEF Waking, Parts
<1>5. e = <<>>
  <2> SUFFICES ASSUME e # <<>>  PROVE FALSE
    OBVIOUS
  <2>1. Len(e) # 0 /\ Len(d) = MaxProc
    BY <1>1, EmptySeq
  <2> QED  BY <1>3, <1>4, <2>1, TableAssumption
<1>6. d = w
  <2>1. Len(e) = 0
    BY <1>5, EmptySeq
  <2>2. Len(d) = Len(w)
    BY <1>4, <2>1
  <2>3. \A i \in 1..Len(d) : d[i] = w[i]
    BY <1>4 DEF Parts
  <2> QED  BY <1>3, <2>2, <2>3, SeqEqual
<1> QED  BY <1>1, <1>2, <1>5, <1>6

(* The loop of handleIntervalClock: all who wait for the clock become      *)
(* ready, in the order of their priorities and their arrival.              *)
LEMMA WakeAllLemma ==
  ASSUME NEW m, Good(m), OneQueue(m), NEW r, r = WakeAll(m)
  PROVE  Waking(m, r, WaitersOf(m)[PseudoClock], <<>>)
<1> DEFINE Goes(f) == f = [n \in Nat |-> IF n = 0 THEN m ELSE WakeStep(f[n - 1])]
<1>1. PICK P : P = [n \in Nat |-> AfterRounds(m, n)]
  OBVIOUS
<1>2. PICK F : F = [n \in Nat |-> [v \in Memories |-> WakeStep(v)]]
  OBVIOUS
<1>3. \A n \in Nat : P[n] \subseteq Memories
  BY <1>1 DEF AfterRounds
<1>4. \A n \in Nat : \A v \in P[n] : F[n][v] = WakeStep(v) /\ WakeStep(v) \in P[n + 1]
  <2> TAKE n \in Nat
  <2> TAKE v \in P[n]
  <2>1. v \in AfterRounds(m, n) /\ v \in Memories
    BY <1>1, <1>3
  <2>2. WakeStep(v) \in AfterRounds(m, n + 1)
    BY <2>1, WakeRound
  <2>3. n + 1 \in Nat /\ F[n][v] = WakeStep(v)
    BY <1>2, <2>1
  <2> QED  BY <1>1, <2>2, <2>3
<1>5. m \in P[0]
  BY <1>1, WakeStart
<1>6. PICK g : /\ g = [n \in Nat |-> g[n]] /\ g[0] = m
               /\ \A n \in Nat : g[n] \in P[n] /\ g[n + 1] = F[n][g[n]]
  <2>1. \A n \in Nat : \A v \in P[n] : F[n][v] \in P[n + 1]
    BY <1>4
  <2>2. PICK a : a = m /\ a \in P[0]
    BY <1>5
  <2>3. \E g : /\ g = [n \in Nat |-> g[n]] /\ g[0] = a
               /\ \A n \in Nat : g[n] \in P[n] /\ g[n + 1] = F[n][g[n]]
    BY <2>1, <2>2, LoopExists
  <2> QED  BY <2>2, <2>3
<1>7. Goes(g)
  <2>1. ASSUME NEW n \in Nat
        PROVE  g[n] = IF n = 0 THEN m ELSE WakeStep(g[n - 1])
    <3>1. CASE n = 0
      BY <1>6, <3>1
    <3>2. CASE n # 0
      <4>1. n - 1 \in Nat /\ (n - 1) + 1 = n
        BY <3>2
      <4> QED  BY <1>4, <1>6, <3>2, <4>1
    <3> QED  BY <3>1, <3>2
  <2> QED  BY <1>6, <2>1
<1>8. PICK f : Goes(f) /\ r = f[MaxProc]
  <2>1. r = (CHOOSE f : Goes(f))[MaxProc]
    BY DEF WakeAll
  <2> HIDE DEF Goes
  <2> QED  BY <1>7, <2>1
<1>9. \A n \in Nat : f[n] \in P[n]
  <2>1. f[0] = m /\ \A n \in Nat : n # 0 => f[n] = WakeStep(f[n - 1])
    BY <1>8
  <2>2. \A n \in Nat : n + 1 \in Nat /\ n + 1 # 0 /\ (n + 1) - 1 = n
    OBVIOUS
  <2>3. \A n \in Nat : f[n + 1] = WakeStep(f[n])
    BY <2>1, <2>2
  <2>4. \A n \in Nat : f[n] \in P[n] => f[n + 1] = F[n][f[n]]
    BY <1>4, <2>3
  <2> HIDE DEF Goes
  <2> QED  BY <1>4, <1>5, <2>1, <2>4, LoopStates
<1>10. r \in AfterRounds(m, MaxProc)
  BY <1>1, <1>8, <1>9, TableAssumption
<1> QED  BY <1>10, WakeEnd

(* A memory in which the lists of H are the only ones, and no field is set. *)
Begun(v, H) ==
  /\ Linked(v) /\ InUse(v) = H /\ v.p_parent = [p \in Pcbs |-> None]
  /\ v.p_semAdd = [p \in Pcbs |-> None] /\ v.p_prio = [p \in Pcbs |-> 0]
  /\ v.s_key = [d \in Semds |-> None]

(* The memory before main() writes to it.                                  *)
LEMMA UnsetLemma == Begun(Unset, {})
<1>1. Unset \in Memories
  BY PrioritiesAssumption DEF Unset, Memories
<1>2. \A l \in Links : Unset.next[l] = None /\ Unset.prev[l] = None
  BY DEF Unset
<1>3. InUse(Unset) = {}
  BY <1>2, Addresses DEF InUse
<1>4. Paired(Unset)
  <2>1. DOMAIN Unset.next = Links
    BY <1>1, MemoryFacts
  <2> QED  BY <1>2, <2>1 DEF Paired
<1>5. \A kind \in Kinds, p \in Pcbs : Loose(Unset, <<kind, p>>)
  BY <1>2, Addresses DEF Loose
<1>6. \A h \in Sentinels : Unset.prev[h] = None
  BY <1>2, Addresses
<1>7. Linked(Unset)
  BY <1>1, <1>3, <1>4, <1>5, <1>6 DEF Linked
<1>8. /\ Unset.p_parent = [p \in Pcbs |-> None] /\ Unset.p_semAdd = [p \in Pcbs |-> None]
      /\ Unset.p_prio = [p \in Pcbs |-> 0] /\ Unset.s_key = [d \in Semds |-> None]
  BY DEF Unset
<1> QED  BY <1>3, <1>7, <1>8 DEF Begun

(* INIT_LIST_HEAD adds a list without items.                               *)
LEMMA BeginHead ==
  ASSUME NEW v, NEW H, Begun(v, H), NEW h \in Sentinels \ H,
         NEW n, n = INIT_LIST_HEAD(v, h)
  PROVE  /\ Begun(n, H \cup {h}) /\ ItemsOf(n, h) = <<>>
         /\ \A g \in H : ItemsOf(n, g) = ItemsOf(v, g)
<1>1. Linked(v) /\ InUse(v) = H /\ h \notin InUse(v)
  BY DEF Begun
<1>2. /\ Linked(n) /\ InUse(n) = InUse(v) \cup {h} /\ ItemsOf(n, h) = <<>>
      /\ \A g \in InUse(v) : ItemsOf(n, g) = ItemsOf(v, g)
      /\ SameData(v, n)
  BY <1>1, InitHead
<1> QED  BY <1>1, <1>2 DEF Begun, SameData

(* list_add to a list of the first c items.                                *)
LEMMA BeginItem ==
  ASSUME NEW v, NEW H, Begun(v, H), NEW h \in H, NEW c \in Pcbs,
         Range(ItemsOf(v, h)) = 1..(c - 1),
         \A g \in H : Kind(g) = Kind(h) => g = h \/ ItemsOf(v, g) = <<>>,
         NEW n, n = list_add(v, <<Kind(h), c>>, h)
  PROVE  /\ Begun(n, H) /\ Range(ItemsOf(n, h)) = 1..c
         /\ \A g \in H \ {h} : ItemsOf(n, g) = ItemsOf(v, g)
<1>1. Linked(v) /\ InUse(v) = H /\ h \in InUse(v)
  BY DEF Begun
<1>2. PICK q : q = ItemsOf(v, h)
  OBVIOUS
<1>3. q \in Seq(Pcbs) /\ IsInjective(q) /\ c \notin Range(q)
  <2>1. c \notin 1..(c - 1)
    BY DEF Pcbs
  <2> QED  BY <1>1, <1>2, <2>1, ListFacts
<1>4. ~ On(v, Kind(h), c)
  <2>1. \A g \in H : ItemsOf(v, g) = <<>> => Range(ItemsOf(v, g)) = {}
    BY EmptySeq, EmptyQueueLemma
  <2> QED  BY <1>1, <1>2, <1>3, <2>1 DEF On
<1>5. OneListChanges(v, n, h, <<c>> \o ItemsOf(v, h))
  BY <1>1, <1>4, AddFirst
<1>6. Range(<<c>> \o q) = Range(q) \cup {c}
  BY <1>3, ConsLemma
<1>7. 1..c = (1..(c - 1)) \cup {c}
  BY DEF Pcbs
<1> QED  BY <1>1, <1>2, <1>5, <1>6, <1>7 DEF Begun, OneListChanges

(* initPcbs: all PCBs are free.                                            *)
LEMMA InitPcbs ==
  ASSUME NEW r, r = initPcbs(Unset)
  PROVE  Begun(r, {pcbFree_h}) /\ Range(ItemsOf(r, pcbFree_h)) = Pcbs
<1> DEFINE a == INIT_LIST_HEAD(Unset, pcbFree_h)
           Step(v, c) == list_add(v, p_list(c), pcbFree_h)
           Goes(f) == f = [c \in 0..MaxProc |-> IF c = 0 THEN a ELSE Step(f[c - 1], c)]
           After(n) == {v \in Memories : /\ Begun(v, {pcbFree_h})
                                         /\ Range(ItemsOf(v, pcbFree_h)) = 1..n}
<1>1. PICK P : P = [n \in Nat |-> After(IF n < MaxProc THEN n ELSE MaxProc)]
  OBVIOUS
<1>2. PICK F : F = [n \in Nat |-> [v \in Memories |-> IF n < MaxProc THEN Step(v, n + 1) ELSE v]]
  OBVIOUS
<1>3. ASSUME NEW n \in Nat, n < MaxProc, NEW v \in After(n)
      PROVE  Step(v, n + 1) \in After(n + 1)
  <2>1. n + 1 \in Pcbs /\ (n + 1) - 1 = n
    BY <1>3, TableAssumption DEF Pcbs
  <2>2. PICK c, w : c = n + 1 /\ w = Step(v, c)
    OBVIOUS
  <2>3. /\ Begun(v, {pcbFree_h}) /\ c \in Pcbs /\ Range(ItemsOf(v, pcbFree_h)) = 1..(c - 1)
        /\ w = list_add(v, <<Kind(pcbFree_h), c>>, pcbFree_h)
    BY <1>3, <2>1, <2>2, KindOf DEF p_list
  <2> HIDE DEF After, Step
  <2>4. Begun(w, {pcbFree_h}) /\ Range(ItemsOf(w, pcbFree_h)) = 1..c
    BY <2>3, BeginItem
  <2>5. w \in Memories
    BY <2>4 DEF Begun, Linked
  <2> QED  BY <2>2, <2>4, <2>5 DEF After
<1>4. a \in After(0)
  <2>1. pcbFree_h \in Sentinels \ {}
    BY Addresses
  <2>2. PICK v : v = a
    OBVIOUS
  <2>3. Begun(v, {} \cup {pcbFree_h}) /\ ItemsOf(v, pcbFree_h) = <<>>
    BY <2>1, <2>2, UnsetLemma, BeginHead
  <2>4. v \in Memories
    BY <2>3 DEF Begun, Linked
  <2>5. Range(<<>>) = {}
    BY EmptySeq, EmptyQueueLemma
  <2>9. 1..0 = {}
    OBVIOUS
  <2>6. {} \cup {pcbFree_h} = {pcbFree_h}
    OBVIOUS
  <2>7. Begun(v, {pcbFree_h})
    BY <2>3, <2>6, Zenon
  <2> HIDE DEF a
  <2>8. Range(ItemsOf(v, pcbFree_h)) = 1..0
    BY <2>3, <2>5, <2>9
  <2> QED  BY <2>2, <2>4, <2>7, <2>8
<1> HIDE DEF a, Step, After
<1>5. \A n \in Nat : \A v \in P[n] : F[n][v] \in P[n + 1]
  <2> TAKE n \in Nat
  <2> TAKE v \in P[n]
  <2>1. CASE n < MaxProc
    <3>1. P[n] = After(n) /\ P[n + 1] = After(n + 1)
      <4>1. n + 1 < MaxProc \/ n + 1 = MaxProc
        BY <2>1, TableAssumption
      <4> QED  BY <1>1, <2>1, <4>1
    <3>2. v \in Memories /\ v \in After(n)
      BY <3>1 DEF After
    <3> QED  BY <1>2, <1>3, <2>1, <3>1, <3>2
  <2>2. CASE ~ (n < MaxProc)
    <3>1. P[n] = After(MaxProc) /\ P[n + 1] = After(MaxProc)
      <4>1. ~ (n + 1 < MaxProc) /\ n + 1 \in Nat
        BY <2>2, TableAssumption
      <4> QED  BY <1>1, <2>2, <4>1
    <3>2. v \in Memories
      BY <3>1 DEF After
    <3> QED  BY <1>2, <2>2, <3>1, <3>2
  <2> QED  BY <2>1, <2>2
<1>6. \A n \in Nat : n < MaxProc => \A v \in P[n] : F[n][v] = Step(v, n + 1)
  BY <1>1, <1>2 DEF After
<1>7. a \in P[0]
  BY <1>1, <1>4, TableAssumption
<1>8. PICK g : /\ g = [n \in Nat |-> g[n]] /\ g[0] = a
               /\ \A n \in Nat : g[n] \in P[n] /\ g[n + 1] = F[n][g[n]]
  BY <1>5, <1>7, LoopExists
<1>9. Goes([c \in 0..MaxProc |-> g[c]])
  <2>1. ASSUME NEW c \in 0..MaxProc
        PROVE  g[c] = IF c = 0 THEN a ELSE Step(g[c - 1], c)
    <3>1. CASE c = 0
      BY <1>8, <3>1
    <3>2. CASE c # 0
      <4>1. c - 1 \in Nat /\ (c - 1) + 1 = c /\ c - 1 < MaxProc
        BY <3>2, TableAssumption
      <4> QED  BY <1>6, <1>8, <3>2, <4>1
    <3> QED  BY <3>1, <3>2
  <2>2. \A c \in 0..MaxProc : c # 0 => c - 1 \in 0..MaxProc
    BY TableAssumption
  <2> QED  BY <2>1, <2>2
<1>10. PICK f : Goes(f) /\ r = f[MaxProc]
  <2>1. r = (CHOOSE f : Goes(f))[MaxProc]
    BY DEF initPcbs, a, Step
  <2> HIDE DEF Goes
  <2> QED  BY <1>9, <2>1
<1>11. \A n \in Nat : [j \in Nat |-> IF j \in 0..MaxProc THEN f[j] ELSE f[MaxProc]][n] \in P[n]
  <2> DEFINE k == [j \in Nat |-> IF j \in 0..MaxProc THEN f[j] ELSE f[MaxProc]]
  <2>1. k[0] = a
    BY <1>10, TableAssumption
  <2>2. ASSUME NEW n \in Nat, k[n] \in P[n]  PROVE k[n + 1] = F[n][k[n]]
    <3>1. CASE n < MaxProc
      <4>1. n \in 0..MaxProc /\ n + 1 \in 0..MaxProc /\ n + 1 # 0 /\ (n + 1) - 1 = n
        BY <3>1, TableAssumption
      <4>2. k[n] = f[n] /\ k[n + 1] = f[n + 1]
        BY <4>1
      <4>3. f[n + 1] = Step(f[n], n + 1)
        BY <1>10, <4>1
      <4> HIDE DEF k
      <4> QED  BY <1>6, <2>2, <3>1, <4>2, <4>3
    <3>2. CASE ~ (n < MaxProc)
      <4>1. k[n] = f[MaxProc] /\ k[n + 1] = f[MaxProc]
        <5>1. n = MaxProc \/ n \notin 0..MaxProc
          BY <3>2, TableAssumption
        <5>2. n + 1 \notin 0..MaxProc /\ n + 1 \in Nat
          BY <3>2, TableAssumption
        <5> QED  BY <5>1, <5>2
      <4> HIDE DEF k
      <4>2. k[n] \in Memories
        <5>1. P[n] = After(MaxProc)
          BY <1>1, <3>2
        <5> QED  BY <2>2, <5>1 DEF After
      <4> QED  BY <1>2, <3>2, <4>1, <4>2
    <3> QED  BY <3>1, <3>2
  <2> HIDE DEF k, Goes
  <2>3. \A n \in Nat : k[n] \in P[n]
    BY <1>5, <1>7, <2>1, <2>2, LoopStates
  <2> QED  BY <2>3 DEF k
<1>12. r \in After(MaxProc)
  <2>1. MaxProc \in Nat /\ MaxProc \in 0..MaxProc /\ P[MaxProc] = After(MaxProc)
    BY <1>1, TableAssumption
  <2> QED  BY <1>10, <1>11, <2>1
<1> QED  BY <1>12 DEF After, Pcbs

(* The lists that initASL has begun after c descriptors.                   *)
Heads0(c) == {pcbFree_h, semdFree_h, semd_h} \cup {procq(d) : d \in 1..c}

(* The memory m, after c of initASL's rounds.                              *)
AslBegun(m, v, c) ==
  /\ v \in Memories /\ Begun(v, Heads0(c))
  /\ ItemsOf(v, pcbFree_h) = ItemsOf(m, pcbFree_h) /\ ItemsOf(v, semd_h) = <<>>
  /\ Range(ItemsOf(v, semdFree_h)) = 1..c
  /\ \A d \in 1..c : ItemsOf(v, procq(d)) = <<>>

(* Before the first round.                                                 *)
LEMMA AslStart ==
  ASSUME NEW m, Begun(m, {pcbFree_h}),
         NEW v, v = INIT_LIST_HEAD(INIT_LIST_HEAD(m, semdFree_h), semd_h)
  PROVE  AslBegun(m, v, 0)
<1>1. PICK u : u = INIT_LIST_HEAD(m, semdFree_h)
  OBVIOUS
<1>2. v = INIT_LIST_HEAD(u, semd_h)
  BY <1>1
<1>3. /\ semdFree_h \in Sentinels \ {pcbFree_h}
      /\ semd_h \in Sentinels \ ({pcbFree_h} \cup {semdFree_h})
  BY Addresses DEF pcbFree_h, semdFree_h, semd_h
<1>13. PICK K : K = {pcbFree_h}
  OBVIOUS
<1>14. Begun(m, K) /\ semdFree_h \in Sentinels \ K
  BY <1>3, <1>13
<1>4. /\ Begun(u, K \cup {semdFree_h}) /\ ItemsOf(u, semdFree_h) = <<>>
      /\ \A g \in K : ItemsOf(u, g) = ItemsOf(m, g)
  BY <1>1, <1>14, BeginHead
<1>5. PICK G : G = K \cup {semdFree_h}
  OBVIOUS
<1>6. /\ Begun(v, G \cup {semd_h}) /\ ItemsOf(v, semd_h) = <<>>
      /\ \A g \in G : ItemsOf(v, g) = ItemsOf(u, g)
  BY <1>2, <1>3, <1>4, <1>5, <1>13, BeginHead
<1>7. G \cup {semd_h} = Heads0(0)
  <2>1. 1..0 = {}
    OBVIOUS
  <2> QED  BY <1>5, <1>13, <2>1 DEF Heads0
<1>8. Range(<<>>) = {}
  BY EmptySeq, EmptyQueueLemma
<1>9. 1..0 = {}
  OBVIOUS
<1>10. v \in Memories
  BY <1>6 DEF Begun, Linked
<1>11. ItemsOf(v, semdFree_h) = <<>> /\ ItemsOf(v, pcbFree_h) = ItemsOf(m, pcbFree_h)
  BY <1>4, <1>5, <1>6, <1>13
<1>12. Begun(v, Heads0(0))
  BY <1>6, <1>7, Zenon
<1> QED  BY <1>6, <1>8, <1>9, <1>10, <1>11, <1>12 DEF AslBegun

(* A round: a free descriptor more, and its queue.                         *)
LEMMA AslRound ==
  ASSUME NEW m, NEW v, NEW c \in Pcbs, AslBegun(m, v, c - 1),
         NEW w, w = INIT_LIST_HEAD(list_add(v, s_link(c), semdFree_h), procq(c))
  PROVE  AslBegun(m, w, c)
<1>1. PICK u : u = list_add(v, s_link(c), semdFree_h)
  OBVIOUS
<1>2. PICK H, G, x : H = Heads0(c - 1) /\ G = Heads0(c) /\ x = procq(c)
  OBVIOUS
<1>3. w = INIT_LIST_HEAD(u, x)
  BY <1>1, <1>2
<1>4. /\ c - 1 \in Nat /\ c \in 1..c /\ 1..c = (1..(c - 1)) \cup {c} /\ c \notin 1..(c - 1)
      /\ 1..(c - 1) \subseteq Pcbs
  BY TableAssumption DEF Pcbs
<1>5. /\ G = H \cup {x} /\ x \in Sentinels \ H /\ semdFree_h \in H /\ semd_h \in H
      /\ pcbFree_h \in H /\ x # semdFree_h /\ x # semd_h /\ x # pcbFree_h
      /\ \A d \in 1..(c - 1) : procq(d) \in H /\ procq(d) # semdFree_h /\ procq(d) # x
  <2>1. x \notin H
    BY <1>2, <1>4 DEF Heads0, procq, pcbFree_h, semdFree_h, semd_h
  <2>2. x \in Sentinels
    BY <1>2, Addresses
  <2>3. G = H \cup {x}
    BY <1>2, <1>4 DEF Heads0
  <2>4. semdFree_h \in H /\ semd_h \in H /\ pcbFree_h \in H
    BY <1>2 DEF Heads0
  <2>5. \A d \in 1..(c - 1) : procq(d) \in H /\ procq(d) # semdFree_h /\ procq(d) # x
    BY <1>2, <1>4, <2>1 DEF Heads0, procq, semdFree_h
  <2> QED  BY <2>1, <2>2, <2>3, <2>4, <2>5
<1>6. /\ Begun(v, H) /\ Range(ItemsOf(v, semdFree_h)) = 1..(c - 1)
      /\ ItemsOf(v, pcbFree_h) = ItemsOf(m, pcbFree_h) /\ ItemsOf(v, semd_h) = <<>>
      /\ \A d \in 1..(c - 1) : ItemsOf(v, procq(d)) = <<>>
  BY <1>2 DEF AslBegun
<1>7. H \subseteq Sentinels
  BY <1>6 DEF Begun, InUse
<1>8. \A g \in H : Kind(g) = Kind(semdFree_h) => g = semdFree_h \/ ItemsOf(v, g) = <<>>
  BY <1>6, <1>7, KindOf
<1>9. u = list_add(v, <<Kind(semdFree_h), c>>, semdFree_h)
  BY <1>1, KindOf DEF s_link
<1>10. /\ Begun(u, H) /\ Range(ItemsOf(u, semdFree_h)) = 1..c
       /\ \A g \in H \ {semdFree_h} : ItemsOf(u, g) = ItemsOf(v, g)
  BY <1>5, <1>6, <1>8, <1>9, BeginItem
<1>11. /\ Begun(w, H \cup {x}) /\ ItemsOf(w, x) = <<>>
       /\ \A g \in H : ItemsOf(w, g) = ItemsOf(u, g)
  BY <1>3, <1>5, <1>10, BeginHead
<1>12. w \in Memories /\ Begun(w, Heads0(c))
  BY <1>2, <1>5, <1>11 DEF Begun, Linked
<1>13. \A d \in 1..c : ItemsOf(w, procq(d)) = <<>>
  BY <1>2, <1>4, <1>5, <1>6, <1>10, <1>11
<1>14. semd_h # semdFree_h /\ pcbFree_h # semdFree_h
  BY DEF semd_h, semdFree_h, pcbFree_h
<1>15. /\ ItemsOf(w, pcbFree_h) = ItemsOf(m, pcbFree_h) /\ ItemsOf(w, semd_h) = <<>>
       /\ Range(ItemsOf(w, semdFree_h)) = 1..c
  BY <1>5, <1>6, <1>10, <1>11, <1>14
<1> QED  BY <1>12, <1>13, <1>15 DEF AslBegun

(* initASL: all descriptors are free, without waiters.                     *)
LEMMA InitAsl ==
  ASSUME NEW m, Begun(m, {pcbFree_h}), NEW r, r = initASL(m)
  PROVE  AslBegun(m, r, MaxProc)
<1> DEFINE a == INIT_LIST_HEAD(INIT_LIST_HEAD(m, semdFree_h), semd_h)
           Step(v, c) == INIT_LIST_HEAD(list_add(v, s_link(c), semdFree_h), procq(c))
           Goes(f) == f = [c \in 0..MaxProc |-> IF c = 0 THEN a ELSE Step(f[c - 1], c)]
           After(n) == {v \in Memories : AslBegun(m, v, n)}
<1>1. PICK P : P = [n \in Nat |-> After(IF n < MaxProc THEN n ELSE MaxProc)]
  OBVIOUS
<1>2. PICK F : F = [n \in Nat |-> [v \in Memories |-> IF n < MaxProc THEN Step(v, n + 1) ELSE v]]
  OBVIOUS
<1>3. ASSUME NEW n \in Nat, n < MaxProc, NEW v \in After(n)
      PROVE  Step(v, n + 1) \in After(n + 1)
  <2>1. n + 1 \in Pcbs /\ (n + 1) - 1 = n
    BY <1>3, TableAssumption DEF Pcbs
  <2>2. PICK c, w : c = n + 1 /\ w = Step(v, c)
    OBVIOUS
  <2>3. /\ AslBegun(m, v, c - 1) /\ c \in Pcbs
        /\ w = INIT_LIST_HEAD(list_add(v, s_link(c), semdFree_h), procq(c))
    BY <1>3, <2>1, <2>2
  <2> HIDE DEF After, Step
  <2>4. AslBegun(m, w, c)
    BY <2>3, AslRound
  <2>5. w \in Memories
    BY <2>4 DEF AslBegun
  <2> QED  BY <2>2, <2>4, <2>5 DEF After
<1>4. a \in After(0)
  <2>1. PICK v : v = a
    OBVIOUS
  <2>2. AslBegun(m, v, 0)
    BY <2>1, AslStart
  <2>3. v \in Memories
    BY <2>2 DEF AslBegun
  <2> HIDE DEF a
  <2> QED  BY <2>1, <2>2, <2>3
<1> HIDE DEF a, Step, After
<1>5. \A n \in Nat : \A v \in P[n] : F[n][v] \in P[n + 1]
  <2> TAKE n \in Nat
  <2> TAKE v \in P[n]
  <2>1. CASE n < MaxProc
    <3>1. P[n] = After(n) /\ P[n + 1] = After(n + 1)
      <4>1. n + 1 < MaxProc \/ n + 1 = MaxProc
        BY <2>1, TableAssumption
      <4> QED  BY <1>1, <2>1, <4>1
    <3>2. v \in Memories /\ v \in After(n)
      BY <3>1 DEF After
    <3> QED  BY <1>2, <1>3, <2>1, <3>1, <3>2
  <2>2. CASE ~ (n < MaxProc)
    <3>1. P[n] = After(MaxProc) /\ P[n + 1] = After(MaxProc)
      <4>1. ~ (n + 1 < MaxProc) /\ n + 1 \in Nat
        BY <2>2, TableAssumption
      <4> QED  BY <1>1, <2>2, <4>1
    <3>2. v \in Memories
      BY <3>1 DEF After
    <3> QED  BY <1>2, <2>2, <3>1, <3>2
  <2> QED  BY <2>1, <2>2
<1>6. \A n \in Nat : n < MaxProc => \A v \in P[n] : F[n][v] = Step(v, n + 1)
  BY <1>1, <1>2 DEF After
<1>7. a \in P[0]
  BY <1>1, <1>4, TableAssumption
<1>8. PICK g : /\ g = [n \in Nat |-> g[n]] /\ g[0] = a
               /\ \A n \in Nat : g[n] \in P[n] /\ g[n + 1] = F[n][g[n]]
  BY <1>5, <1>7, LoopExists
<1>9. Goes([c \in 0..MaxProc |-> g[c]])
  <2>1. ASSUME NEW c \in 0..MaxProc
        PROVE  g[c] = IF c = 0 THEN a ELSE Step(g[c - 1], c)
    <3>1. CASE c = 0
      BY <1>8, <3>1
    <3>2. CASE c # 0
      <4>1. c - 1 \in Nat /\ (c - 1) + 1 = c /\ c - 1 < MaxProc
        BY <3>2, TableAssumption
      <4> QED  BY <1>6, <1>8, <3>2, <4>1
    <3> QED  BY <3>1, <3>2
  <2>2. \A c \in 0..MaxProc : c # 0 => c - 1 \in 0..MaxProc
    BY TableAssumption
  <2> QED  BY <2>1, <2>2
<1>10. PICK f : Goes(f) /\ r = f[MaxProc]
  <2>1. r = (CHOOSE f : Goes(f))[MaxProc]
    BY DEF initASL, a, Step
  <2> HIDE DEF Goes
  <2> QED  BY <1>9, <2>1
<1>11. \A n \in Nat : [j \in Nat |-> IF j \in 0..MaxProc THEN f[j] ELSE f[MaxProc]][n] \in P[n]
  <2> DEFINE k == [j \in Nat |-> IF j \in 0..MaxProc THEN f[j] ELSE f[MaxProc]]
  <2>1. k[0] = a
    BY <1>10, TableAssumption
  <2>2. ASSUME NEW n \in Nat, k[n] \in P[n]  PROVE k[n + 1] = F[n][k[n]]
    <3>1. CASE n < MaxProc
      <4>1. n \in 0..MaxProc /\ n + 1 \in 0..MaxProc /\ n + 1 # 0 /\ (n + 1) - 1 = n
        BY <3>1, TableAssumption
      <4>2. k[n] = f[n] /\ k[n + 1] = f[n + 1]
        BY <4>1
      <4>3. f[n + 1] = Step(f[n], n + 1)
        BY <1>10, <4>1
      <4> HIDE DEF k
      <4> QED  BY <1>6, <2>2, <3>1, <4>2, <4>3
    <3>2. CASE ~ (n < MaxProc)
      <4>1. k[n] = f[MaxProc] /\ k[n + 1] = f[MaxProc]
        <5>1. n = MaxProc \/ n \notin 0..MaxProc
          BY <3>2, TableAssumption
        <5>2. n + 1 \notin 0..MaxProc /\ n + 1 \in Nat
          BY <3>2, TableAssumption
        <5> QED  BY <5>1, <5>2
      <4> HIDE DEF k
      <4>2. k[n] \in Memories
        <5>1. P[n] = After(MaxProc)
          BY <1>1, <3>2
        <5> QED  BY <2>2, <5>1 DEF After
      <4> QED  BY <1>2, <3>2, <4>1, <4>2
    <3> QED  BY <3>1, <3>2
  <2> HIDE DEF k, Goes
  <2>3. \A n \in Nat : k[n] \in P[n]
    BY <1>5, <1>7, <2>1, <2>2, LoopStates
  <2> QED  BY <2>3 DEF k
<1>12. r \in After(MaxProc)
  <2>1. MaxProc \in Nat /\ MaxProc \in 0..MaxProc /\ P[MaxProc] = After(MaxProc)
    BY <1>1, TableAssumption
  <2> QED  BY <1>10, <1>11, <2>1
<1> QED  BY <1>12 DEF After

(* What main() begins with: all PCBs free, all queues empty.               *)
Fresh(m) ==
  /\ Good(m) /\ FreeOf(m) = Pcbs /\ ReadyOf(m) = <<>>
  /\ ActiveOf(m) = <<>> /\ WaitersOf(m) = [k \in Keys |-> <<>>]
  /\ m.p_parent = [p \in Pcbs |-> None] /\ m.p_semAdd = [p \in Pcbs |-> None]
  /\ m.p_prio = [p \in Pcbs |-> 0]

(* The lists after initPcbs, initASL and the head of the ready queue.      *)
LEMMA FreshLists ==
  ASSUME NEW m, m = INIT_LIST_HEAD(initASL(initPcbs(Unset)), readyQueue)
  PROVE  Fresh(m)
<1>1. PICK a, b : a = initPcbs(Unset) /\ b = initASL(a)
  OBVIOUS
<1>2. m = INIT_LIST_HEAD(b, readyQueue)
  BY <1>1
<1>3. Begun(a, {pcbFree_h}) /\ Range(ItemsOf(a, pcbFree_h)) = Pcbs
  BY <1>1, InitPcbs
<1>4. AslBegun(a, b, MaxProc)
  BY <1>1, <1>3, InitAsl
<1>5. PICK H : H = Heads0(MaxProc)
  OBVIOUS
<1>6. /\ Begun(b, H) /\ Range(ItemsOf(b, pcbFree_h)) = Pcbs /\ ItemsOf(b, semd_h) = <<>>
      /\ Range(ItemsOf(b, semdFree_h)) = Pcbs
      /\ \A d \in Pcbs : ItemsOf(b, procq(d)) = <<>>
  BY <1>3, <1>4, <1>5 DEF AslBegun, Pcbs
<1>7. /\ readyQueue \in Sentinels \ H
      /\ {pcbFree_h, semdFree_h, semd_h} \subseteq H /\ \A d \in Pcbs : procq(d) \in H
      /\ \A p \in Pcbs : p_child(p) \notin H \cup {readyQueue}
      /\ Heads \cup {semdFree_h, semd_h} \subseteq H \cup {readyQueue}
  <2>1. readyQueue \in Sentinels
    BY Addresses
  <2>2. H = {pcbFree_h, semdFree_h, semd_h} \cup {procq(d) : d \in Pcbs}
    BY <1>5 DEF Heads0, Pcbs
  <2>3. readyQueue \notin H
    BY <2>2 DEF procq, readyQueue, pcbFree_h, semdFree_h, semd_h
  <2>4. \A p \in Pcbs : p_child(p) \notin H \cup {readyQueue}
    BY <2>2 DEF procq, readyQueue, pcbFree_h, semdFree_h, semd_h, p_child
  <2>5. \A h \in Heads : h \in H \cup {readyQueue}
    BY <2>2, KindOf
  <2> QED  BY <2>1, <2>2, <2>3, <2>4, <2>5
<1>8. /\ Begun(m, H \cup {readyQueue}) /\ ItemsOf(m, readyQueue) = <<>>
      /\ \A g \in H : ItemsOf(m, g) = ItemsOf(b, g)
  BY <1>2, <1>6, <1>7, BeginHead
<1>9. /\ Linked(m) /\ InUse(m) = H \cup {readyQueue}
      /\ m.p_parent = [p \in Pcbs |-> None] /\ m.p_semAdd = [p \in Pcbs |-> None]
      /\ m.p_prio = [p \in Pcbs |-> 0]
  BY <1>8 DEF Begun
<1>10. Range(<<>>) = {}
  BY EmptySeq, EmptyQueueLemma
<1>11. /\ Range(ItemsOf(m, pcbFree_h)) = Pcbs /\ Range(ItemsOf(m, semdFree_h)) = Pcbs
       /\ ItemsOf(m, semd_h) = <<>> /\ \A d \in Pcbs : ItemsOf(m, procq(d)) = <<>>
  BY <1>6, <1>7, <1>8
<1>12. FreeOf(m) = Pcbs
  BY <1>11, FreeItems
<1>13. Tables(m)
  <2>1. \A p \in Pcbs : p_child(p) \notin InUse(m) /\ m.p_parent[p] = None
    BY <1>7, <1>9
  <2>2. Semds = Pcbs
    BY DEF Semds, Pcbs
  <2> QED  BY <1>7, <1>9, <1>10, <1>11, <1>12, <2>1, <2>2 DEF Tables
<1>14. Good(m)
  BY <1>9, <1>13 DEF Good
<1>15. \A k : Descriptor(m, k) = None
  BY <1>10, <1>11, <1>14, DescriptorFacts
<1>16. ActiveOf(m) = <<>>
  <2>1. ActiveOf(m) \in Seq(Keys) /\ Len(ActiveOf(m)) = Len(ItemsOf(m, semd_h))
    BY <1>14, AslFacts
  <2>2. Len(<<>>) = 0
    BY EmptySeq
  <2> QED  BY <1>11, <2>1, <2>2, EmptySeq
<1>17. WaitersOf(m) = [k \in Keys |-> <<>>]
  BY <1>15 DEF WaitersOf
<1>18. ReadyOf(m) = <<>>
  BY <1>8 DEF ReadyOf
<1> QED  BY <1>9, <1>12, <1>14, <1>16, <1>17, <1>18 DEF Fresh

(* The first process is allocated, becomes ready and is dispatched.        *)
LEMMA InitLemma ==
  ASSUME Init
  PROVE  /\ Good(mem) /\ currentProcess \in Pcbs /\ FreeOf(mem) = Pcbs \ {currentProcess}
         /\ ReadyOf(mem) = <<>> /\ ActiveOf(mem) = <<>>
         /\ WaitersOf(mem) = [k \in Keys |-> <<>>]
         /\ mem.p_parent = [p \in Pcbs |-> None] /\ mem.p_semAdd = [p \in Pcbs |-> None]
         /\ mem.p_prio = [p \in Pcbs |-> 0]
<1>1. PICK m, p, n, r : /\ m = INIT_LIST_HEAD(initASL(initPcbs(Unset)), readyQueue)
                        /\ p = Allocated(m) /\ n = allocPcb(m) /\ r = insertProcQ(n, readyQueue, p)
  OBVIOUS
<1>2. mem = removeProcQ(r, readyQueue) /\ currentProcess = p
  BY <1>1 DEF Init
<1>3. /\ Good(m) /\ FreeOf(m) = Pcbs /\ ReadyOf(m) = <<>>
      /\ ActiveOf(m) = <<>> /\ WaitersOf(m) = [k \in Keys |-> <<>>]
      /\ m.p_parent = [q \in Pcbs |-> None] /\ m.p_semAdd = [q \in Pcbs |-> None]
      /\ m.p_prio = [q \in Pcbs |-> 0]
  BY <1>1, FreshLists DEF Fresh
<1>4. 1 \in Pcbs /\ Pcbs # {} /\ None \notin Pcbs
  BY TableAssumption, AddressesAssumption DEF Pcbs
<1>5. p \in Pcbs
  BY <1>1, <1>3, <1>4, FreeHead
<1>6. /\ Good(n) /\ FreeOf(n) = Pcbs \ {p} /\ ReadyOf(n) = <<>>
      /\ ActiveOf(n) = <<>> /\ WaitersOf(n) = [k \in Keys |-> <<>>]
      /\ n.p_parent = [q \in Pcbs |-> None]
      /\ Becomes(n.p_semAdd, m.p_semAdd, p, None) /\ Becomes(n.p_prio, m.p_prio, p, 0)
  <2>1. m.p_parent[p] = None /\ \A x \in Pcbs : m.p_parent[x] # p
    BY <1>3, <1>4, <1>5
  <2>2. FreeOf(m) # {}
    BY <1>3, <1>4
  <2>3. /\ Good(n) /\ FreeOf(n) = FreeOf(m) \ {p} /\ ReadyOf(n) = ReadyOf(m)
        /\ ActiveOf(n) = ActiveOf(m) /\ WaitersOf(n) = WaitersOf(m)
        /\ n.p_parent = m.p_parent
        /\ Becomes(n.p_semAdd, m.p_semAdd, p, None) /\ Becomes(n.p_prio, m.p_prio, p, 0)
    BY <1>1, <1>3, <2>1, <2>2, AllocPcb
  <2> QED  BY <1>3, <2>3
<1>7. n.p_semAdd = [q \in Pcbs |-> None] /\ n.p_prio = [q \in Pcbs |-> 0]
  BY <1>3, <1>5, <1>6 DEF Becomes
<1>8. Range(<<>>) = {} /\ <<>> \in Seq(Pcbs)
  BY EmptySeq, EmptyQueueLemma
<1>9. Unqueued(n, p)
  BY <1>6, <1>8 DEF Unqueued
<1>10. /\ Good(r) /\ ReadyOf(r) = InsertProcQ(ReadyOf(n), n.p_prio, p)
       /\ FreeOf(r) = FreeOf(n) /\ SameAsl(n, r) /\ SameTree(n, r)
  BY <1>1, <1>5, <1>6, <1>9, ReadyInsert
<1>11. /\ ReadyOf(r) \in Seq(Pcbs) /\ ReadyOf(r) # <<>> /\ Range(ReadyOf(r)) = {p}
       /\ IsInjective(ReadyOf(r))
  <2>1. \A q \in Pcbs : n.p_prio[q] \in Int
    BY <1>7
  <2>2. PICK q, f : q = ReadyOf(n) /\ f = n.p_prio
    OBVIOUS
  <2>3. q \in Seq(Pcbs) /\ Range(q) = {} /\ IsInjective(q) /\ \A s \in Pcbs : f[s] \in Int
    <3>1. q \in Seq(Pcbs) /\ IsInjective(q)
      BY <1>6, <2>2, ViewFacts
    <3> QED  BY <1>6, <1>8, <2>1, <2>2, <3>1
  <2>4. /\ InsertProcQ(q, f, p) \in Seq(Pcbs) /\ InsertProcQ(q, f, p) # <<>>
        /\ Range(InsertProcQ(q, f, p)) = Range(q) \cup {p}
        /\ p \notin Range(q) /\ IsInjective(q) => IsInjective(InsertProcQ(q, f, p))
    <3>1. \A s \in Pcbs : f[s] \in Int
      BY <2>3
    <3>2. q \in Seq(Pcbs)
      BY <2>3
    <3> QED  BY <1>5, <3>1, <3>2, InsertProcQLemma
  <2> QED  BY <1>10, <2>2, <2>3, <2>4
<1>12. /\ ReadyOf(mem) = Tail(ReadyOf(r)) /\ Good(mem) /\ FreeOf(mem) = FreeOf(r)
       /\ SameAsl(r, mem) /\ SameTree(r, mem)
  BY <1>2, <1>10, <1>11, ReadyRemove
<1>13. ReadyOf(mem) = <<>>
  <2>1. PICK q : q = ReadyOf(r)
    OBVIOUS
  <2>2. Head(q) \in Range(q) /\ Tail(q) \in Seq(Pcbs) /\ Range(Tail(q)) = Range(q) \ {Head(q)}
    BY <1>11, <2>1, DequeueLemma
  <2>3. Range(Tail(q)) = {}
    BY <1>11, <2>1, <2>2
  <2> QED  BY <1>12, <2>1, <2>2, <2>3, EmptyQueueLemma
<1> QED  BY <1>2, <1>5, <1>6, <1>7, <1>10, <1>12, <1>13 DEF SameAsl, SameTree
=============================================================================
