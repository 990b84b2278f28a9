----------------------------- MODULE ListsProofs -----------------------------
(***************************************************************************)
(* What the pointer operations of Lists do to a list, of any length and    *)
(* among any others: headers/listx.h is an insertion into, and a removal   *)
(* from, the sequence of links behind a sentinel, and the process queues   *)
(* of phase1/pcb.c on pointers are those of ProcQueue on sequences.        *)
(***************************************************************************)
EXTENDS Lists, ProcQueueProofs

LinksOf(h, s) == {h} \cup Range(s)
-----------------------------------------------------------------------------
(* The links of a circle are different, and are the links of the list.     *)
LEMMA NthFacts ==
  ASSUME NEW m, NEW h, NEW s, IsList(m, h, s)
  PROVE  /\ Len(s) \in Nat /\ DOMAIN s = 1..Len(s)
         /\ \A i \in 0..(Len(s) + 1) : Nth(h, s, i) \in LinksOf(h, s)
         /\ \A i, j \in 0..Len(s) : Nth(h, s, i) = Nth(h, s, j) => i = j
         /\ Nth(h, s, 0) = h /\ Nth(h, s, Len(s) + 1) = h
         /\ \A i \in 1..Len(s) : Nth(h, s, i) = s[i] /\ s[i] # h
         /\ LinksOf(h, s) \subseteq DOMAIN m.next
         /\ \A l \in LinksOf(h, s) : \E i \in 0..Len(s) : l = Nth(h, s, i)
<1>1. Len(s) \in Nat /\ DOMAIN s = 1..Len(s) /\ \A i \in 1..Len(s) : s[i] \in DOMAIN m.next \ {h}
  BY LenProperties, ElementOfSeq DEF IsList
<1>2. \A i \in 1..Len(s) : Nth(h, s, i) = s[i] /\ s[i] # h
  BY <1>1 DEF Nth
<1>3. Nth(h, s, 0) = h /\ Nth(h, s, Len(s) + 1) = h
  BY <1>1 DEF Nth
<1>4. \A i, j \in 1..Len(s) : s[i] = s[j] => i = j
  BY <1>1 DEF IsList, IsInjective
<1>5. \A i, j \in 0..Len(s) : Nth(h, s, i) = Nth(h, s, j) => i = j
  BY <1>1, <1>2, <1>3, <1>4
<1>6. \A i \in 0..(Len(s) + 1) : Nth(h, s, i) \in LinksOf(h, s)
  BY <1>1 DEF Nth, LinksOf, Range
<1>7. \A l \in LinksOf(h, s) : \E i \in 0..Len(s) : l = Nth(h, s, i)
  <2> SUFFICES ASSUME NEW l \in LinksOf(h, s)  PROVE \E i \in 0..Len(s) : l = Nth(h, s, i)
    OBVIOUS
  <2>1. CASE l = h
    BY <1>1, <1>3, <2>1
  <2>2. CASE l # h
    <3>1. PICK i \in 1..Len(s) : l = s[i]
      BY <1>1, <2>2 DEF LinksOf, Range
    <3> QED  BY <1>1, <1>2, <3>1
  <2> QED  BY <2>1, <2>2
<1>8. LinksOf(h, s) \subseteq DOMAIN m.next
  BY <1>1 DEF LinksOf, Range, IsList
<1> QED  BY <1>1, <1>2, <1>3, <1>5, <1>6, <1>7, <1>8

(* n is m but for pointers.                                                *)
SameFields(m, n) ==
  /\ Memory(n) /\ DOMAIN n = DOMAIN m /\ DOMAIN n.next = DOMAIN m.next
  /\ \A x \in DOMAIN m \ {"next", "prev"} : n[x] = m[x]

(* n is m with new between a and b, or with l taken from between them.     *)
Joined(m, n, new, a, b) ==
  \A x \in DOMAIN m.next :
    /\ n.next[x] = IF x = a THEN new ELSE IF x = new THEN b ELSE m.next[x]
    /\ n.prev[x] = IF x = new THEN a ELSE IF x = b THEN new ELSE m.prev[x]
Deleted(m, n, l, a, b) ==
  \A x \in DOMAIN m.next :
    /\ n.next[x] = IF x = l THEN l ELSE IF x = a THEN b ELSE m.next[x]
    /\ n.prev[x] = IF x = l THEN l ELSE IF x = b THEN a ELSE m.prev[x]

(* What __list_add writes, and what it leaves alone.                       *)
LEMMA JoinFields ==
  ASSUME NEW m, Memory(m), NEW new \in DOMAIN m.next, NEW a \in DOMAIN m.next,
         NEW b \in DOMAIN m.next, NEW n, n = Join(m, new, a, b)
  PROVE  SameFields(m, n) /\ Joined(m, n, new, a, b)
<1>1. SameFields(m, n)
  BY DEF Join, Memory, SameFields
<1>2. /\ n.next = [m.next EXCEPT ![new] = b, ![a] = new]
      /\ n.prev = [m.prev EXCEPT ![b] = new, ![new] = a]
  BY DEF Join, Memory
<1>3. DOMAIN m.prev = DOMAIN m.next
  BY DEF Memory
<1> QED  BY <1>1, <1>2, <1>3 DEF Joined

(* What list_del writes, and what it leaves alone.                         *)
LEMMA DelFields ==
  ASSUME NEW m, Memory(m), NEW l \in DOMAIN m.next, m.next[l] \in DOMAIN m.next,
         m.prev[l] \in DOMAIN m.next, NEW n, n = list_del(m, l)
  PROVE  SameFields(m, n) /\ Deleted(m, n, l, m.prev[l], m.next[l])
<1>1. SameFields(m, n)
  BY DEF list_del, Cut, INIT_LIST_HEAD, Memory, SameFields
<1>2. /\ n.next = [m.next EXCEPT ![m.prev[l]] = m.next[l], ![l] = l]
      /\ n.prev = [m.prev EXCEPT ![m.next[l]] = m.prev[l], ![l] = l]
  BY DEF list_del, Cut, INIT_LIST_HEAD, Memory
<1>3. DOMAIN m.prev = DOMAIN m.next
  BY DEF Memory
<1> QED  BY <1>1, <1>2, <1>3 DEF Deleted
-----------------------------------------------------------------------------
(* __list_add between two neighbours of a list inserts there.              *)
LEMMA JoinInserts ==
  ASSUME NEW m, Memory(m), NEW h, NEW s, IsList(m, h, s),
         NEW new \in DOMAIN m.next, new \notin LinksOf(h, s),
         NEW i \in 1..(Len(s) + 1), NEW r,
         IsInsertion(DOMAIN m.next \ {h}, s, new, i, r)
  PROVE  IsList(Join(m, new, Nth(h, s, i - 1), Nth(h, s, i)), h, r)
<1> DEFINE L == DOMAIN m.next
           a == Nth(h, s, i - 1)
           b == Nth(h, s, i)
           n == Join(m, new, a, b)
           k == Len(s)
<1>1. /\ k \in Nat /\ \A j \in 0..(k + 1) : Nth(h, s, j) \in LinksOf(h, s)
      /\ \A j1, j2 \in 0..k : Nth(h, s, j1) = Nth(h, s, j2) => j1 = j2
      /\ Nth(h, s, 0) = h /\ Nth(h, s, k + 1) = h
      /\ \A j \in 1..k : Nth(h, s, j) = s[j] /\ s[j] # h
      /\ LinksOf(h, s) \subseteq L
  BY NthFacts
<1>2. a \in L /\ b \in L /\ a # new /\ b # new
  BY <1>1
<1>3. /\ DOMAIN n.next = L /\ n.next[new] = b /\ n.next[a] = new
      /\ n.prev[new] = a /\ n.prev[b] = new
      /\ \A l \in L \ {new, a} : n.next[l] = m.next[l]
      /\ \A l \in L \ {new, b} : n.prev[l] = m.prev[l]
  <2>1. n = Join(m, new, a, b)
    OBVIOUS
  <2> HIDE DEF n, a, b
  <2>2. SameFields(m, n) /\ Joined(m, n, new, a, b)
    BY <1>2, <2>1, JoinFields
  <2> QED  BY <1>2, <2>2 DEF SameFields, Joined
<1>4. /\ r \in Seq(L \ {h}) /\ Len(r) = k + 1
      /\ \A j \in 1..(k + 1) : r[j] = IF j < i THEN s[j] ELSE IF j = i THEN new ELSE s[j - 1]
  BY DEF IsInsertion
<1>5. \A j \in 0..(k + 2) :
        Nth(h, r, j) = IF j < i THEN Nth(h, s, j) ELSE IF j = i THEN new
                       ELSE Nth(h, s, j - 1)
  BY <1>1, <1>4 DEF Nth
<1>6. IsInjective(r)
  <2>1. \A j1, j2 \in 1..(k + 1) : r[j1] = r[j2] => j1 = j2
    <3>1. \A j \in 1..k : s[j] # new
      BY <1>1
    <3>2. \A j1, j2 \in 1..k : s[j1] = s[j2] => j1 = j2
      BY <1>1
    <3> SUFFICES ASSUME NEW j1 \in 1..(k + 1), NEW j2 \in 1..(k + 1), r[j1] = r[j2]
                 PROVE  j1 = j2
      OBVIOUS
    <3>3. CASE j1 = i \/ j2 = i
      <4>1. \A j \in 1..(k + 1) : j # i => r[j] # new
        <5> SUFFICES ASSUME NEW j \in 1..(k + 1), j # i  PROVE r[j] # new
          OBVIOUS
        <5>1. CASE j < i
          BY <1>1, <1>4, <3>1, <5>1
        <5>2. CASE j > i
          <6>1. r[j] = s[j - 1] /\ j - 1 \in 1..k
            BY <1>1, <1>4, <5>2
          <6> QED  BY <3>1, <6>1
        <5> QED  BY <5>1, <5>2
      <4> QED  BY <1>1, <1>4, <3>3, <4>1
    <3>4. CASE j1 # i /\ j2 # i
      <4>1. PICK i1 \in 1..k : r[j1] = s[i1] /\ i1 = IF j1 < i THEN j1 ELSE j1 - 1
        BY <1>1, <1>4, <3>4
      <4>2. PICK i2 \in 1..k : r[j2] = s[i2] /\ i2 = IF j2 < i THEN j2 ELSE j2 - 1
        BY <1>1, <1>4, <3>4
      <4>3. i1 = i2
        BY <3>2, <4>1, <4>2
      <4> QED  BY <1>1, <3>4, <4>1, <4>2, <4>3
    <3> QED  BY <3>3, <3>4
  <2> QED  BY <1>4, <2>1, LenProperties DEF IsInjective
<1>7. ASSUME NEW j \in 0..(k + 1)
      PROVE  /\ n.next[Nth(h, r, j)] = Nth(h, r, j + 1)
             /\ n.prev[Nth(h, r, j + 1)] = Nth(h, r, j)
  <2>0. \A j1 \in 0..k : /\ m.next[Nth(h, s, j1)] = Nth(h, s, j1 + 1)
                         /\ m.prev[Nth(h, s, j1 + 1)] = Nth(h, s, j1)
    BY DEF IsList
  <2>1. CASE j < i - 1
    <3>0. /\ j \in 0..k /\ j + 1 \in 0..k /\ i - 1 \in 0..k /\ j < i /\ j + 1 < i
          /\ j \in 0..(k + 2) /\ j + 1 \in 0..(k + 2)
      BY <1>1, <2>1
    <3>1. /\ Nth(h, r, j) = Nth(h, s, j) /\ Nth(h, r, j + 1) = Nth(h, s, j + 1)
          /\ j \in 0..k /\ j + 1 \in 0..k /\ i - 1 \in 0..k
      BY <1>5, <3>0
    <3>2. Nth(h, s, j) # a /\ Nth(h, s, j) \in L \ {new}
      BY <1>1, <2>1, <3>1
    <3>3. Nth(h, s, j + 1) # b /\ Nth(h, s, j + 1) \in L \ {new}
      <4>1. CASE i = k + 1
        BY <1>1, <2>1, <3>1, <4>1
      <4>2. CASE i # k + 1
        BY <1>1, <2>1, <3>1, <4>2
      <4> QED  BY <4>1, <4>2
    <3> QED  BY <1>3, <2>0, <3>1, <3>2, <3>3
  <2>2. CASE j = i - 1
    <3>1. Nth(h, r, j) = a /\ Nth(h, r, j + 1) = new
      BY <1>1, <1>5, <2>2
    <3> QED  BY <1>3, <3>1
  <2>3. CASE j = i
    <3>1. Nth(h, r, j) = new /\ Nth(h, r, j + 1) = b
      BY <1>1, <1>5, <2>3
    <3> QED  BY <1>3, <3>1
  <2>4. CASE j > i
    <3>0. /\ j - 1 \in 0..k /\ i - 1 \in 0..k /\ i \in 0..k
          /\ j \in 0..(k + 2) /\ j + 1 \in 0..(k + 2) /\ (j + 1) - 1 = j
          /\ ~(j < i) /\ j # i /\ ~(j + 1 < i) /\ j + 1 # i
      BY <1>1, <2>4
    <3>1. /\ Nth(h, r, j) = Nth(h, s, j - 1) /\ Nth(h, r, j + 1) = Nth(h, s, j)
          /\ j - 1 \in 0..k /\ i - 1 \in 0..k /\ i \in 0..k
      BY <1>5, <3>0
    <3>2. Nth(h, s, j - 1) # a /\ Nth(h, s, j - 1) \in L \ {new}
      BY <1>1, <2>4, <3>1
    <3>3. Nth(h, s, j) # b /\ Nth(h, s, j) \in L \ {new}
      <4>1. CASE j = k + 1
        BY <1>1, <2>4, <3>1, <4>1
      <4>2. CASE j # k + 1
        BY <1>1, <2>4, <3>1, <4>2
      <4> QED  BY <4>1, <4>2
    <3>4. m.next[Nth(h, s, j - 1)] = Nth(h, s, j) /\ m.prev[Nth(h, s, j)] = Nth(h, s, j - 1)
      BY <1>1, <2>0, <3>1
    <3> QED  BY <1>3, <3>1, <3>2, <3>3, <3>4
  <2> QED  BY <1>1, <2>1, <2>2, <2>3, <2>4
<1> HIDE DEF n
<1>8. h \in L
  BY DEF IsList
<1> QED  BY <1>3, <1>4, <1>6, <1>7, <1>8 DEF IsList, n

(* Neighbours in a list, as the callers of __list_add find them.           *)
LEMMA Neighbours ==
  ASSUME NEW m, NEW h, NEW s, IsList(m, h, s), NEW i \in 1..(Len(s) + 1)
  PROVE  /\ m.prev[Nth(h, s, i)] = Nth(h, s, i - 1)
         /\ m.next[Nth(h, s, i - 1)] = Nth(h, s, i)
<1>1. Len(s) \in Nat /\ i - 1 \in 0..Len(s) /\ (i - 1) + 1 = i
  BY NthFacts
<1> QED  BY <1>1 DEF IsList

(* list_del takes one link out, and leaves it a list of its own.           *)
LEMMA DelRemoves ==
  ASSUME NEW m, Memory(m), NEW h, NEW s, IsList(m, h, s), NEW i \in 1..Len(s),
         NEW l, l = s[i], NEW r \in Seq(DOMAIN m.next \ {h}), Len(r) = Len(s) - 1,
         \A j \in 1..(Len(s) - 1) : r[j] = IF j < i THEN s[j] ELSE s[j + 1]
  PROVE  IsList(list_del(m, l), h, r) /\ IsList(list_del(m, l), l, <<>>)
<1> DEFINE L == DOMAIN m.next
           a == Nth(h, s, i - 1)
           b == Nth(h, s, i + 1)
           n == list_del(m, l)
           k == Len(s)
<1>1. /\ k \in Nat /\ \A j \in 0..(k + 1) : Nth(h, s, j) \in LinksOf(h, s)
      /\ \A j1, j2 \in 0..k : Nth(h, s, j1) = Nth(h, s, j2) => j1 = j2
      /\ Nth(h, s, 0) = h /\ Nth(h, s, k + 1) = h
      /\ \A j \in 1..k : Nth(h, s, j) = s[j] /\ s[j] # h
      /\ LinksOf(h, s) \subseteq L
  BY NthFacts
<1>2. /\ a \in L /\ b \in L /\ l \in L /\ a # l /\ b # l
      /\ m.next[l] = b /\ m.prev[l] = a
  <2>1. i - 1 \in 0..k /\ i \in 0..k /\ i + 1 \in 0..(k + 1) /\ (i - 1) + 1 = i /\ i # 0
    BY <1>1
  <2>2. Nth(h, s, i) = l /\ i + 1 # i /\ i - 1 # i
    BY <1>1
  <2>3. b # l
    <3>1. CASE i = k
      BY <1>1, <3>1
    <3>2. CASE i # k
      BY <1>1, <2>2, <3>2
    <3> QED  BY <3>1, <3>2
  <2>4. m.next[l] = b /\ m.prev[l] = a
    BY <2>1, <2>2 DEF IsList
  <2> QED  BY <1>1, <2>1, <2>2, <2>3, <2>4
<1>3. /\ DOMAIN n.next = L /\ n.next[a] = b /\ n.prev[b] = a
      /\ n.next[l] = l /\ n.prev[l] = l
      /\ \A x \in L \ {a, l} : n.next[x] = m.next[x]
      /\ \A x \in L \ {b, l} : n.prev[x] = m.prev[x]
  <2>1. l \in L /\ m.next[l] \in L /\ m.prev[l] \in L /\ n = list_del(m, l)
    BY <1>2
  <2> HIDE DEF n, a, b
  <2>2. SameFields(m, n) /\ Deleted(m, n, l, m.prev[l], m.next[l])
    BY <2>1, DelFields
  <2> QED  BY <1>2, <2>2 DEF SameFields, Deleted
<1>5. \A j \in 0..k : Nth(h, r, j) = IF j < i THEN Nth(h, s, j) ELSE Nth(h, s, j + 1)
  BY <1>1 DEF Nth
<1>6. IsInjective(r)
  <2>1. \A j1, j2 \in 1..(k - 1) : r[j1] = r[j2] => j1 = j2
    <3>1. \A j1, j2 \in 1..k : s[j1] = s[j2] => j1 = j2
      BY <1>1
    <3> QED  BY <1>1, <3>1
  <2> QED  BY <2>1, LenProperties DEF IsInjective
<1>7. ASSUME NEW j \in 0..(k - 1)
      PROVE  /\ n.next[Nth(h, r, j)] = Nth(h, r, j + 1)
             /\ n.prev[Nth(h, r, j + 1)] = Nth(h, r, j)
  <2>0. \A j1 \in 0..k : /\ m.next[Nth(h, s, j1)] = Nth(h, s, j1 + 1)
                         /\ m.prev[Nth(h, s, j1 + 1)] = Nth(h, s, j1)
    BY DEF IsList
  <2>1. CASE j < i - 1
    <3>1. /\ Nth(h, r, j) = Nth(h, s, j) /\ Nth(h, r, j + 1) = Nth(h, s, j + 1)
          /\ j \in 0..k /\ j + 1 \in 1..k /\ i - 1 \in 0..k /\ i \in 0..k
      BY <1>1, <1>5, <2>1
    <3>2. Nth(h, s, j) \in L \ {a, l}
      BY <1>1, <2>1, <3>1
    <3>3. Nth(h, s, j + 1) \in L \ {b, l}
      <4>1. CASE i = k
        BY <1>1, <2>1, <3>1, <4>1
      <4>2. CASE i # k
        <5>0. k \in Nat /\ i \in 1..k
          BY <1>1
        <5>1. /\ i + 1 \in 0..k /\ i \in 0..k /\ j + 1 \in 0..k
              /\ j + 1 # i + 1 /\ j + 1 # i
          <6> HIDE DEF k
          <6> QED  BY <2>1, <4>2, <5>0
        <5>2. Nth(h, s, j + 1) # b /\ Nth(h, s, j + 1) # l
          <6>1. Nth(h, s, i) = l
            BY <1>1, <5>0
          <6> QED  BY <1>1, <5>1, <6>1
        <5>3. Nth(h, s, j + 1) \in L
          BY <1>1, <5>1
        <5> QED  BY <5>2, <5>3
      <4> QED  BY <4>1, <4>2
    <3> QED  BY <1>3, <2>0, <3>1, <3>2, <3>3
  <2>2. CASE j = i - 1
    <3>1. Nth(h, r, j) = a /\ Nth(h, r, j + 1) = b
      BY <1>1, <1>5, <2>2
    <3> QED  BY <1>3, <3>1
  <2>4. CASE j >= i
    <3>1. /\ Nth(h, r, j) = Nth(h, s, j + 1) /\ Nth(h, r, j + 1) = Nth(h, s, j + 2)
          /\ j + 1 \in 0..k /\ i - 1 \in 0..k /\ i \in 0..k /\ i + 1 \in 0..k
      <4>1. j \in 0..k /\ j + 1 \in 0..k /\ ~(j < i) /\ ~(j + 1 < i) /\ (j + 1) + 1 = j + 2
            /\ i - 1 \in 0..k /\ i \in 0..k /\ i + 1 \in 0..k
        BY <1>1, <2>4
      <4> QED  BY <1>5, <4>1
    <3>2. Nth(h, s, j + 1) \in L \ {a, l}
      BY <1>1, <2>4, <3>1
    <3>3. Nth(h, s, j + 2) \in L \ {b, l}
      <4>1. CASE j + 1 = k
        <5>1. Nth(h, s, j + 2) = h /\ h \in L
          BY <1>1, <4>1 DEF IsList
        <5>2. i \in 1..k /\ i + 1 \in 1..k
          BY <1>1, <2>4
        <5> QED  BY <1>1, <5>1, <5>2
      <4>2. CASE j + 1 # k
        <5>1. j + 2 \in 0..k
          BY <1>1, <4>2
        <5> QED  BY <1>1, <2>4, <3>1, <5>1
      <4> QED  BY <4>1, <4>2
    <3>4. m.next[Nth(h, s, j + 1)] = Nth(h, s, j + 2) /\ m.prev[Nth(h, s, j + 2)] = Nth(h, s, j + 1)
      <4>1. (j + 1) + 1 = j + 2
        OBVIOUS
      <4> QED  BY <2>0, <3>1, <4>1
    <3> QED  BY <1>3, <3>1, <3>2, <3>3, <3>4
  <2> QED  BY <1>1, <2>1, <2>2, <2>4
<1> HIDE DEF n
<1>8. h \in L /\ k - 1 = Len(r)
  BY DEF IsList
<1>9. IsList(n, h, r)
  BY <1>3, <1>6, <1>7, <1>8 DEF IsList
<1>10. IsList(n, l, <<>>)
  <2>1. Len(<<>>) = 0 /\ \A j \in {0, 1} : Nth(l, <<>>, j) = l
    BY DEF Nth
  <2>2. IsInjective(<<>>) /\ <<>> \in Seq(L \ {l})
    BY DEF IsInjective
  <2> QED  BY <1>2, <1>3, <2>1, <2>2 DEF IsList
<1> QED  BY <1>9, <1>10 DEF n
-----------------------------------------------------------------------------
(* A list none of whose links is written stays what it is.                 *)
LEMMA Frame ==
  ASSUME NEW m, NEW n, NEW h, NEW s, IsList(m, h, s), DOMAIN n.next = DOMAIN m.next,
         \A l \in LinksOf(h, s) : n.next[l] = m.next[l] /\ n.prev[l] = m.prev[l]
  PROVE  IsList(n, h, s)
<1>1. Len(s) \in Nat /\ \A i \in 0..(Len(s) + 1) : Nth(h, s, i) \in LinksOf(h, s)
  BY NthFacts
<1>2. ASSUME NEW i \in 0..Len(s)
      PROVE  /\ n.next[Nth(h, s, i)] = Nth(h, s, i + 1)
             /\ n.prev[Nth(h, s, i + 1)] = Nth(h, s, i)
  <2>1. i \in 0..(Len(s) + 1) /\ i + 1 \in 0..(Len(s) + 1)
    BY <1>1
  <2>2. m.next[Nth(h, s, i)] = Nth(h, s, i + 1) /\ m.prev[Nth(h, s, i + 1)] = Nth(h, s, i)
    BY DEF IsList
  <2> QED  BY <1>1, <2>1, <2>2
<1> QED  BY <1>2 DEF IsList

(* Adding a link that is on no list keeps every pointer in step with its   *)
(* converse, those of lists not looked at included.                        *)
LEMMA JoinKeepsPaired ==
  ASSUME NEW m, Memory(m), None \notin DOMAIN m.next, Paired(m),
         NEW new \in DOMAIN m.next, Loose(m, new),
         NEW a \in DOMAIN m.next, NEW b \in DOMAIN m.next,
         m.next[a] = b, a # new, b # new
  PROVE  Paired(Join(m, new, a, b))
<1>1. PICK n : n = Join(m, new, a, b)
  OBVIOUS
<1>2. /\ DOMAIN n.next = DOMAIN m.next
      /\ \A x \in DOMAIN m.next :
           /\ n.next[x] = IF x = a THEN new ELSE IF x = new THEN b ELSE m.next[x]
           /\ n.prev[x] = IF x = new THEN a ELSE IF x = b THEN new ELSE m.prev[x]
  <2>1. SameFields(m, n) /\ Joined(m, n, new, a, b)
    BY <1>1, JoinFields
  <2> QED  BY <2>1 DEF SameFields, Joined
<1>3. m.prev[b] = a
  BY DEF Paired
<1>4. ASSUME NEW l \in DOMAIN m.next, n.next[l] # None
      PROVE  n.prev[l] # None /\ n.prev[n.next[l]] = l /\ n.next[n.prev[l]] = l
  <2>1. CASE l = new
    BY <1>2, <2>1
  <2>2. CASE l = a
    <3>1. m.next[a] # None /\ m.next[m.prev[a]] = a /\ m.prev[a] \in DOMAIN m.next
      BY DEF Paired, Memory
    <3>2. n.next[a] = new /\ n.prev[new] = a
      BY <1>2
    <3>3. m.prev[a] # new
      <4>1. m.prev[a] = new => m.next[new] = a
        BY <3>1
      <4> QED  BY <4>1 DEF Loose
    <3>4. n.next[n.prev[a]] = a /\ n.prev[a] # None
      <4>1. CASE a = b
        BY <1>2, <4>1
      <4>2. CASE a # b
        <5>1. n.prev[a] = m.prev[a]
          BY <1>2, <4>2
        <5>2. m.prev[a] # a
          BY <3>1, <4>2
        <5>3. n.next[m.prev[a]] = m.next[m.prev[a]]
          BY <1>2, <3>1, <3>3, <5>2
        <5> QED  BY <3>1, <5>1, <5>3
      <4> QED  BY <4>1, <4>2
    <3> QED  BY <2>2, <3>2, <3>4
  <2>3. CASE l # new /\ l # a
    <3>1. n.next[l] = m.next[l] /\ m.next[l] # None
      BY <1>2, <1>4, <2>3
    <3>2. /\ m.prev[m.next[l]] = l /\ m.next[m.prev[l]] = l
          /\ m.next[l] \in DOMAIN m.next /\ m.prev[l] \in DOMAIN m.next
      BY <3>1 DEF Paired, Memory
    <3>3. m.next[l] # b /\ m.next[l] # new
      <4>1. m.next[l] = b => l = a
        BY <1>3, <3>2
      <4>2. m.next[l] = new => m.prev[new] = l
        BY <3>2
      <4>3. m.next[new] = new => m.prev[new] = new
        BY DEF Paired
      <4> QED  BY <2>3, <4>1, <4>2, <4>3 DEF Loose
    <3>4. n.prev[m.next[l]] = m.prev[m.next[l]]
      BY <1>2, <3>2, <3>3
    <3>5. CASE l = b
      BY <1>2, <3>1, <3>2, <3>4, <3>5
    <3>6. CASE l # b
      <4>1. n.prev[l] = m.prev[l]
        BY <1>2, <2>3, <3>6
      <4>2. m.prev[l] # new /\ m.prev[l] # a
        <5>1. m.prev[l] = new => m.next[new] = l
          BY <3>2
        <5>2. m.prev[l] = a => l = b
          BY <3>2
        <5> QED  BY <2>3, <3>6, <5>1, <5>2 DEF Loose
      <4>3. n.next[m.prev[l]] = m.next[m.prev[l]]
        BY <1>2, <3>2, <4>2
      <4> QED  BY <3>1, <3>2, <3>4, <4>1, <4>3
    <3> QED  BY <3>5, <3>6
  <2> QED  BY <2>1, <2>2, <2>3
<1> QED  BY <1>1, <1>2, <1>4 DEF Paired

(* Removing a link, wherever it is, keeps that, and leaves the link alone. *)
LEMMA DelKeepsPaired ==
  ASSUME NEW m, Memory(m), None \notin DOMAIN m.next, Paired(m),
         NEW l \in DOMAIN m.next, m.next[l] \in DOMAIN m.next, m.prev[l] \in DOMAIN m.next
  PROVE  Paired(list_del(m, l)) /\ Loose(list_del(m, l), l)
<1>1. PICK n : n = list_del(m, l)
  OBVIOUS
<1> DEFINE a == m.prev[l]
           b == m.next[l]
<1>2. /\ DOMAIN n.next = DOMAIN m.next
      /\ \A x \in DOMAIN m.next :
           /\ n.next[x] = IF x = l THEN l ELSE IF x = a THEN b ELSE m.next[x]
           /\ n.prev[x] = IF x = l THEN l ELSE IF x = b THEN a ELSE m.prev[x]
  <2>1. SameFields(m, n) /\ Deleted(m, n, l, m.prev[l], m.next[l])
    BY <1>1, DelFields
  <2> QED  BY <2>1 DEF SameFields, Deleted
<1>3. m.prev[b] = l /\ m.next[a] = l /\ a \in DOMAIN m.next /\ b \in DOMAIN m.next /\ b # None
  BY DEF Paired
<1>3a. a = l <=> b = l
  BY <1>3
<1> HIDE DEF a, b
<1>4. ASSUME NEW x \in DOMAIN m.next, n.next[x] # None
      PROVE  n.prev[x] # None /\ n.prev[n.next[x]] = x /\ n.next[n.prev[x]] = x
  <2>1. CASE x = l
    BY <1>2, <1>3, <2>1
  <2>2. CASE x = a /\ x # l
    <3>1. n.next[a] = b /\ n.prev[b] = a
      BY <1>2, <1>3, <1>3a, <2>2
    <3>2. m.next[m.prev[a]] = a /\ m.next[a] # None /\ m.prev[a] \in DOMAIN m.next
      BY <1>3 DEF Paired, Memory
    <3>3. m.prev[a] # a
      BY <1>3, <2>2, <3>2
    <3>4. n.next[n.prev[a]] = a /\ n.prev[a] # None
      <4>1. CASE a = b
        BY <1>2, <1>3, <2>2, <4>1
      <4>2. CASE a # b
        <5>1. n.prev[a] = m.prev[a]
          BY <1>2, <1>3, <2>2, <4>2
        <5>2. m.prev[a] # l
          <6>1. m.prev[a] = l => m.next[l] = a
            BY <3>2
          <6> QED  BY <4>2, <6>1 DEF b
        <5>3. n.next[m.prev[a]] = m.next[m.prev[a]]
          BY <1>2, <3>2, <3>3, <5>2
        <5> QED  BY <3>2, <5>1, <5>3
      <4> QED  BY <4>1, <4>2
    <3> QED  BY <2>2, <3>1, <3>4
  <2>3. CASE x # l /\ x # a
    <3>1. n.next[x] = m.next[x] /\ m.next[x] # None
      BY <1>2, <1>4, <2>3
    <3>2. /\ m.prev[m.next[x]] = x /\ m.next[m.prev[x]] = x
          /\ m.next[x] \in DOMAIN m.next /\ m.prev[x] \in DOMAIN m.next
      BY <3>1 DEF Paired, Memory
    <3>3. m.next[x] # l /\ m.next[x] # b
      <4>1. m.next[x] = l => x = a
        BY <3>2 DEF a
      <4>2. m.next[x] = b => x = l
        BY <1>3, <3>2
      <4> QED  BY <2>3, <4>1, <4>2
    <3>4. n.prev[m.next[x]] = x
      BY <1>2, <3>2, <3>3
    <3>5. CASE x = b
      <4>1. n.prev[b] = a /\ a # None
        BY <1>2, <1>3, <2>3, <3>5
      <4>2. n.next[a] = b
        BY <1>2, <1>3, <1>3a, <2>3, <3>5
      <4> QED  BY <3>4, <3>1, <3>5, <4>1, <4>2
    <3>6. CASE x # b
      <4>1. n.prev[x] = m.prev[x]
        BY <1>2, <2>3, <3>6
      <4>2. m.prev[x] # l /\ m.prev[x] # a
        <5>1. m.prev[x] = l => x = b
          BY <3>2 DEF b
        <5>2. m.prev[x] = a => x = l
          BY <1>3, <3>2
        <5> QED  BY <2>3, <3>6, <5>1, <5>2
      <4>3. n.next[m.prev[x]] = m.next[m.prev[x]]
        BY <1>2, <3>2, <4>2
      <4> QED  BY <3>1, <3>2, <3>4, <4>1, <4>3
    <3> QED  BY <3>5, <3>6
  <2> QED  BY <2>1, <2>2, <2>3
<1>5. n.next[l] = l
  BY <1>2
<1> QED  BY <1>1, <1>2, <1>4, <1>5 DEF Paired, Loose
-----------------------------------------------------------------------------
(* The iterator of list_for_each goes through the list in order, and then  *)
(* rests at the head.                                                      *)
LEMMA IteratorLemma ==
  ASSUME NEW m, Memory(m), NEW h, NEW s, IsList(m, h, s)
  PROVE  \A n \in Nat : Iterator(m, h)[n] = Nth(h, s, n + 1)
<1> DEFINE next == [m.next EXCEPT ![h] = h]
           Goes(f) == f = [n \in Nat |-> IF n = 0 THEN m.next[h] ELSE next[f[n - 1]]]
           g == [n \in Nat |-> Nth(h, s, n + 1)]
<1>1. /\ Len(s) \in Nat /\ Nth(h, s, 0) = h
      /\ \A i \in 0..(Len(s) + 1) : Nth(h, s, i) \in LinksOf(h, s)
      /\ \A i \in 1..Len(s) : Nth(h, s, i) = s[i] /\ s[i] # h
      /\ LinksOf(h, s) \subseteq DOMAIN m.next
  BY NthFacts
<1>2. ASSUME NEW n \in Nat \ {0}  PROVE next[Nth(h, s, n)] = Nth(h, s, n + 1)
  <2>1. CASE n \in 1..Len(s)
    <3>1. n \in 0..Len(s) /\ n \in 0..(Len(s) + 1)
      BY <1>1, <2>1
    <3>2. Nth(h, s, n) # h /\ Nth(h, s, n) \in DOMAIN m.next
      BY <1>1, <2>1, <3>1
    <3>3. m.next[Nth(h, s, n)] = Nth(h, s, n + 1)
      BY <3>1 DEF IsList
    <3> QED  BY <3>2, <3>3
  <2>2. CASE n \notin 1..Len(s)
    <3>1. n + 1 \notin 1..Len(s)
      BY <1>1, <2>2
    <3>2. Nth(h, s, n) = h /\ Nth(h, s, n + 1) = h
      BY <2>2, <3>1 DEF Nth
    <3>3. h \in DOMAIN m.next
      BY DEF IsList
    <3> QED  BY <3>2, <3>3
  <2> QED  BY <2>1, <2>2
<1>3. m.next[h] = Nth(h, s, 1)
  <2>1. 0 \in 0..Len(s) /\ 0 + 1 = 1
    BY <1>1
  <2> QED  BY <1>1, <2>1 DEF IsList
<1>4. Goes(g)
  <2>1. ASSUME NEW n \in Nat
        PROVE  g[n] = IF n = 0 THEN m.next[h] ELSE next[g[n - 1]]
    <3>1. CASE n = 0
      BY <1>3, <3>1
    <3>2. CASE n # 0
      <4>1. n - 1 \in Nat /\ (n - 1) + 1 = n
        BY <3>2
      <4>2. g[n - 1] = Nth(h, s, n)
        BY <4>1
      <4> QED  BY <1>2, <3>2, <4>2
    <3> QED  BY <3>1, <3>2
  <2> HIDE DEF next
  <2> QED  BY <2>1
<1>5. Goes(Iterator(m, h))
  <2>1. Iterator(m, h) = CHOOSE f : Goes(f)
    BY DEF Iterator
  <2> HIDE DEF Goes, g
  <2> QED  BY <1>4, <2>1
<1> SUFFICES ASSUME NEW T, T = {n \in Nat : Iterator(m, h)[n] # g[n]}, T # {}
             PROVE  FALSE
  OBVIOUS
<1>6. PICK n \in T : \A k \in T : ~ (<<k, n>> \in OpToRel(<, Nat))
  BY NatLessThanWellFounded, WFMin
<1>7. \A k \in T : ~ (k < n)
  BY <1>6 DEF OpToRel
<1>8. CASE n = 0
  BY <1>4, <1>5, <1>6, <1>8
<1>9. CASE n # 0
  <2>1. n - 1 \in Nat /\ n - 1 < n
    <3>1. n \in Nat
      BY <1>6
    <3> QED  BY <1>9, <3>1
  <2>2. Iterator(m, h)[n - 1] = g[n - 1]
    <3> HIDE DEF g
    <3> QED  BY <1>7, <2>1
  <2>3. \A f : Goes(f) => f[n] = next[f[n - 1]]
    BY <1>6, <1>9
  <2> HIDE DEF Goes, g, next
  <2> QED  BY <1>4, <1>5, <1>6, <2>2, <2>3
<1> QED  BY <1>8, <1>9

(* So list_for_each visits the owners of the links, in order.              *)
LEMMA ItemsLemma ==
  ASSUME NEW m, Memory(m), NEW h, NEW s, IsList(m, h, s), Len(s) <= MaxProc
  PROVE  ItemsOf(m, h) = [i \in 1..Len(s) |-> Owner(s[i])]
<1>1. /\ Len(s) \in Nat /\ MaxProc \in Nat
      /\ \A i \in 1..Len(s) : Nth(h, s, i) = s[i] /\ s[i] # h
  BY NthFacts, TableAssumption
<1>2. \A n \in Nat : Iterator(m, h)[n] = Nth(h, s, n + 1)
  BY IteratorLemma
<1>3. Visits(m, h) = 0..(Len(s) - 1)
  <2>1. ASSUME NEW n \in 0..MaxProc
        PROVE  Iterator(m, h)[n] # h <=> n \in 0..(Len(s) - 1)
    <3>1. n \in Nat /\ Iterator(m, h)[n] = Nth(h, s, n + 1)
      BY <1>1, <1>2
    <3>2. CASE n + 1 \in 1..Len(s)
      BY <1>1, <3>1, <3>2
    <3>3. CASE n + 1 \notin 1..Len(s)
      BY <1>1, <3>1, <3>3 DEF Nth
    <3> QED  BY <3>2, <3>3
  <2> QED  BY <1>1, <2>1 DEF Visits
<1>4. Cardinality(Visits(m, h)) = Len(s)
  <2>1. \A a, b \in Int : Cardinality(a..b) = IF a > b THEN 0 ELSE b - a + 1
    BY FS_Interval
  <2>2. 0 \in Int /\ Len(s) - 1 \in Int
    BY <1>1
  <2>3. Cardinality(0..(Len(s) - 1)) = IF 0 > Len(s) - 1 THEN 0 ELSE (Len(s) - 1) - 0 + 1
    BY <2>1, <2>2
  <2> QED  BY <1>1, <1>3, <2>3
<1>5. \A i \in 1..Len(s) : Iterator(m, h)[i - 1] = s[i]
  <2> SUFFICES ASSUME NEW i \in 1..Len(s)  PROVE Iterator(m, h)[i - 1] = s[i]
    OBVIOUS
  <2>1. i - 1 \in Nat /\ (i - 1) + 1 = i
    BY <1>1
  <2> QED  BY <1>1, <1>2, <2>1
<1> QED  BY <1>4, <1>5 DEF ItemsOf
-----------------------------------------------------------------------------
(* A sentinel and the links of a list of items; of a queue of PCBs.        *)
LinksOfChain(h, kind, q) == LinksOf(h, Chain(kind, q))
LinksOfQueue(h, q) == LinksOfChain(h, "p_list", q)

(* n is m but for the pointers of the links of W: by Frame a list without  *)
(* any of these links is the same in both.                                 *)
OnlyTouches(m, n, W) ==
  /\ SameFields(m, n)
  /\ \A l \in DOMAIN m.next \ W : n.next[l] = m.next[l] /\ n.prev[l] = m.prev[l]

(* The links of a queue.                                                   *)
LEMMA ChainFacts ==
  ASSUME NEW m, NEW h, NEW kind, NEW S, NEW q \in Seq(S), IsList(m, h, Chain(kind, q))
  PROVE  /\ Len(q) \in Nat /\ DOMAIN q = 1..Len(q) /\ \A i \in 1..Len(q) : q[i] \in S
         /\ Len(Chain(kind, q)) = Len(q) /\ DOMAIN Chain(kind, q) = 1..Len(q)
         /\ \A i \in 1..Len(q) : Chain(kind, q)[i] = <<kind, q[i]>>
         /\ \A x, y \in S : <<kind, x>> = <<kind, y>> => x = y
         /\ \A x \in S : Owner(<<kind, x>>) = x
         /\ \A i \in 1..Len(q) : <<kind, q[i]>> \in DOMAIN m.next \ {h}
         /\ IsInjective(q)
<1>1. Len(q) \in Nat /\ DOMAIN q = 1..Len(q) /\ \A i \in 1..Len(q) : q[i] \in S
  BY LenProperties, ElementOfSeq
<1>2. /\ Len(Chain(kind, q)) = Len(q) /\ DOMAIN Chain(kind, q) = 1..Len(q)
      /\ \A i \in 1..Len(q) : Chain(kind, q)[i] = <<kind, q[i]>>
  <2>1. Chain(kind, q) \in Seq(DOMAIN m.next \ {h})
    BY DEF IsList
  <2>2. DOMAIN Chain(kind, q) = 1..Len(q)
    BY DEF Chain
  <2>3. Len(Chain(kind, q)) \in Nat /\ DOMAIN Chain(kind, q) = 1..Len(Chain(kind, q))
    BY <2>1, LenProperties
  <2>4. \A a, b \in Nat : 1..a = 1..b => a = b
    <3> SUFFICES ASSUME NEW a \in Nat, NEW b \in Nat, 1..a = 1..b  PROVE a = b
      OBVIOUS
    <3>1. Cardinality(1..a) = a /\ Cardinality(1..b) = b
      BY FS_Interval
    <3> QED  BY <3>1
  <2>5. Len(Chain(kind, q)) = Len(q)
    BY <1>1, <2>2, <2>3, <2>4
  <2> QED  BY <2>2, <2>5 DEF Chain
<1>3. \A x, y \in S : <<kind, x>> = <<kind, y>> => x = y
  OBVIOUS
<1>4. \A x \in S : Owner(<<kind, x>>) = x
  BY DEF Owner
<1>5. \A i \in 1..Len(q) : <<kind, q[i]>> \in DOMAIN m.next \ {h}
  <2>1. Chain(kind, q) \in Seq(DOMAIN m.next \ {h})
    BY DEF IsList
  <2>2. \A i \in 1..Len(q) : Chain(kind, q)[i] \in DOMAIN m.next \ {h}
    BY <1>2, <2>1, ElementOfSeq
  <2> QED  BY <1>2, <2>2
<1>6. IsInjective(q)
  <2>1. \A i, j \in 1..Len(q) : Chain(kind, q)[i] = Chain(kind, q)[j] => i = j
    BY <1>2 DEF IsList, IsInjective
  <2> QED  BY <1>1, <1>2, <2>1 DEF IsInjective
<1> QED  BY <1>1, <1>2, <1>3, <1>4, <1>5, <1>6

(* list_for_each on a queue visits its PCBs, in order.                     *)
LEMMA ChainItems ==
  ASSUME NEW m, Memory(m), NEW h, NEW kind, NEW S, NEW q \in Seq(S), IsList(m, h, Chain(kind, q)),
         Len(q) <= MaxProc
  PROVE  ItemsOf(m, h) = q
<1>1. /\ Len(q) \in Nat /\ DOMAIN q = 1..Len(q) /\ \A i \in 1..Len(q) : q[i] \in S
      /\ Len(Chain(kind, q)) = Len(q)
      /\ \A i \in 1..Len(q) : Chain(kind, q)[i] = <<kind, q[i]>>
      /\ \A x \in S : Owner(<<kind, x>>) = x
  BY ChainFacts
<1>2. ItemsOf(m, h) = [i \in 1..Len(q) |-> Owner(Chain(kind, q)[i])]
  BY <1>1, ItemsLemma
<1>3. \A i \in 1..Len(q) : Owner(Chain(kind, q)[i]) = q[i]
  BY <1>1
<1>4. q = [i \in 1..Len(q) |-> q[i]]
  BY <1>1
<1> HIDE DEF Chain
<1> QED  BY <1>2, <1>3, <1>4

(* An addition between neighbours of a queue, as every caller makes it.    *)
LEMMA JoinOnChain ==
  ASSUME NEW m, Memory(m), NEW h, NEW kind, NEW S, NEW q \in Seq(S), IsList(m, h, Chain(kind, q)),
         NEW p \in S, <<kind, p>> \in DOMAIN m.next \ LinksOfChain(h, kind, q),
         NEW i \in 1..(Len(q) + 1), NEW r, IsInsertion(S, q, p, i, r), NEW n,
         n = Join(m, <<kind, p>>, Nth(h, Chain(kind, q), i - 1), Nth(h, Chain(kind, q), i))
  PROVE  /\ IsList(n, h, Chain(kind, r))
         /\ OnlyTouches(m, n, LinksOfChain(h, kind, q) \cup {<<kind, p>>})
         /\ Sound(m) /\ Loose(m, <<kind, p>>) => Sound(n)
<1> DEFINE s == Chain(kind, q)
           new == <<kind, p>>
           a == Nth(h, s, i - 1)
           b == Nth(h, s, i)
<1>1. /\ Len(q) \in Nat /\ \A j \in 1..Len(q) : q[j] \in S /\ s[j] = <<kind, q[j]>>
      /\ Len(s) = Len(q)
      /\ \A j \in 1..Len(q) : <<kind, q[j]>> \in DOMAIN m.next \ {h}
  BY ChainFacts
<1>2. new # h /\ new \in DOMAIN m.next /\ new \notin LinksOf(h, s)
  BY DEF LinksOfChain, LinksOf
<1>3. /\ a \in LinksOf(h, s) /\ b \in LinksOf(h, s)
      /\ LinksOf(h, s) \subseteq DOMAIN m.next
  <2>1. /\ \A j \in 0..(Len(s) + 1) : Nth(h, s, j) \in LinksOf(h, s)
        /\ LinksOf(h, s) \subseteq DOMAIN m.next
    BY NthFacts
  <2>2. i - 1 \in 0..(Len(s) + 1) /\ i \in 0..(Len(s) + 1)
    BY <1>1
  <2> QED  BY <2>1, <2>2
<1>4. r \in Seq(S) /\ Len(r) = Len(q) + 1 /\ \A j \in 1..(Len(q) + 1) :
        r[j] = IF j < i THEN q[j] ELSE IF j = i THEN p ELSE q[j - 1]
  BY DEF IsInsertion
<1>5. IsInsertion(DOMAIN m.next \ {h}, s, new, i, Chain(kind, r))
  <2>1. Chain(kind, r) = [j \in 1..(Len(s) + 1) |-> <<kind, r[j]>>]
    BY <1>1, <1>4 DEF Chain
  <2>2. ASSUME NEW j \in 1..(Len(s) + 1)
        PROVE  /\ <<kind, r[j]>> \in DOMAIN m.next \ {h}
               /\ <<kind, r[j]>> = IF j < i THEN s[j] ELSE IF j = i THEN new ELSE s[j - 1]
    <3>0. j \in 1..(Len(q) + 1)
      BY <1>1
    <3>1. CASE j < i
      <4>1. j \in 1..Len(q) /\ r[j] = q[j]
        BY <1>1, <1>4, <3>0, <3>1
      <4> QED  BY <1>1, <3>1, <4>1
    <3>2. CASE j = i
      <4>1. r[j] = p
        BY <1>1, <1>4, <3>0, <3>2
      <4> QED  BY <1>1, <1>2, <3>2, <4>1
    <3>3. CASE j > i
      <4>1. j - 1 \in 1..Len(q) /\ ~(j < i) /\ j # i
        BY <1>1, <3>0, <3>3
      <4>2. r[j] = q[j - 1]
        BY <1>4, <3>0, <4>1
      <4> QED  BY <1>1, <4>1, <4>2
    <3> QED  BY <1>1, <3>1, <3>2, <3>3
  <2> DEFINE t == Chain(kind, r)
  <2>3. t \in [1..(Len(s) + 1) -> DOMAIN m.next \ {h}]
    BY <2>1, <2>2
  <2>4. Len(s) + 1 \in Nat
    BY <1>1
  <2> HIDE DEF s, new
  <2>5. t \in Seq(DOMAIN m.next \ {h})
    BY <2>3, <2>4, SeqDef
  <2>6. DOMAIN t = 1..(Len(s) + 1)
    BY <2>3
  <2>7. Len(t) = Len(s) + 1
    BY <2>4, <2>5, <2>6, LenProperties
  <2> QED  BY <2>1, <2>2, <2>5, <2>7 DEF IsInsertion
<1>6. IsList(n, h, Chain(kind, r))
  <2>1. i \in 1..(Len(s) + 1) /\ IsList(m, h, s)
    BY <1>1
  <2>2. IsList(Join(m, new, a, b), h, Chain(kind, r))
    <3> HIDE DEF s, new
    <3> QED  BY <1>2, <1>5, <2>1, JoinInserts
  <2> QED  BY <2>2
<1>7. OnlyTouches(m, n, LinksOfChain(h, kind, q) \cup {new})
  <2>1. new \in DOMAIN m.next /\ a \in DOMAIN m.next /\ b \in DOMAIN m.next
    BY <1>2, <1>3
  <2>2. n = Join(m, new, a, b)
    OBVIOUS
  <2> HIDE DEF a, b, new, s
  <2>3. SameFields(m, n) /\ Joined(m, n, new, a, b)
    BY <2>1, <2>2, JoinFields
  <2> QED  BY <1>3, <2>1, <2>3 DEF OnlyTouches, LinksOfChain, Joined, s
<1>8. ASSUME Sound(m), Loose(m, new)  PROVE Sound(n)
  <2>1. i \in 1..(Len(s) + 1) /\ IsList(m, h, s)
    BY <1>1
  <2>2. m.next[a] = b
    <3> HIDE DEF s
    <3> QED  BY <2>1, Neighbours
  <2>3. a # new /\ b # new
    BY <1>2, <1>3
  <2>4. Paired(Join(m, new, a, b))
    <3> HIDE DEF s, new, a, b
    <3> QED  BY <1>2, <1>3, <1>8, <2>2, <2>3, JoinKeepsPaired DEF Sound
  <2> QED  BY <1>7, <1>8, <2>4 DEF Sound, OnlyTouches, SameFields
<1> QED  BY <1>6, <1>7, <1>8

(* A removal from a queue; the link stays behind as a list of its own.     *)
LEMMA DelOnChain ==
  ASSUME NEW m, Memory(m), NEW h, NEW kind, NEW S, NEW q \in Seq(S), IsList(m, h, Chain(kind, q)),
         NEW i \in 1..Len(q), NEW r, IsRemoval(S, q, i, r), NEW n,
         n = list_del(m, <<kind, q[i]>>)
  PROVE  /\ IsList(n, h, Chain(kind, r)) /\ IsList(n, <<kind, q[i]>>, <<>>)
         /\ OnlyTouches(m, n, LinksOfChain(h, kind, q))
         /\ Sound(m) => Sound(n) /\ Loose(n, <<kind, q[i]>>)
<1> DEFINE s == Chain(kind, q)
           l == <<kind, q[i]>>
<1>1. /\ Len(q) \in Nat /\ \A j \in 1..Len(q) : q[j] \in S /\ s[j] = <<kind, q[j]>>
      /\ Len(s) = Len(q)
      /\ \A j \in 1..Len(q) : <<kind, q[j]>> \in DOMAIN m.next \ {h}
  BY ChainFacts
<1>2. l = s[i] /\ i \in 1..Len(s) /\ IsList(m, h, s)
  BY <1>1
<1>3. l \in DOMAIN m.next /\ m.next[l] \in DOMAIN m.next /\ m.prev[l] \in DOMAIN m.next
  <2> HIDE DEF s, l
  <2>1. /\ Len(s) \in Nat /\ LinksOf(h, s) \subseteq DOMAIN m.next
        /\ \A j \in 0..(Len(s) + 1) : Nth(h, s, j) \in LinksOf(h, s)
        /\ \A j \in 1..Len(s) : Nth(h, s, j) = s[j]
    BY <1>2, NthFacts
  <2>2. /\ i \in 0..Len(s) /\ i - 1 \in 0..Len(s) /\ (i - 1) + 1 = i
        /\ i \in 0..(Len(s) + 1) /\ i + 1 \in 0..(Len(s) + 1) /\ i - 1 \in 0..(Len(s) + 1)
    BY <1>2, <2>1
  <2>3. Nth(h, s, i) = l
    BY <1>2, <2>1
  <2>4. m.next[l] = Nth(h, s, i + 1) /\ m.prev[l] = Nth(h, s, i - 1)
    BY <1>2, <2>2, <2>3 DEF IsList
  <2>5. Nth(h, s, i + 1) \in DOMAIN m.next /\ Nth(h, s, i - 1) \in DOMAIN m.next
    BY <2>1, <2>2
  <2>6. l \in DOMAIN m.next
    BY <2>1, <2>2, <2>3
  <2> QED  BY <2>4, <2>5, <2>6
<1>4. r \in Seq(S) /\ Len(r) = Len(q) - 1 /\ \A j \in 1..(Len(q) - 1) :
        r[j] = IF j < i THEN q[j] ELSE q[j + 1]
  BY DEF IsRemoval
<1>5. IsRemoval(DOMAIN m.next \ {h}, s, i, Chain(kind, r))
  <2>1. Chain(kind, r) = [j \in 1..(Len(s) - 1) |-> <<kind, r[j]>>]
    BY <1>1, <1>4 DEF Chain
  <2>2. ASSUME NEW j \in 1..(Len(s) - 1)
        PROVE  /\ <<kind, r[j]>> \in DOMAIN m.next \ {h}
               /\ <<kind, r[j]>> = IF j < i THEN s[j] ELSE s[j + 1]
    <3>0. j \in 1..(Len(q) - 1)
      BY <1>1
    <3>1. CASE j < i
      <4>1. j \in 1..Len(q) /\ r[j] = q[j]
        BY <1>1, <1>4, <3>0, <3>1
      <4> QED  BY <1>1, <3>1, <4>1
    <3>2. CASE ~(j < i)
      <4>1. j + 1 \in 1..Len(q) /\ r[j] = q[j + 1]
        BY <1>1, <1>4, <3>0, <3>2
      <4> QED  BY <1>1, <3>2, <4>1
    <3> QED  BY <3>1, <3>2
  <2> DEFINE t == Chain(kind, r)
  <2>3. t \in [1..(Len(s) - 1) -> DOMAIN m.next \ {h}]
    BY <2>1, <2>2
  <2>4. Len(s) - 1 \in Nat
    BY <1>1
  <2> HIDE DEF s
  <2>5. t \in Seq(DOMAIN m.next \ {h})
    BY <2>3, <2>4, SeqDef
  <2>6. DOMAIN t = 1..(Len(s) - 1)
    BY <2>3
  <2>7. Len(t) = Len(s) - 1
    BY <2>4, <2>5, <2>6, LenProperties
  <2> QED  BY <2>1, <2>2, <2>5, <2>7 DEF IsRemoval
<1>6. IsList(n, h, Chain(kind, r)) /\ IsList(n, l, <<>>)
  <2>1. IsList(list_del(m, l), h, Chain(kind, r)) /\ IsList(list_del(m, l), l, <<>>)
    <3>1. /\ Chain(kind, r) \in Seq(DOMAIN m.next \ {h}) /\ Len(Chain(kind, r)) = Len(s) - 1
          /\ \A j \in 1..(Len(s) - 1) : Chain(kind, r)[j] = IF j < i THEN s[j] ELSE s[j + 1]
      BY <1>5 DEF IsRemoval
    <3> HIDE DEF s, l
    <3> QED  BY <1>2, <3>1, DelRemoves
  <2> QED  BY <2>1
<1>7. OnlyTouches(m, n, LinksOfChain(h, kind, q))
  <2>1. n = list_del(m, l)
    OBVIOUS
  <2>2. /\ l \in LinksOf(h, s) /\ m.next[l] \in LinksOf(h, s) /\ m.prev[l] \in LinksOf(h, s)
    <3> HIDE DEF s, l
    <3>1. /\ Len(s) \in Nat /\ \A j \in 0..(Len(s) + 1) : Nth(h, s, j) \in LinksOf(h, s)
          /\ \A j \in 1..Len(s) : Nth(h, s, j) = s[j]
      BY <1>2, NthFacts
    <3>2. /\ i \in 0..Len(s) /\ i - 1 \in 0..Len(s) /\ (i - 1) + 1 = i
          /\ i \in 0..(Len(s) + 1) /\ i + 1 \in 0..(Len(s) + 1) /\ i - 1 \in 0..(Len(s) + 1)
      BY <1>2, <3>1
    <3>3. Nth(h, s, i) = l
      BY <1>2, <3>1
    <3>4. m.next[l] = Nth(h, s, i + 1) /\ m.prev[l] = Nth(h, s, i - 1)
      BY <1>2, <3>2, <3>3 DEF IsList
    <3> QED  BY <3>1, <3>2, <3>3, <3>4
  <2> HIDE DEF l, s
  <2>3. SameFields(m, n) /\ Deleted(m, n, l, m.prev[l], m.next[l])
    BY <1>3, <2>1, DelFields
  <2> QED  BY <1>3, <2>2, <2>3 DEF OnlyTouches, LinksOfChain, Deleted, s
<1>8. ASSUME Sound(m)  PROVE Sound(n) /\ Loose(n, l)
  <2>1. Paired(list_del(m, l)) /\ Loose(list_del(m, l), l)
    <3> HIDE DEF l
    <3> QED  BY <1>3, <1>8, DelKeepsPaired DEF Sound
  <2> QED  BY <1>7, <1>8, <2>1 DEF Sound, OnlyTouches, SameFields
<1> QED  BY <1>6, <1>7, <1>8
-----------------------------------------------------------------------------
(* list_add_tail of a PCB, to a queue of any length, appends it (Yield,    *)
(* insertBlocked); no other list changes, and when                         *)
(* the PCB was on no list, every pointer still has its converse.           *)
THEOREM AppendOnLinks ==
  ASSUME NEW m, Memory(m), NEW h, NEW S, NEW q \in Seq(S), IsQueue(m, h, q),
         NEW p \in S, p_list(p) \in DOMAIN m.next \ LinksOfQueue(h, q),
         NEW n, n = list_add_tail(m, p_list(p), h)
  PROVE  /\ IsQueue(n, h, Append(q, p))
         /\ OnlyTouches(m, n, LinksOfQueue(h, q) \cup {p_list(p)})
         /\ Sound(m) /\ Loose(m, p_list(p)) => Sound(n)
<1> DEFINE k == Len(q) + 1
           s == Chain("p_list", q)
<1>1. Len(q) \in Nat /\ Len(s) = Len(q) /\ k \in 1..(Len(q) + 1) /\ k \in 1..(Len(s) + 1)
  BY ChainFacts DEF IsQueue, p_list
<1>2. n = Join(m, p_list(p), Nth(h, s, k - 1), Nth(h, s, k))
  <2>1. IsList(m, h, s)
    BY DEF IsQueue
  <2> HIDE DEF s, k
  <2>2. m.prev[Nth(h, s, k)] = Nth(h, s, k - 1)
    BY <1>1, <2>1, Neighbours
  <2>3. Nth(h, s, k) = h
    BY <1>1, <2>1, NthFacts DEF k
  <2> QED  BY <2>2, <2>3 DEF list_add_tail
<1>3. IsInsertion(S, q, p, k, Append(q, p))
  <2>1. /\ Append(q, p) \in Seq(S) /\ Len(Append(q, p)) = Len(q) + 1
        /\ \A j \in 1..Len(q) : Append(q, p)[j] = q[j]
        /\ Append(q, p)[Len(q) + 1] = p
    BY AppendProperties
  <2> QED  BY <1>1, <2>1 DEF IsInsertion
<1> HIDE DEF k, s
<1> QED  BY <1>1, <1>2, <1>3, JoinOnChain DEF s, IsQueue, p_list, LinksOfQueue

(* insertProcQ on pointers is InsertProcQ on sequences: behind the PCBs of *)
(* the same or a higher priority, whatever the length of the queue.        *)
THEOREM InsertOnLinks ==
  ASSUME NEW m, Memory(m), NEW h, NEW S, None \notin S,
         NEW q \in Seq(S), IsQueue(m, h, q), Len(q) <= MaxProc,
         NEW p \in S, p_list(p) \in DOMAIN m.next \ LinksOfQueue(h, q),
         \A x \in S : m.p_prio[x] \in Int,
         NEW n, n = insertProcQ(m, h, p)
  PROVE  /\ IsQueue(n, h, InsertProcQ(q, m.p_prio, p))
         /\ OnlyTouches(m, n, LinksOfQueue(h, q) \cup {p_list(p)})
         /\ Sound(m) /\ Loose(m, p_list(p)) => Sound(n)
<1> DEFINE s == Chain("p_list", q)
           hits == {i \in DOMAIN q : m.p_prio[q[i]] < m.p_prio[p]}
           lower == IF hits = {} THEN None ELSE q[Min(hits)]
           k == Slot(q, m.p_prio, p)
<1>1. /\ Len(q) \in Nat /\ DOMAIN q = 1..Len(q) /\ Len(s) = Len(q)
      /\ \A i \in 1..Len(q) : q[i] \in S /\ s[i] = p_list(q[i])
  BY ChainFacts DEF IsQueue, p_list
<1>2. ItemsOf(m, h) = q
  BY ChainItems DEF IsQueue
<1>3. n = IF lower # None THEN list_add(m, p_list(p), m.prev[p_list(lower)])
                          ELSE list_add_tail(m, p_list(p), h)
  BY <1>2 DEF insertProcQ, First
<1>4. k \in 1..(Len(q) + 1) /\ IsSlot(q, m.p_prio, p, k)
  BY SlotLemma
<1>5. IsInsertion(S, q, p, k, InsertProcQ(q, m.p_prio, p))
  <2> HIDE DEF k
  <2>1. InsertProcQ(q, m.p_prio, p) = InsertAt(q, k, p)
    BY DEF InsertProcQ, k
  <2> QED  BY <1>4, <2>1, InsertAtLemma
<1>6. IsList(m, h, s)
  BY DEF IsQueue
<1>7. n = Join(m, p_list(p), Nth(h, s, k - 1), Nth(h, s, k))
  <2>1. /\ m.prev[Nth(h, s, k)] = Nth(h, s, k - 1)
        /\ m.next[Nth(h, s, k - 1)] = Nth(h, s, k)
    <3> HIDE DEF s, k
    <3> QED  BY <1>1, <1>4, <1>6, Neighbours
  <2>2. CASE hits = {}
    <3>1. k = Len(q) + 1
      <4>1. k \in DOMAIN q => k \in hits
        <5> HIDE DEF k
        <5> QED  BY <1>4 DEF IsSlot
      <4> HIDE DEF k, hits
      <4> QED  BY <1>1, <1>4, <2>2, <4>1
    <3>2. Nth(h, s, k) = h
      <4>1. Nth(h, s, Len(s) + 1) = h
        <5> HIDE DEF s
        <5> QED  BY <1>6, NthFacts
      <4> HIDE DEF s, k
      <4> QED  BY <1>1, <3>1, <4>1
    <3>3. n = list_add_tail(m, p_list(p), h)
      BY <1>3, <2>2
    <3> HIDE DEF s, k
    <3> QED  BY <2>1, <3>2, <3>3 DEF list_add_tail
  <2>3. CASE hits # {}
    <3>1. hits \subseteq Nat /\ hits \subseteq 1..Len(q)
      BY <1>1
    <3>2. PICK i \in hits : \A j \in hits : i <= j
      <4> HIDE DEF hits
      <4>1. PICK i \in hits : \A j \in hits : ~ (<<j, i>> \in OpToRel(<, Nat))
        BY <2>3, <3>1, NatLessThanWellFounded, WFMin
      <4>2. \A j \in hits : i \in Nat /\ j \in Nat /\ ~ (j < i)
        BY <3>1, <4>1 DEF OpToRel
      <4> QED  BY <4>2
    <3>3. Min(hits) = i
      <4>1. \A x \in hits : (\A j \in hits : x <= j) => x = i
        <5> HIDE DEF hits
        <5> QED  BY <3>1, <3>2
      <4> HIDE DEF hits
      <4> QED  BY <3>2, <4>1 DEF Min
    <3>4. i \in 1..Len(q) /\ IsSlot(q, m.p_prio, p, i)
      <4>1. i \in 1..Len(q) /\ m.p_prio[q[i]] < m.p_prio[p]
        BY <1>1
      <4>2. ASSUME NEW j \in 1..(i - 1)  PROVE m.p_prio[q[j]] >= m.p_prio[p]
        <5>1. j \in DOMAIN q /\ ~(i <= j) /\ q[j] \in S
          BY <1>1, <4>1
        <5>2. ~(m.p_prio[q[j]] < m.p_prio[p])
          BY <3>2, <5>1
        <5>3. m.p_prio[q[j]] \in Int /\ m.p_prio[p] \in Int
          BY <5>1
        <5> QED  BY <5>2, <5>3
      <4> QED  BY <4>1, <4>2 DEF IsSlot
    <3>5. k = i
      <4>1. i \in 1..(Len(q) + 1) /\ m.p_prio[p] \in Int
        BY <1>1, <3>4
      <4> HIDE DEF hits
      <4> QED  BY <3>4, <4>1, SlotIsUnique
    <3>6. lower = q[i] /\ lower # None
      <4>1. lower = q[i]
        BY <2>3, <3>3
      <4> QED  BY <1>1, <3>4, <4>1
    <3>7. Nth(h, s, k) = p_list(lower)
      <4>1. Nth(h, s, i) = p_list(q[i])
        BY <1>1, <3>4 DEF Nth
      <4> HIDE DEF s, k, lower
      <4> QED  BY <3>5, <3>6, <4>1
    <3>8. n = list_add(m, p_list(p), m.prev[p_list(lower)])
      BY <1>3, <3>6
    <3> HIDE DEF s, k, lower
    <3> QED  BY <2>1, <3>7, <3>8 DEF list_add
  <2> QED  BY <2>2, <2>3
<1>8. /\ IsList(m, h, Chain("p_list", q))
      /\ <<"p_list", p>> \in DOMAIN m.next \ LinksOfChain(h, "p_list", q)
      /\ n = Join(m, <<"p_list", p>>, Nth(h, Chain("p_list", q), k - 1),
                  Nth(h, Chain("p_list", q), k))
  BY <1>6, <1>7 DEF p_list, LinksOfQueue
<1> HIDE DEF k, s, hits
<1>9. /\ IsList(n, h, Chain("p_list", InsertProcQ(q, m.p_prio, p)))
      /\ OnlyTouches(m, n, LinksOfChain(h, "p_list", q) \cup {<<"p_list", p>>})
      /\ Sound(m) /\ Loose(m, <<"p_list", p>>) => Sound(n)
  <2>1. PICK r, j : r = InsertProcQ(q, m.p_prio, p) /\ j = k
    OBVIOUS
  <2>2. /\ j \in 1..(Len(q) + 1) /\ IsInsertion(S, q, p, j, r)
        /\ n = Join(m, <<"p_list", p>>, Nth(h, Chain("p_list", q), j - 1),
                    Nth(h, Chain("p_list", q), j))
    BY <1>4, <1>5, <1>8, <2>1
  <2>3. /\ IsList(n, h, Chain("p_list", r))
        /\ OnlyTouches(m, n, LinksOfChain(h, "p_list", q) \cup {<<"p_list", p>>})
        /\ Sound(m) /\ Loose(m, <<"p_list", p>>) => Sound(n)
    BY <1>8, <2>2, JoinOnChain
  <2> QED  BY <2>1, <2>3
<1> QED  BY <1>9 DEF IsQueue, p_list, LinksOfQueue

(* headProcQ and removeProcQ on pointers are Head and Tail, and NULL and   *)
(* nothing on an empty queue; the link that leaves is a list of its own.   *)
THEOREM RemoveOnLinks ==
  ASSUME NEW m, Memory(m), NEW h, NEW S, None \notin S,
         NEW q \in Seq(S), IsQueue(m, h, q),
         NEW n, n = removeProcQ(m, h)
  PROVE  /\ q = <<>> => headProcQ(m, h) = None /\ n = m
         /\ q # <<>> => /\ headProcQ(m, h) = Head(q) /\ Head(q) # None
                        /\ IsQueue(n, h, Tail(q)) /\ IsList(n, p_list(Head(q)), <<>>)
                        /\ OnlyTouches(m, n, LinksOfQueue(h, q))
                        /\ Sound(m) => Sound(n) /\ Loose(n, p_list(Head(q)))
<1> DEFINE s == Chain("p_list", q)
<1>1. /\ Len(q) \in Nat /\ DOMAIN q = 1..Len(q) /\ Len(s) = Len(q)
      /\ \A i \in 1..Len(q) : q[i] \in S /\ s[i] = p_list(q[i])
      /\ \A i \in 1..Len(q) : p_list(q[i]) \in DOMAIN m.next \ {h}
      /\ \A x \in S : Owner(p_list(x)) = x
  BY ChainFacts DEF IsQueue, p_list
<1>2. IsList(m, h, s)
  BY DEF IsQueue
<1>3. m.next[h] = Nth(h, s, 1)
  <2> HIDE DEF s
  <2>1. Nth(h, s, 0) = h /\ 1 \in 1..(Len(s) + 1) /\ 1 - 1 = 0
    BY <1>1, <1>2, NthFacts
  <2> QED  BY <1>2, <2>1, Neighbours
<1>4. CASE q = <<>>
  <2>1. Nth(h, s, 1) = h
    BY <1>1, <1>4 DEF Nth
  <2> HIDE DEF s
  <2> QED  BY <1>3, <1>4, <2>1 DEF headProcQ, removeProcQ, list_empty
<1>5. CASE q # <<>>
  <2>1. 1 \in 1..Len(q) /\ Head(q) = q[1]
    BY <1>1, <1>5, EmptySeq
  <2>2. m.next[h] = p_list(q[1]) /\ m.next[h] # h
    <3>1. Nth(h, s, 1) = p_list(q[1])
      BY <1>1, <2>1 DEF Nth
    <3> HIDE DEF s
    <3> QED  BY <1>1, <1>3, <2>1, <3>1
  <2>3. headProcQ(m, h) = q[1] /\ q[1] # None /\ n = list_del(m, p_list(q[1]))
    BY <1>1, <2>1, <2>2 DEF headProcQ, removeProcQ, list_empty
  <2>4. IsRemoval(S, q, 1, Tail(q))
    <3>1. /\ Tail(q) \in Seq(S) /\ Len(Tail(q)) = Len(q) - 1
          /\ \A j \in 1..(Len(q) - 1) : Tail(q)[j] = q[j + 1]
      BY <1>5, HeadTailProperties
    <3> QED  BY <1>1, <3>1 DEF IsRemoval
  <2> HIDE DEF s
  <2>5. /\ IsQueue(n, h, Tail(q)) /\ IsList(n, p_list(q[1]), <<>>)
        /\ OnlyTouches(m, n, LinksOfQueue(h, q))
        /\ Sound(m) => Sound(n) /\ Loose(n, p_list(q[1]))
    BY <2>1, <2>3, <2>4, DelOnChain DEF IsQueue, p_list, LinksOfQueue
  <2> QED  BY <1>5, <2>1, <2>3, <2>5
<1> QED  BY <1>4, <1>5

(* outProcQ on pointers is Without on sequences: the PCB leaves, wherever  *)
(* it is in the queue, the others keep their order, and one that is not in *)
(* the queue changes nothing.                                              *)
THEOREM OutOnLinks ==
  ASSUME NEW m, Memory(m), NEW h, NEW S, NEW q \in Seq(S), IsQueue(m, h, q),
         Len(q) <= MaxProc, NEW p, NEW n, n = outProcQ(m, h, p)
  PROVE  /\ IsQueue(n, h, Without(q, {p}))
         /\ p \notin Range(q) => n = m
         /\ p \in Range(q) => /\ IsList(n, p_list(p), <<>>)
                              /\ OnlyTouches(m, n, LinksOfQueue(h, q))
                              /\ Sound(m) => Sound(n) /\ Loose(n, p_list(p))
<1>1. Len(q) \in Nat /\ DOMAIN q = 1..Len(q) /\ IsInjective(q)
  BY ChainFacts DEF IsQueue, p_list
<1>2. n = IF p \in Range(q) THEN list_del(m, p_list(p)) ELSE m
  <2>1. ItemsOf(m, h) = q
    BY ChainItems DEF IsQueue
  <2>2. Contains(q, p) <=> p \in Range(q)
    BY <1>1 DEF Contains, Range
  <2> QED  BY <2>1, <2>2 DEF outProcQ
<1>3. CASE p \notin Range(q)
  BY <1>2, <1>3, WithoutNone
<1>4. CASE p \in Range(q)
  <2>1. PICK i \in 1..Len(q) : p = q[i]
    BY <1>1, <1>4 DEF Range
  <2>2. IsRemoval(S, q, i, Without(q, {q[i]}))
    BY <1>1, WithoutOne
  <2>3. n = list_del(m, p_list(q[i]))
    BY <1>2, <1>4, <2>1
  <2>4. /\ IsQueue(n, h, Without(q, {q[i]})) /\ IsList(n, p_list(q[i]), <<>>)
        /\ OnlyTouches(m, n, LinksOfQueue(h, q))
        /\ Sound(m) => Sound(n) /\ Loose(n, p_list(q[i]))
    BY <2>2, <2>3, DelOnChain DEF IsQueue, p_list, LinksOfQueue
  <2> QED  BY <1>4, <2>1, <2>4
<1> QED  BY <1>3, <1>4
-----------------------------------------------------------------------------
(* Loops: what n rounds of one lead to: g has the state after each of them, F  *)
(* makes the next of it, and P holds what is true after n rounds.          *)
LEMMA LoopStates ==
  ASSUME NEW P, NEW F, NEW g, g[0] \in P[0],
         \A n \in Nat : \A v \in P[n] : F[n][v] \in P[n + 1],
         \A n \in Nat : g[n] \in P[n] => g[n + 1] = F[n][g[n]]
  PROVE  \A n \in Nat : g[n] \in P[n]
<1> DEFINE T == {n \in Nat : g[n] \in P[n]}
<1>1. 0 \in T /\ \A n \in Nat : n \in T => n + 1 \in T
  OBVIOUS
<1> HIDE DEF T
<1>2. Nat \subseteq T
  BY <1>1, Induction
<1> QED  BY <1>2 DEF T

(* There is such a g, so that a recursive definition defines one.          *)
LEMMA LoopExists ==
  ASSUME NEW P, NEW F, NEW a \in P[0],
         \A n \in Nat : \A v \in P[n] : F[n][v] \in P[n + 1]
  PROVE  \E g : /\ g = [n \in Nat |-> g[n]] /\ g[0] = a
                /\ \A n \in Nat : g[n] \in P[n] /\ g[n + 1] = F[n][g[n]]
<1> DEFINE Ok(g, n) == /\ g[0] = a /\ g[n] \in P[n]
                       /\ \A k \in 0..(n - 1) : g[k] \in P[k] /\ g[k + 1] = F[k][g[k]]
           T == {n \in Nat : \E g : Ok(g, n)}
<1>1. 0 \in T
  <2>1. Ok([k \in {0} |-> a], 0)
    OBVIOUS
  <2> QED  BY <2>1
<1>2. ASSUME NEW n \in Nat, n \in T  PROVE n + 1 \in T
  <2>1. PICK g : Ok(g, n)
    BY <1>2
  <2> DEFINE h == [k \in 0..(n + 1) |-> IF k <= n THEN g[k] ELSE F[n][g[n]]]
  <2>2. \A k \in 0..n : g[k] \in P[k]
    BY <2>1
  <2>3. (\A k \in 0..n : h[k] = g[k]) /\ h[n + 1] = F[n][g[n]]
    OBVIOUS
  <2>4. h[0] = a /\ h[n + 1] \in P[n + 1]
    BY <2>1, <2>2, <2>3
  <2> HIDE DEF h
  <2>5. ASSUME NEW k \in 0..n  PROVE h[k] \in P[k] /\ h[k + 1] = F[k][h[k]]
    <3>1. CASE k = n
      BY <2>2, <2>3, <3>1
    <3>2. CASE k # n
      <4>1. k \in 0..(n - 1) /\ k + 1 \in 0..n
        BY <3>2
      <4> QED  BY <2>1, <2>3, <4>1
    <3> QED  BY <3>1, <3>2
  <2>6. (n + 1) - 1 = n
    OBVIOUS
  <2>7. Ok(h, n + 1)
    BY <2>4, <2>5, <2>6
  <2> QED  BY <2>7
<1>3. \A n \in Nat : \E g : Ok(g, n)
  <2> HIDE DEF T
  <2>1. Nat \subseteq T
    BY <1>1, <1>2, Induction
  <2> QED  BY <2>1 DEF T
<1>4. ASSUME NEW n \in Nat, NEW g, NEW h, Ok(g, n), Ok(h, n + 1)
      PROVE  g[n] = h[n]
  <2> DEFINE U == {k \in Nat : k <= n => g[k] = h[k]}
  <2>1. 0 \in U
    BY <1>4
  <2>2. ASSUME NEW k \in Nat, k \in U  PROVE k + 1 \in U
    <3>1. CASE k + 1 <= n
      <4>1. k \in 0..(n - 1) /\ k \in 0..((n + 1) - 1) /\ k <= n
        BY <3>1
      <4> QED  BY <1>4, <2>2, <4>1
    <3> QED  BY <3>1
  <2> HIDE DEF U
  <2>3. Nat \subseteq U
    BY <2>1, <2>2, Induction
  <2> QED  BY <2>3 DEF U
<1> DEFINE at(n) == CHOOSE g : Ok(g, n)
           f == [n \in Nat |-> at(n)[n]]
<1>5. \A n \in Nat : Ok(at(n), n)
  BY <1>3
<1>6. ASSUME NEW n \in Nat  PROVE f[n] \in P[n] /\ f[n + 1] = F[n][f[n]]
  <2>1. f[n] = at(n)[n] /\ f[n + 1] = at(n + 1)[n + 1]
    OBVIOUS
  <2>2. Ok(at(n), n) /\ Ok(at(n + 1), n + 1)
    BY <1>5
  <2> HIDE DEF at, f
  <2>3. at(n)[n] = at(n + 1)[n]
    <3> HIDE DEF Ok
    <3> QED  BY <1>4, <2>2
  <2>4. n \in 0..((n + 1) - 1)
    OBVIOUS
  <2> QED  BY <2>1, <2>2, <2>3, <2>4
<1>7. f[0] = a /\ f = [n \in Nat |-> f[n]]
  <2>1. f[0] = at(0)[0] /\ f = [n \in Nat |-> f[n]]
    <3> HIDE DEF at
    <3>1. f[0] = at(0)[0]
      OBVIOUS
    <3>2. \A n \in Nat : f[n] = at(n)[n]
      OBVIOUS
    <3>3. f = [n \in Nat |-> at(n)[n]]
      OBVIOUS
    <3> HIDE DEF f
    <3> QED  BY <3>1, <3>2, <3>3
  <2>2. Ok(at(0), 0)
    BY <1>5
  <2> HIDE DEF at, f
  <2> QED  BY <2>1, <2>2
<1> HIDE DEF f
<1> QED  BY <1>6, <1>7

=============================================================================
