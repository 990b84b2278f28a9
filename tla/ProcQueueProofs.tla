--------------------------- MODULE ProcQueueProofs ---------------------------
(***************************************************************************)
(* What the queue operators of ProcQueue return, for queues over any set   *)
(* of processes.                                                           *)
(***************************************************************************)
EXTENDS ProcQueue, SequenceTheorems, FiniteSetTheorems, WellFoundedInduction,
        TLAPS

(* Induction over a set of numbers.                                        *)
LEMMA Induction ==
  ASSUME NEW T, 0 \in T, \A n \in Nat : n \in T => n + 1 \in T
  PROVE  Nat \subseteq T
<1> SUFFICES ASSUME NEW X, X = Nat \ T, X # {}  PROVE FALSE
  OBVIOUS
<1>1. PICK n \in X : \A k \in X : ~ (<<k, n>> \in OpToRel(<, Nat))
  BY NatLessThanWellFounded, WFMin
<1>2. n \in Nat /\ n # 0 /\ n \notin T /\ \A k \in X : ~ (k < n)
  BY <1>1 DEF OpToRel
<1>3. n - 1 \in Nat /\ n - 1 < n /\ (n - 1) + 1 = n
  BY <1>2
<1>4. n - 1 \in T
  BY <1>2, <1>3
<1> QED  BY <1>2, <1>3, <1>4

(* A queue without duplicates loses exactly its first element to Head.     *)
LEMMA DequeueLemma ==
  ASSUME NEW S, NEW q \in Seq(S), q # <<>>, IsInjective(q)
  PROVE  /\ Head(q) \in Range(q)
         /\ Tail(q) \in Seq(S)
         /\ Range(Tail(q)) = Range(q) \ {Head(q)}
         /\ IsInjective(Tail(q))
<1> DEFINE n == Len(q)
<1>1. n \in Nat \ {0} /\ DOMAIN q = 1..n
  BY EmptySeq, LenProperties
<1>2. /\ Tail(q) \in Seq(S)
      /\ DOMAIN Tail(q) = 1..(n - 1)
      /\ \A i \in 1..(n - 1) : Tail(q)[i] = q[i + 1]
  BY <1>1, HeadTailProperties, LenProperties
<1>3. Head(q) = q[1]
  OBVIOUS
<1>4. Head(q) \in Range(q)
  BY <1>1, <1>3 DEF Range
<1>5. IsInjective(Tail(q))
  BY <1>1, <1>2 DEF IsInjective
<1>6. Range(Tail(q)) \subseteq Range(q) \ {Head(q)}
  BY <1>1, <1>2, <1>3 DEF Range, IsInjective
<1>7. Range(q) \ {Head(q)} \subseteq Range(Tail(q))
  <2> SUFFICES ASSUME NEW i \in 1..n, q[i] # Head(q)
               PROVE  q[i] \in Range(Tail(q))
    BY <1>1 DEF Range
  <2>1. i - 1 \in 1..(n - 1) /\ q[i] = Tail(q)[i - 1]
    BY <1>1, <1>2, <1>3
  <2> QED  BY <1>2, <2>1 DEF Range
<1> QED  BY <1>2, <1>4, <1>5, <1>6, <1>7

(* A process that is not in a queue can be appended to it.                 *)
LEMMA EnqueueLemma ==
  ASSUME NEW S, NEW q \in Seq(S), NEW p \in S
  PROVE  /\ Append(q, p) \in Seq(S)
         /\ Append(q, p) # <<>>
         /\ Range(Append(q, p)) = Range(q) \cup {p}
         /\ p \notin Range(q) /\ IsInjective(q) => IsInjective(Append(q, p))
<1> DEFINE n == Len(q)
           r == Append(q, p)
<1>1. n \in Nat /\ DOMAIN q = 1..n
  BY LenProperties
<1>2. /\ r \in Seq(S)
      /\ r # <<>>
      /\ DOMAIN r = 1..(n + 1)
      /\ \A i \in 1..n : r[i] = q[i]
      /\ r[n + 1] = p
  BY AppendProperties, LenProperties
<1>3. Range(r) = Range(q) \cup {p}
  BY <1>1, <1>2 DEF Range
<1>4. p \notin Range(q) /\ IsInjective(q) => IsInjective(r)
  BY <1>1, <1>2 DEF Range, IsInjective
<1> QED  BY <1>2, <1>3, <1>4

(* A key that is not in a list can be put in front of it.                  *)
LEMMA ConsLemma ==
  ASSUME NEW S, NEW q \in Seq(S), NEW p \in S, p \notin Range(q), IsInjective(q)
  PROVE  /\ <<p>> \o q \in Seq(S)
         /\ Range(<<p>> \o q) = Range(q) \cup {p}
         /\ IsInjective(<<p>> \o q)
<1> DEFINE n == Len(q)
           r == <<p>> \o q
<1>1. n \in Nat /\ DOMAIN q = 1..n
  BY LenProperties
<1>2. <<p>> \in Seq(S) /\ Len(<<p>>) = 1 /\ <<p>>[1] = p
  OBVIOUS
<1>3. /\ r \in Seq(S)
      /\ Len(r) = n + 1
      /\ \A i \in 1..(n + 1) : r[i] = IF i <= 1 THEN p ELSE q[i - 1]
  <2>1. /\ r \in Seq(S)
        /\ Len(r) = Len(<<p>>) + Len(q)
        /\ \A i \in 1..(Len(<<p>>) + Len(q)) :
             r[i] = IF i <= Len(<<p>>) THEN <<p>>[i] ELSE q[i - Len(<<p>>)]
    BY <1>2, ConcatProperties
  <2> QED  BY <1>1, <1>2, <2>1
<1> HIDE DEF r
<1>4. DOMAIN r = 1..(n + 1)
  BY <1>3, LenProperties
<1>5. r[1] = p /\ \A i \in 1..n : i + 1 \in 1..(n + 1) /\ r[i + 1] = q[i]
  BY <1>1, <1>3
<1>6. \A k \in 1..(n + 1) : k = 1 \/ (k - 1 \in 1..n /\ r[k] = q[k - 1])
  BY <1>1, <1>3
<1>7. Range(r) = Range(q) \cup {p}
  <2>1. \A k \in 1..(n + 1) : r[k] = p \/ r[k] \in Range(q)
    BY <1>1, <1>5, <1>6 DEF Range
  <2>2. p \in Range(r) /\ \A i \in 1..n : q[i] \in Range(r)
    BY <1>1, <1>4, <1>5 DEF Range
  <2> QED  BY <1>1, <1>4, <2>1, <2>2 DEF Range
<1>8. IsInjective(r)
  <2> SUFFICES ASSUME NEW j \in 1..(n + 1), NEW k \in 1..(n + 1), r[j] = r[k]
               PROVE  j = k
    BY <1>4 DEF IsInjective
  <2>1. \A i \in 1..n : q[i] # p
    BY <1>1 DEF Range
  <2>2. CASE j = 1 \/ k = 1
    BY <1>5, <1>6, <2>1, <2>2
  <2>3. CASE j # 1 /\ k # 1
    <3>1. j - 1 = k - 1
      BY <1>1, <1>6, <2>3 DEF IsInjective
    <3> QED  BY <1>1, <3>1
  <2> QED  BY <2>2, <2>3
<1> QED  BY <1>3, <1>7, <1>8 DEF r

(* The empty queue.                                                        *)
LEMMA EmptyQueueLemma ==
  ASSUME NEW S, NEW q \in Seq(S)
  PROVE  q = <<>> <=> Range(q) = {}
<1>1. Len(q) \in Nat /\ DOMAIN q = 1..Len(q)
  BY LenProperties
<1>2. q # <<>> => 1 \in DOMAIN q
  BY <1>1, EmptySeq
<1>3. q = <<>> => DOMAIN q = {}
  BY <1>1, EmptySeq
<1> QED  BY <1>2, <1>3 DEF Range

(* insertProcQ always finds a place.                                       *)
LEMMA SlotLemma ==
  ASSUME NEW S, NEW q \in Seq(S), NEW prio, NEW p,
         prio[p] \in Int, \A s \in S : prio[s] \in Int
  PROVE  /\ Slot(q, prio, p) \in 1..(Len(q) + 1)
         /\ IsSlot(q, prio, p, Slot(q, prio, p))
<1> DEFINE n == Len(q)
           T == {i \in 1..(n + 1) : i \in 1..n => prio[q[i]] < prio[p]}
<1>1. n \in Nat /\ DOMAIN q = 1..n /\ \A i \in 1..n : q[i] \in S
  BY LenProperties, ElementOfSeq
<1>2. T \subseteq Nat /\ n + 1 \in T
  BY <1>1
<1> HIDE DEF T
<1>3. PICK i \in T : \A j \in T : ~ (<<j, i>> \in OpToRel(<, Nat))
  BY <1>2, NatLessThanWellFounded, WFMin
<1>4. \A j \in T : ~ (j < i)
  BY <1>2, <1>3 DEF OpToRel
<1>5. i \in 1..(n + 1) /\ IsSlot(q, prio, p, i)
  BY <1>1, <1>4 DEF T, IsSlot
<1> QED  BY <1>5 DEF Slot

(* r is q with p put before the i-th element.                              *)
IsInsertion(S, q, p, i, r) ==
  /\ r \in Seq(S)
  /\ Len(r) = Len(q) + 1
  /\ \A j \in 1..(Len(q) + 1) :
       r[j] = IF j < i THEN q[j] ELSE IF j = i THEN p ELSE q[j - 1]

(* The elements of InsertAt, by position.                                  *)
LEMMA InsertAtLemma ==
  ASSUME NEW S, NEW q \in Seq(S), NEW p \in S, NEW i \in 1..(Len(q) + 1)
  PROVE  IsInsertion(S, q, p, i, InsertAt(q, i, p))
<1> DEFINE n == Len(q)
           a == SubSeq(q, 1, i - 1)
           b == SubSeq(q, i, n)
<1>1. n \in Nat /\ \A j \in 1..n : q[j] \in S
  BY LenProperties, ElementOfSeq
<1>2. /\ a \in Seq(S)
      /\ Len(a) = i - 1
      /\ \A j \in 1..(i - 1) : a[j] = q[j]
  <2>1. 1 \in Int /\ i - 1 \in Int /\ \A j \in 1..(i - 1) : q[j] \in S
    BY <1>1
  <2> HIDE DEF n
  <2>2. /\ SubSeq(q, 1, i - 1) \in Seq(S)
        /\ Len(SubSeq(q, 1, i - 1)) = IF 1 <= i - 1 THEN i - 1 - 1 + 1 ELSE 0
        /\ \A j \in 1..(i - 1 - 1 + 1) :
             SubSeq(q, 1, i - 1)[j] = q[1 + j - 1]
    BY <2>1, SubSeqProperties
  <2> QED  BY <1>1, <2>2
<1>3. /\ b \in Seq(S)
      /\ Len(b) = n + 1 - i
      /\ \A j \in 1..(n + 1 - i) : b[j] = q[i + j - 1]
  <2>1. i \in Int /\ n \in Int /\ \A j \in i..n : q[j] \in S
    BY <1>1
  <2>2. /\ SubSeq(q, i, n) \in Seq(S)
        /\ Len(SubSeq(q, i, n)) = IF i <= n THEN n - i + 1 ELSE 0
        /\ \A j \in 1..(n - i + 1) : SubSeq(q, i, n)[j] = q[i + j - 1]
    BY <2>1, SubSeqProperties
  <2> QED  BY <1>1, <2>2
<1> HIDE DEF a, b
<1>4. <<p>> \in Seq(S) /\ Len(<<p>>) = 1 /\ <<p>>[1] = p
  OBVIOUS
<1>5. /\ a \o <<p>> \in Seq(S)
      /\ Len(a \o <<p>>) = i
      /\ \A j \in 1..i : (a \o <<p>>)[j] = IF j < i THEN q[j] ELSE p
  <2>1. /\ a \o <<p>> \in Seq(S)
        /\ Len(a \o <<p>>) = Len(a) + 1
        /\ \A j \in 1..(Len(a) + 1) :
             (a \o <<p>>)[j] = IF j <= Len(a) THEN a[j] ELSE <<p>>[j - Len(a)]
    BY <1>2, <1>4, ConcatProperties
  <2> QED  BY <1>1, <1>2, <1>4, <2>1
<1> DEFINE c == a \o <<p>>
<1> HIDE DEF c
<1>6. c \in Seq(S) /\ Len(c) = i /\ \A j \in 1..i : c[j] = IF j < i THEN q[j] ELSE p
  BY <1>5 DEF c
<1> DEFINE d == c \o b
<1>7. InsertAt(q, i, p) = d
  BY DEF InsertAt, a, b, c
<1>8. /\ d \in Seq(S)
      /\ Len(d) = n + 1
      /\ \A j \in 1..(n + 1) : d[j] = IF j <= i THEN c[j] ELSE b[j - i]
  <2>1. b \in Seq(S)
    BY <1>3
  <2>2. /\ d \in Seq(S)
        /\ Len(d) = Len(c) + Len(b)
        /\ \A j \in 1..(Len(c) + Len(b)) :
             d[j] = IF j <= Len(c) THEN c[j] ELSE b[j - Len(c)]
    BY <1>6, <2>1, ConcatProperties
  <2> HIDE DEF d, n
  <2>3. Len(c) = i /\ Len(c) + Len(b) = n + 1
    BY <1>1, <1>3, <1>6
  <2> QED  BY <2>2, <2>3
<1> HIDE DEF d, n
<1>9. \A j \in 1..(n + 1) :
        d[j] = IF j < i THEN q[j] ELSE IF j = i THEN p ELSE q[j - 1]
  <2> TAKE j \in 1..(n + 1)
  <2>0. i \in 1..(n + 1)
    BY DEF n
  <2>1. CASE j <= i
    <3>1. d[j] = c[j]
      BY <1>8, <2>1
    <3>2. c[j] = IF j < i THEN q[j] ELSE p
      BY <1>1, <1>6, <2>0, <2>1
    <3> QED  BY <1>1, <2>0, <2>1, <3>1, <3>2
  <2>2. CASE ~ (j <= i)
    <3>1. j - i \in 1..(n + 1 - i) /\ i + (j - i) - 1 = j - 1
      BY <1>1, <2>0, <2>2
    <3>2. b[j - i] = q[j - 1]
      BY <1>3, <3>1
    <3>3. d[j] = b[j - i]
      BY <1>8, <2>2
    <3>4. ~ (j < i) /\ j # i
      BY <1>1, <2>0, <2>2
    <3> QED  BY <3>2, <3>3, <3>4
  <2> QED  BY <2>1, <2>2
<1> QED  BY <1>7, <1>8, <1>9 DEF n, IsInsertion

(* insertProcQ adds p and nothing else.                                    *)
LEMMA InsertProcQLemma ==
  ASSUME NEW S, NEW q \in Seq(S), NEW p \in S, NEW prio,
         \A s \in S : prio[s] \in Int
  PROVE  /\ InsertProcQ(q, prio, p) \in Seq(S)
         /\ InsertProcQ(q, prio, p) # <<>>
         /\ Range(InsertProcQ(q, prio, p)) = Range(q) \cup {p}
         /\ p \notin Range(q) /\ IsInjective(q)
              => IsInjective(InsertProcQ(q, prio, p))
<1> DEFINE n == Len(q)
           i == Slot(q, prio, p)
           r == InsertProcQ(q, prio, p)
<1>1. n \in Nat /\ DOMAIN q = 1..n
  BY LenProperties
<1>2. i \in 1..(n + 1)
  BY SlotLemma
<1> HIDE DEF i
<1>3. /\ r \in Seq(S)
      /\ Len(r) = n + 1
      /\ \A j \in 1..(n + 1) :
           r[j] = IF j < i THEN q[j] ELSE IF j = i THEN p ELSE q[j - 1]
  <2>1. r = InsertAt(q, i, p)
    BY DEF InsertProcQ, i
  <2>2. IsInsertion(S, q, p, i, InsertAt(q, i, p))
    BY <1>2, InsertAtLemma
  <2> HIDE DEF r
  <2> QED  BY <2>1, <2>2 DEF IsInsertion
<1> HIDE DEF r
<1>4. DOMAIN r = 1..(n + 1)
  BY <1>3, LenProperties
<1>5. \A j \in 1..n : \E k \in 1..(n + 1) : r[k] = q[j]
  <2> TAKE j \in 1..n
  <2>1. CASE j < i
    BY <1>1, <1>2, <1>3, <2>1
  <2>2. CASE j >= i
    <3>1. j + 1 \in 1..(n + 1) /\ ~ (j + 1 < i) /\ j + 1 # i /\ (j + 1) - 1 = j
      BY <1>1, <1>2, <2>2
    <3>2. r[j + 1] = q[j]
      BY <1>3, <3>1
    <3> QED  BY <3>1, <3>2
  <2> QED  BY <1>1, <1>2, <2>1, <2>2
<1>6. \A k \in 1..(n + 1) : k # i => \E j \in 1..n : r[k] = q[j]
  <2> SUFFICES ASSUME NEW k \in 1..(n + 1), k # i
               PROVE  \E j \in 1..n : r[k] = q[j]
    OBVIOUS
  <2>1. CASE k < i
    BY <1>1, <1>2, <1>3, <2>1
  <2>2. CASE k > i
    <3>1. k - 1 \in 1..n /\ ~ (k < i)
      BY <1>1, <1>2, <2>2
    <3>2. r[k] = q[k - 1]
      BY <1>3, <3>1
    <3> QED  BY <3>1, <3>2
  <2> QED  BY <1>1, <1>2, <2>1, <2>2
<1>7. r[i] = p
  BY <1>1, <1>2, <1>3
<1>8. Range(r) = Range(q) \cup {p}
  <2>1. \A k \in 1..(n + 1) : r[k] = p \/ \E j \in 1..n : r[k] = q[j]
    BY <1>6, <1>7
  <2>2. p \in Range(r) /\ \A j \in 1..n : q[j] \in Range(r)
    BY <1>2, <1>4, <1>5, <1>7 DEF Range
  <2> QED  BY <1>1, <1>4, <2>1, <2>2 DEF Range
<1>9. r # <<>>
  BY <1>2, <1>3, <1>4, <1>7, <1>8, EmptyQueueLemma
<1>10. p \notin Range(q) /\ IsInjective(q) => IsInjective(r)
  <2> SUFFICES ASSUME \A j \in 1..n : q[j] # p,
                      \A j, k \in 1..n : q[j] = q[k] => j = k,
                      NEW j \in 1..(n + 1), NEW k \in 1..(n + 1), r[j] = r[k]
               PROVE  j = k
    BY <1>1, <1>4 DEF Range, IsInjective
  <2>1. CASE j = i \/ k = i
    BY <1>6, <1>7, <2>1
  <2>2. CASE j # i /\ k # i
    <3> DEFINE old(m) == IF m < i THEN m ELSE m - 1
    <3>1. old(j) \in 1..n /\ old(k) \in 1..n
      BY <1>1, <1>2, <2>2
    <3>2. r[j] = q[old(j)] /\ r[k] = q[old(k)]
      BY <1>3, <2>2
    <3>3. old(j) = old(k)
      BY <3>1, <3>2
    <3> QED  BY <1>1, <1>2, <2>2, <3>3
  <2> QED  BY <2>1, <2>2
<1> QED  BY <1>3, <1>8, <1>9, <1>10 DEF r

(* The first of two positions has the smaller rank.                        *)
LEMMA RankLemma ==
  ASSUME NEW I, IsFiniteSet(I), I \subseteq Nat, NEW i \in I
  PROVE  /\ Rank(I, i) \in 0..(Cardinality(I) - 1)
         /\ \A j \in I : i < j => Rank(I, i) < Rank(I, j)
<1> DEFINE B(j) == {k \in I : k < j}
<1>1. Cardinality(I) \in Nat
  BY FS_CardinalityType
<1>2. \A j \in I : IsFiniteSet(B(j)) /\ Cardinality(B(j)) \in Nat
  <2> TAKE j \in I
  <2>1. B(j) \in SUBSET I
    OBVIOUS
  <2> QED  BY <2>1, FS_Subset, FS_CardinalityType
<1>3. Cardinality(B(i)) # Cardinality(I) /\ Cardinality(B(i)) <= Cardinality(I)
  <2>1. B(i) \in SUBSET I /\ B(i) # I
    <3>1. i \in I /\ i \notin B(i)
      OBVIOUS
    <3> QED  BY <3>1
  <2> QED  BY <2>1, FS_Subset
<1>4. \A j \in I : i < j => Cardinality(B(i)) < Cardinality(B(j))
  <2> SUFFICES ASSUME NEW j \in I, i < j
               PROVE  Cardinality(B(i)) < Cardinality(B(j))
    OBVIOUS
  <2>1. B(i) \in SUBSET B(j) /\ i \in B(j) /\ i \notin B(i)
    <3>1. \A k \in I : k < i => k < j
      OBVIOUS
    <3>2. ~ (i < i)
      OBVIOUS
    <3>3. i \in B(j) /\ i \notin B(i)
      BY <3>2
    <3> QED  BY <3>1, <3>3
  <2>2. Cardinality(B(i)) <= Cardinality(B(j))
        /\ (Cardinality(B(j)) = Cardinality(B(i)) => B(j) = B(i))
    BY <1>2, <2>1, FS_Subset
  <2>3. Cardinality(B(i)) # Cardinality(B(j))
    BY <2>1, <2>2
  <2> QED  BY <1>2, <2>2, <2>3
<1> QED  BY <1>1, <1>2, <1>3, <1>4 DEF Rank

(* Without(q, K) is q less the members of K, without new duplicates.       *)
LEMMA WithoutLemma ==
  ASSUME NEW S, NEW q \in Seq(S), NEW K
  PROVE  /\ Without(q, K) \in Seq(S)
         /\ Range(Without(q, K)) = Range(q) \ K
         /\ IsInjective(q) => IsInjective(Without(q, K))
<1> DEFINE I == Kept(q, K)
           n == Cardinality(I)
           r == Without(q, K)
           at(j) == CHOOSE i \in I : Rank(I, i) = j - 1
<1>1. Len(q) \in Nat /\ DOMAIN q = 1..Len(q) /\ \A i \in 1..Len(q) : q[i] \in S
  BY LenProperties, ElementOfSeq
<1>2. I \in SUBSET (1..Len(q)) /\ I \subseteq Nat
  BY <1>1 DEF Kept
<1>3. IsFiniteSet(I) /\ n \in Nat
  <2>1. IsFiniteSet(1..Len(q))
    BY <1>1, FS_Interval
  <2> HIDE DEF I
  <2>2. IsFiniteSet(I)
    BY <1>2, <2>1, FS_Subset
  <2> QED  BY <2>2, FS_CardinalityType
<1>4. \A i \in I : Rank(I, i) \in 0..(n - 1)
  BY <1>2, <1>3, RankLemma
<1>5. \A i, k \in I : Rank(I, i) = Rank(I, k) => i = k
  <2> SUFFICES ASSUME NEW i \in I, NEW k \in I, Rank(I, i) = Rank(I, k)
               PROVE  i = k
    OBVIOUS
  <2> HIDE DEF I
  <2>1. i < k => Rank(I, i) < Rank(I, k)
    BY <1>2, <1>3, RankLemma
  <2>2. k < i => Rank(I, k) < Rank(I, i)
    BY <1>2, <1>3, RankLemma
  <2>3. i \in Nat /\ k \in Nat /\ Rank(I, i) \in Int
    BY <1>2, <1>3, <1>4
  <2> QED  BY <2>1, <2>2, <2>3
<1> HIDE DEF I
<1>6. \A j \in 1..n : \E i \in I : Rank(I, i) = j - 1
  <2> DEFINE f == [i \in I |-> Rank(I, i)]
             T == 0..(n - 1)
  <2>1. f \in Injection(I, T)
    BY <1>4, <1>5 DEF Injection, IsInjective
  <2>2. IsFiniteSet(T) /\ Cardinality(T) = n
    <3>1. n \in Nat /\ 0 \in Int /\ n - 1 \in Int
      BY <1>3
    <3> HIDE DEF n
    <3>2. IsFiniteSet(T) /\ Cardinality(T) = IF 0 > n - 1 THEN 0 ELSE n - 1 - 0 + 1
      BY <3>1, FS_Interval
    <3> QED  BY <3>1, <3>2
  <2> HIDE DEF f, T
  <2>3. f \in Surjection(I, T)
    BY <2>1, <2>2, FS_Injection
  <2>4. \A t \in T : \E i \in I : f[i] = t
    BY <2>3 DEF Surjection
  <2> QED  BY <1>3, <2>4 DEF f, T
<1>7. \A j \in 1..n : at(j) \in I /\ Rank(I, at(j)) = j - 1
  BY <1>6
<1>8. r = [j \in 1..n |-> q[at(j)]]
  BY DEF Without, I
<1> HIDE DEF at, r
<1>9. \A j \in 1..n : q[at(j)] \in S
  BY <1>1, <1>2, <1>7
<1>10. r \in Seq(S) /\ DOMAIN r = 1..n
  <2>1. r \in [1..n -> S]
    BY <1>8, <1>9
  <2> QED  BY <1>3, <2>1, SeqDef
<1>11. Range(r) \subseteq Range(q) \ K
  <2> SUFFICES ASSUME NEW j \in 1..n  PROVE r[j] \in Range(q) \ K
    BY <1>10 DEF Range
  <2>1. r[j] = q[at(j)] /\ at(j) \in I
    BY <1>7, <1>8
  <2> QED  BY <2>1 DEF Range, I, Kept
<1>12. Range(q) \ K \subseteq Range(r)
  <2> SUFFICES ASSUME NEW i \in I  PROVE q[i] \in Range(r)
    BY DEF Range, I, Kept
  <2>1. Rank(I, i) + 1 \in 1..n
    BY <1>3, <1>4
  <2>2. at(Rank(I, i) + 1) = i
    <3>1. Rank(I, at(Rank(I, i) + 1)) = Rank(I, i) /\ at(Rank(I, i) + 1) \in I
      BY <1>4, <1>7, <2>1
    <3> QED  BY <1>5, <3>1
  <2> QED  BY <1>8, <1>10, <2>1, <2>2 DEF Range
<1>13. IsInjective(q) => IsInjective(r)
  <2> SUFFICES ASSUME IsInjective(q), NEW j \in 1..n, NEW k \in 1..n, r[j] = r[k]
               PROVE  j = k
    BY <1>10 DEF IsInjective
  <2>1. at(j) = at(k)
    BY <1>1, <1>2, <1>7, <1>8 DEF IsInjective
  <2>2. j - 1 = k - 1
    BY <1>7, <2>1
  <2> QED  BY <1>3, <2>2
<1> QED  BY <1>10, <1>11, <1>12, <1>13 DEF r

(* A clock tick merges the waiters into the ready queue and loses nobody.  *)
LEMMA WakeupsLemma ==
  ASSUME NEW S, NEW q \in Seq(S), NEW w \in Seq(S), NEW prio,
         IsFiniteSet(S), NEW r \in Wakeups(q, prio, w)
  PROVE  /\ r \in Seq(S)
         /\ Range(r) = Range(q) \cup Range(w)
         /\ IsInjective(r)
<1> DEFINE T == Range(q) \cup Range(w)
           n == Cardinality(T)
<1>1. T \in SUBSET S
  BY RangeOfSeq
<1>2. IsFiniteSet(T) /\ n \in Nat
  BY <1>1, FS_Subset, FS_CardinalityType
<1>3. r \in [1..n -> T] /\ \A i, j \in 1..n : i # j => r[i] # r[j]
  BY DEF Wakeups, SetToSeqs
<1>4. IsInjective(r) /\ r \in Injection(1..n, T)
  BY <1>3 DEF IsInjective, Injection
<1>5. IsFiniteSet(1..n) /\ Cardinality(1..n) = n
  BY <1>2, FS_Interval
<1> HIDE DEF T
<1>6. r \in Surjection(1..n, T)
  BY <1>2, <1>4, <1>5, FS_Injection
<1>7. Range(r) = T
  BY <1>3, <1>6 DEF Surjection, Range
<1>8. r \in Seq(S)
  <2>1. r \in [1..n -> S]
    BY <1>1, <1>3
  <2> QED  BY <1>2, <2>1, SeqDef
<1> QED  BY <1>4, <1>7, <1>8 DEF T

(* An injective queue is as long as it has members.                        *)
LEMMA QueueLength ==
  ASSUME NEW S, NEW q \in Seq(S), IsInjective(q)
  PROVE  Len(q) = Cardinality(Range(q))
<1> DEFINE n == Len(q)
           R == Range(q)
<1>1. n \in Nat /\ DOMAIN q = 1..n /\ q \in [1..n -> S]
  BY LenProperties
<1>2. R = {q[i] : i \in 1..n}
  BY <1>1 DEF Range
<1>3. IsFiniteSet(1..n) /\ Cardinality(1..n) = n
  BY <1>1, FS_Interval
<1> HIDE DEF n, R
<1>4. q \in [1..n -> R] /\ \A x \in R : \E i \in 1..n : q[i] = x
  BY <1>1, <1>2
<1>5. q \in Surjection(1..n, R)
  BY <1>4 DEF Surjection
<1>6. q \in Injection(1..n, R)
  BY <1>1, <1>4 DEF Injection
<1>7. n = Cardinality(R)
  BY <1>3, <1>5, <1>6, FS_Surjection
<1> QED  BY <1>7 DEF n, R

(* r is q without its i-th element.                                        *)
IsRemoval(S, q, i, r) ==
  /\ r \in Seq(S)
  /\ Len(r) = Len(q) - 1
  /\ \A j \in 1..(Len(q) - 1) : r[j] = IF j < i THEN q[j] ELSE q[j + 1]

(* Without(q, {p}) when p is the i-th element ...                          *)
LEMMA WithoutOne ==
  ASSUME NEW S, NEW q \in Seq(S), IsInjective(q), NEW i \in 1..Len(q)
  PROVE  IsRemoval(S, q, i, Without(q, {q[i]}))
<1> DEFINE n == Len(q)
           I == Kept(q, {q[i]})
           old(j) == IF j < i THEN j ELSE j + 1
<1>1. n \in Nat /\ DOMAIN q = 1..n /\ i \in 1..n
  BY LenProperties
<1>2. I = {j \in 1..n : j # i}
  BY <1>1 DEF Kept, IsInjective
<1>3. IsFiniteSet(I) /\ Cardinality(I) = n - 1
  <2>1. IsFiniteSet(1..n) /\ Cardinality(1..n) = n
    BY <1>1, FS_Interval
  <2>2. I = (1..n) \ {i}
    BY <1>2
  <2>3. IsFiniteSet((1..n) \ {i}) /\ Cardinality((1..n) \ {i}) = Cardinality(1..n) - 1
    BY <1>1, <2>1, FS_RemoveElement
  <2> QED  BY <2>1, <2>2, <2>3
<1> HIDE DEF n, I
<1>4. \A j \in 1..n : j # i => Rank(I, j) = IF j < i THEN j - 1 ELSE j - 2
  <2> SUFFICES ASSUME NEW j \in 1..n, j # i
               PROVE  Rank(I, j) = IF j < i THEN j - 1 ELSE j - 2
    OBVIOUS
  <2>1. \A a \in 1..n : IsFiniteSet(1..(a - 1)) /\ Cardinality(1..(a - 1)) = a - 1
    <3> SUFFICES ASSUME NEW a \in 1..n
                 PROVE  IsFiniteSet(1..(a - 1)) /\ Cardinality(1..(a - 1)) = a - 1
      OBVIOUS
    <3>1. 1 \in Int /\ a - 1 \in Int /\ a >= 1
      BY <1>1
    <3>2. /\ IsFiniteSet(1..(a - 1))
          /\ Cardinality(1..(a - 1)) = IF 1 > a - 1 THEN 0 ELSE (a - 1) - 1 + 1
      BY <3>1, FS_Interval
    <3> QED  BY <3>1, <3>2
  <2>2. CASE j < i
    <3>1. {k \in I : k < j} = 1..(j - 1)
      BY <1>1, <1>2, <2>2
    <3> QED  BY <2>1, <2>2, <3>1 DEF Rank
  <2>3. CASE j > i
    <3>1. {k \in I : k < j} = (1..(j - 1)) \ {i}
      BY <1>1, <1>2, <2>3
    <3>2. i \in 1..(j - 1)
      BY <1>1, <2>3
    <3>3. Cardinality((1..(j - 1)) \ {i}) = (j - 1) - 1
      BY <2>1, <3>2, FS_RemoveElement
    <3>4. Rank(I, j) = (j - 1) - 1
      BY <3>1, <3>3 DEF Rank
    <3>5. (j - 1) - 1 = j - 2 /\ ~(j < i)
      BY <1>1, <2>3
    <3> QED  BY <3>4, <3>5
  <2> QED  BY <1>1, <2>2, <2>3
<1>5. \A j \in 1..(n - 1) : (CHOOSE k \in I : Rank(I, k) = j - 1) = old(j)
  <2> SUFFICES ASSUME NEW j \in 1..(n - 1)
               PROVE  (CHOOSE k \in I : Rank(I, k) = j - 1) = old(j)
    OBVIOUS
  <2>1. old(j) \in I /\ Rank(I, old(j)) = j - 1
    <3>1. old(j) \in 1..n /\ old(j) # i
      BY <1>1
    <3>2. Rank(I, old(j)) = IF old(j) < i THEN old(j) - 1 ELSE old(j) - 2
      <4> HIDE DEF old
      <4> QED  BY <1>4, <3>1
    <3>3. old(j) \in I
      <4> HIDE DEF old
      <4> QED  BY <1>2, <3>1
    <3>4. CASE j < i
      BY <1>1, <3>2, <3>3, <3>4
    <3>5. CASE ~(j < i)
      <4>1. old(j) = j + 1 /\ ~(j + 1 < i) /\ (j + 1) - 2 = j - 1
        BY <1>1, <3>5
      <4> QED  BY <3>2, <3>3, <4>1
    <3> QED  BY <3>4, <3>5
  <2>2. ASSUME NEW k \in I, Rank(I, k) = j - 1  PROVE k = old(j)
    <3>1. k \in 1..n /\ k # i
      BY <1>2
    <3>2. Rank(I, k) = IF k < i THEN k - 1 ELSE k - 2
      BY <1>4, <3>1
    <3> HIDE DEF I
    <3> QED  BY <1>1, <2>2, <3>1, <3>2
  <2> HIDE DEF I, old
  <2> QED  BY <2>1, <2>2
<1> DEFINE r == Without(q, {q[i]})
           at(j) == CHOOSE k \in I : Rank(I, k) = j - 1
<1>6. r = [j \in 1..(n - 1) |-> q[at(j)]]
  BY <1>3 DEF Without, I
<1>7. \A j \in 1..(n - 1) : r[j] = IF j < i THEN q[j] ELSE q[j + 1]
  <2> SUFFICES ASSUME NEW j \in 1..(n - 1)
               PROVE  r[j] = IF j < i THEN q[j] ELSE q[j + 1]
    OBVIOUS
  <2>1. at(j) = IF j < i THEN j ELSE j + 1
    BY <1>5
  <2> HIDE DEF at, r, I, n
  <2>2. r[j] = q[at(j)]
    BY <1>6
  <2> QED  BY <2>1, <2>2
<1>8. r \in Seq(S) /\ Len(r) = n - 1
  <2>1. r \in Seq(S)
    BY WithoutLemma
  <2>2. DOMAIN r = 1..(n - 1) /\ n - 1 \in Nat
    BY <1>1, <1>6
  <2> HIDE DEF r, n
  <2> QED  BY <2>1, <2>2, LenProperties
<1> QED  BY <1>7, <1>8 DEF IsRemoval, n

(* ... and when it is none.                                                *)
LEMMA WithoutNone ==
  ASSUME NEW S, NEW q \in Seq(S), NEW p, p \notin Range(q)
  PROVE  Without(q, {p}) = q
<1> DEFINE n == Len(q)
           I == Kept(q, {p})
<1>1. n \in Nat /\ DOMAIN q = 1..n /\ q = [j \in 1..n |-> q[j]]
  BY LenProperties
<1>2. I = 1..n
  BY <1>1 DEF Kept, Range
<1>3. Cardinality(1..n) = n
  BY <1>1, FS_Interval
<1>4. \A j \in 1..n : Rank(1..n, j) = j - 1
  <2> SUFFICES ASSUME NEW j \in 1..n  PROVE Rank(1..n, j) = j - 1
    OBVIOUS
  <2>1. {k \in 1..n : k < j} = 1..(j - 1)
    BY <1>1
  <2>2. j \in Int /\ j - 1 \in Int /\ j >= 1
    BY <1>1
  <2>3. Cardinality(1..(j - 1)) = j - 1
    BY <2>2, FS_Interval
  <2> QED  BY <2>1, <2>3 DEF Rank
<1> DEFINE at(j) == CHOOSE k \in I : Rank(I, k) = j - 1
<1>5. \A j \in 1..n : at(j) = j
  <2> SUFFICES ASSUME NEW j \in 1..n  PROVE at(j) = j
    OBVIOUS
  <2>1. \A k \in 1..n : Rank(1..n, k) = j - 1 <=> k = j
    BY <1>1, <1>4
  <2> HIDE DEF n, I
  <2> QED  BY <1>2, <2>1
<1>6. Without(q, {p}) = [j \in 1..n |-> q[at(j)]]
  <2>1. Without(q, {p}) = [j \in 1..Cardinality(I) |-> q[at(j)]]
    BY DEF Without
  <2> HIDE DEF at, I, n
  <2> QED  BY <1>2, <1>3, <2>1
<1> HIDE DEF at, n
<1> QED  BY <1>1, <1>5, <1>6

(* Without the first item of an injective queue, the tail is left.         *)
LEMMA WithoutHead ==
  ASSUME NEW S, NEW q \in Seq(S), q # <<>>, IsInjective(q)
  PROVE  Without(q, {Head(q)}) = Tail(q)
<1> DEFINE n == Len(q)
           I == Kept(q, {Head(q)})
<1>1. n \in Nat \ {0} /\ DOMAIN q = 1..n /\ Head(q) = q[1]
  BY EmptySeq, LenProperties
<1>2. Len(Tail(q)) = n - 1 /\ \A j \in 1..(n - 1) : Tail(q)[j] = q[j + 1]
  BY HeadTailProperties
<1>3. I = 2..n
  <2>1. 1 \in DOMAIN q /\ \A i \in DOMAIN q : q[i] = q[1] => i = 1
    BY <1>1 DEF IsInjective
  <2>2. I = {i \in 1..n : i # 1}
    BY <1>1, <2>1 DEF Kept
  <2>3. {i \in 1..n : i # 1} = 2..n
    BY <1>1
  <2> QED  BY <2>2, <2>3
<1>4. IsFiniteSet(I) /\ Cardinality(I) = n - 1
  BY <1>1, <1>3, FS_Interval
<1>5. \A i \in 2..n : Rank(I, i) = i - 2
  <2> SUFFICES ASSUME NEW i \in 2..n PROVE Rank(I, i) = i - 2
    OBVIOUS
  <2>1. {k \in I : k < i} = 2..(i - 1)
    BY <1>1, <1>3
  <2>2. i \in Int /\ i >= 2
    BY <1>1
  <2>3. Cardinality(2..(i - 1)) = i - 2
    BY <2>2, FS_Interval
  <2> QED  BY <2>1, <2>3 DEF Rank
<1>6. \A j \in 1..(n - 1) : (CHOOSE i \in I : Rank(I, i) = j - 1) = j + 1
  <2> SUFFICES ASSUME NEW j \in 1..(n - 1)
               PROVE  (CHOOSE i \in I : Rank(I, i) = j - 1) = j + 1
    OBVIOUS
  <2>1. j \in Int /\ j + 1 \in 2..n
    BY <1>1
  <2>2. \A i \in 2..n : i - 2 = j - 1 <=> i = j + 1
    BY <2>1
  <2> HIDE DEF I
  <2>3. j + 1 \in I /\ \A i \in I : Rank(I, i) = j - 1 <=> i = j + 1
    BY <1>3, <1>5, <2>1, <2>2
  <2> QED  BY <2>3
<1>7. Without(q, {Head(q)}) = [j \in 1..(n - 1) |-> q[j + 1]]
  <2> DEFINE at(j) == CHOOSE i \in I : Rank(I, i) = j - 1
  <2>1. Without(q, {Head(q)}) = [j \in 1..(n - 1) |-> q[at(j)]]
    BY <1>4 DEF Without
  <2>2. \A j \in 1..(n - 1) : at(j) = j + 1
    BY <1>6
  <2> HIDE DEF at
  <2> QED  BY <2>1, <2>2
<1>8. Tail(q) = [j \in 1..(n - 1) |-> q[j + 1]]
  <2>1. Tail(q) \in Seq(S)
    BY HeadTailProperties
  <2>2. DOMAIN Tail(q) = 1..(n - 1)
    BY <2>1, <1>2, LenProperties
  <2> QED  BY <2>1, <2>2, <1>2, LenProperties
<1> QED  BY <1>7, <1>8

(* Without all of them, nothing is left.                                   *)
LEMMA WithoutAll ==
  ASSUME NEW S, NEW q \in Seq(S)
  PROVE  Without(q, Range(q)) = <<>>
<1>1. Without(q, Range(q)) \in Seq(S) /\ Range(Without(q, Range(q))) = {}
  BY WithoutLemma
<1> QED  BY <1>1, EmptyQueueLemma

(* The position at which insertProcQ inserts is the only such position.    *)
LEMMA SlotIsUnique ==
  ASSUME NEW S, NEW q \in Seq(S), NEW prio, NEW p,
         prio[p] \in Int, \A s \in S : prio[s] \in Int,
         NEW i \in 1..(Len(q) + 1), IsSlot(q, prio, p, i)
  PROVE  Slot(q, prio, p) = i
<1>1. Len(q) \in Nat /\ DOMAIN q = 1..Len(q) /\ \A j \in 1..Len(q) : q[j] \in S
  BY LenProperties, ElementOfSeq
<1>2. PICK k \in 1..(Len(q) + 1) : k = Slot(q, prio, p) /\ IsSlot(q, prio, p, k)
  BY SlotLemma
<1>3. ~ (k < i)
  <2> SUFFICES ASSUME k < i PROVE FALSE
    OBVIOUS
  <2>1. k \in 1..(i - 1) /\ k \in DOMAIN q
    BY <1>1
  <2>2. prio[q[k]] >= prio[p] /\ prio[q[k]] < prio[p] /\ q[k] \in S
    BY <1>1, <1>2, <2>1 DEF IsSlot
  <2> QED  BY <2>2
<1>4. ~ (i < k)
  <2> SUFFICES ASSUME i < k PROVE FALSE
    OBVIOUS
  <2>1. i \in 1..(k - 1) /\ i \in DOMAIN q
    BY <1>1
  <2>2. prio[q[i]] >= prio[p] /\ prio[q[i]] < prio[p] /\ q[i] \in S
    BY <1>1, <1>2, <2>1 DEF IsSlot
  <2> QED  BY <2>2
<1> QED  BY <1>1, <1>2, <1>3, <1>4

(* In an injective queue each item has one position.                       *)
LEMMA PosLemma ==
  ASSUME NEW q, IsInjective(q), NEW i \in DOMAIN q PROVE Pos(q, q[i]) = i
<1>1. \A j \in DOMAIN q : q[j] = q[i] => j = i
  BY DEF IsInjective
<1> QED  BY <1>1 DEF Pos

(* What is left of a queue keeps its order.                                *)
LEMMA WithoutOrder ==
  ASSUME NEW S, NEW q \in Seq(S), IsInjective(q), NEW K,
         NEW p \in Range(q) \ K, NEW x \in Range(q) \ K
  PROVE  Pos(Without(q, K), p) < Pos(Without(q, K), x) <=> Pos(q, p) < Pos(q, x)
<1> DEFINE I == Kept(q, K)
           n == Cardinality(I)
           r == Without(q, K)
           at(j) == CHOOSE i \in I : Rank(I, i) = j - 1
<1>1. Len(q) \in Nat /\ DOMAIN q = 1..Len(q)
  BY LenProperties
<1>2. I \in SUBSET (1..Len(q)) /\ I \subseteq Nat
  BY <1>1 DEF Kept
<1>3. IsFiniteSet(I) /\ n \in Nat
  <2>1. IsFiniteSet(1..Len(q))
    BY <1>1, FS_Interval
  <2> HIDE DEF I
  <2>2. IsFiniteSet(I)
    BY <1>2, <2>1, FS_Subset
  <2> QED  BY <2>2, FS_CardinalityType
<1>4. r \in Seq(S) /\ Range(r) = Range(q) \ K /\ IsInjective(r)
  BY WithoutLemma
<1>5. r = [j \in 1..n |-> q[at(j)]]
  BY DEF Without, I
<1> HIDE DEF I, r
<1>6. \A i \in I : /\ Rank(I, i) \in 0..(n - 1)
                   /\ \A k \in I : i < k => Rank(I, i) < Rank(I, k)
  BY <1>2, <1>3, RankLemma
<1>7. \A i \in I : at(Rank(I, i) + 1) = i
  <2> TAKE i \in I
  <2> DEFINE j == Rank(I, i) + 1
  <2>1. j - 1 = Rank(I, i)
    BY <1>6
  <2>2. \A k \in I : Rank(I, k) = Rank(I, i) => k = i
    <3> TAKE k \in I
    <3>1. i \in Nat /\ k \in Nat /\ Rank(I, i) \in Int
      BY <1>2, <1>6
    <3>2. i < k => Rank(I, i) < Rank(I, k)
      BY <1>6
    <3>3. k < i => Rank(I, k) < Rank(I, i)
      BY <1>6
    <3> QED  BY <3>1, <3>2, <3>3
  <2> HIDE DEF j
  <2>3. \A k \in I : Rank(I, k) = j - 1 <=> k = i
    BY <2>1, <2>2
  <2>4. at(j) = i
    BY <2>3
  <2> QED  BY <2>4 DEF j
<1> HIDE DEF at, n
<1>8. \A i \in I : Pos(q, q[i]) = i /\ Pos(r, q[i]) = Rank(I, i) + 1
  <2> TAKE i \in I
  <2>1. Pos(q, q[i]) = i
    BY <1>1, <1>2, PosLemma
  <2>2. Rank(I, i) + 1 \in 1..n
    BY <1>3, <1>6
  <2>3. r[Rank(I, i) + 1] = q[i] /\ Rank(I, i) + 1 \in DOMAIN r
    BY <1>5, <1>7, <2>2
  <2>4. Pos(r, r[Rank(I, i) + 1]) = Rank(I, i) + 1
    BY <1>4, <2>3, PosLemma
  <2> QED  BY <2>1, <2>3, <2>4
<1>9. \A y \in Range(q) \ K : \E i \in I : y = q[i]
  BY DEF Range, I, Kept
<1>10. PICK i \in I : p = q[i]
  BY <1>9
<1>11. PICK k \in I : x = q[k]
  BY <1>9
<1>12. (i < k => Rank(I, i) < Rank(I, k)) /\ (k < i => Rank(I, k) < Rank(I, i))
  BY <1>6
<1>13. Rank(I, i) \in Int /\ Rank(I, k) \in Int /\ i \in Int /\ k \in Int
  BY <1>2, <1>6
<1>14. Rank(I, i) + 1 < Rank(I, k) + 1 <=> i < k
  BY <1>12, <1>13
<1> QED  BY <1>8, <1>10, <1>11, <1>14 DEF r

(* An item of a queue is at its position.                                  *)
LEMMA PosType ==
  ASSUME NEW S, NEW q \in Seq(S), NEW x \in Range(q)
  PROVE  Pos(q, x) \in 1..Len(q) /\ Len(q) \in Nat /\ q[Pos(q, x)] = x
<1>1. Len(q) \in Nat /\ DOMAIN q = 1..Len(q)
  BY LenProperties
<1>2. \E i \in DOMAIN q : q[i] = x
  BY DEF Range
<1> QED  BY <1>1, <1>2 DEF Pos

(* A strictly increasing function does not fall behind.                    *)
LEMMA Increasing ==
  ASSUME NEW n \in Nat, NEW f, \A i \in 1..n : f[i] \in Nat \ {0},
         \A i, j \in 1..n : i < j => f[i] < f[j]
  PROVE  \A i \in 1..n : i <= f[i]
<1> DEFINE T == {i \in Nat : i \in 1..n => i <= f[i]}
<1>1. 0 \in T
  OBVIOUS
<1>2. ASSUME NEW i \in Nat, i \in T  PROVE i + 1 \in T
  <2>1. CASE i = 0
    BY <2>1
  <2>2. CASE i # 0 /\ i + 1 \in 1..n
    <3>1. i \in 1..n /\ i < i + 1
      BY <2>2
    <3>2. i <= f[i] /\ f[i] < f[i + 1] /\ f[i] \in Nat /\ f[i + 1] \in Nat
      BY <1>2, <2>2, <3>1
    <3> QED  BY <3>1, <3>2
  <2> QED  BY <2>1, <2>2
<1> HIDE DEF T
<1>3. Nat \subseteq T
  BY <1>1, <1>2, Induction
<1> QED  BY <1>3 DEF T

(* Injective queues of the same items in the same order are the same.      *)
LEMMA SameOrder ==
  ASSUME NEW S, NEW q \in Seq(S), NEW r \in Seq(S), IsInjective(q), IsInjective(r),
         Range(q) = Range(r),
         \A x, y \in Range(q) : Pos(q, x) < Pos(q, y) <=> Pos(r, x) < Pos(r, y)
  PROVE  q = r
<1>1. /\ Len(q) \in Nat /\ DOMAIN q = 1..Len(q) /\ q = [i \in 1..Len(q) |-> q[i]]
      /\ Len(r) \in Nat /\ DOMAIN r = 1..Len(r) /\ r = [i \in 1..Len(r) |-> r[i]]
  BY LenProperties
<1>2. /\ \A i \in 1..Len(q) : q[i] \in Range(q) /\ Pos(q, q[i]) = i
      /\ \A i \in 1..Len(r) : r[i] \in Range(q) /\ Pos(r, r[i]) = i
  BY <1>1, PosLemma DEF Range
<1>3. /\ \A i \in 1..Len(q) : Pos(r, q[i]) \in 1..Len(r) /\ r[Pos(r, q[i])] = q[i]
      /\ \A i \in 1..Len(r) : Pos(q, r[i]) \in 1..Len(q) /\ q[Pos(q, r[i])] = r[i]
  BY <1>2, PosType
<1>4. \A i \in 1..Len(q) : i <= Pos(r, q[i])
  <2> DEFINE f == [i \in 1..Len(q) |-> Pos(r, q[i])]
  <2>1. \A i \in 1..Len(q) : f[i] \in Nat \ {0}
    BY <1>1, <1>3
  <2>2. \A i, j \in 1..Len(q) : i < j => f[i] < f[j]
    BY <1>2
  <2>3. \A i \in 1..Len(q) : f[i] = Pos(r, q[i])
    OBVIOUS
  <2> HIDE DEF f
  <2>4. \A i \in 1..Len(q) : i <= f[i]
    BY <1>1, <2>1, <2>2, Increasing
  <2> QED  BY <2>3, <2>4
<1>5. \A i \in 1..Len(r) : i <= Pos(q, r[i])
  <2> DEFINE f == [i \in 1..Len(r) |-> Pos(q, r[i])]
  <2>1. \A i \in 1..Len(r) : f[i] \in Nat \ {0}
    BY <1>1, <1>3
  <2>2. \A i, j \in 1..Len(r) : i < j => f[i] < f[j]
    BY <1>2
  <2>3. \A i \in 1..Len(r) : f[i] = Pos(q, r[i])
    OBVIOUS
  <2> HIDE DEF f
  <2>4. \A i \in 1..Len(r) : i <= f[i]
    BY <1>1, <2>1, <2>2, Increasing
  <2> QED  BY <2>3, <2>4
<1>6. \A i \in 1..Len(q) : i \in 1..Len(r) /\ r[i] = q[i]
  <2> TAKE i \in 1..Len(q)
  <2>1. Pos(r, q[i]) <= Pos(q, r[Pos(r, q[i])])
    BY <1>3, <1>5
  <2>2. Pos(q, r[Pos(r, q[i])]) = i /\ i <= Pos(r, q[i])
    BY <1>2, <1>3, <1>4
  <2>3. Pos(r, q[i]) = i
    BY <1>1, <1>3, <2>1, <2>2
  <2> QED  BY <1>3, <2>3
<1>7. \A i \in 1..Len(r) : i \in 1..Len(q)
  <2> TAKE i \in 1..Len(r)
  <2>1. i <= Pos(q, r[i]) /\ Pos(q, r[i]) \in 1..Len(q)
    BY <1>3, <1>5
  <2> QED  BY <1>1, <2>1
<1>8. Len(q) = Len(r)
  <2>1. Len(q) <= Len(r)
    <3>1. Len(q) = 0 \/ Len(q) \in 1..Len(q)
      BY <1>1
    <3> QED  BY <1>1, <1>6, <3>1
  <2>2. Len(r) <= Len(q)
    <3>1. Len(r) = 0 \/ Len(r) \in 1..Len(r)
      BY <1>1
    <3> QED  BY <1>1, <1>7, <3>1
  <2>3. Len(q) \in Nat /\ Len(r) \in Nat
    BY <1>1
  <2> QED  BY <2>1, <2>2, <2>3
<1> QED  BY <1>1, <1>6, <1>8

(* Items that leave one after the other leave together.                    *)
LEMMA WithoutTwice ==
  ASSUME NEW S, NEW q \in Seq(S), IsInjective(q), NEW K, NEW L
  PROVE  Without(Without(q, K), L) = Without(q, K \cup L)
<1> DEFINE a == Without(q, K)
           b == Without(a, L)
           c == Without(q, K \cup L)
<1>1. a \in Seq(S) /\ Range(a) = Range(q) \ K /\ IsInjective(a)
  BY WithoutLemma
<1>2. b \in Seq(S) /\ Range(b) = Range(a) \ L /\ IsInjective(b)
  <2> HIDE DEF a
  <2> QED  BY <1>1, WithoutLemma
<1>3. c \in Seq(S) /\ Range(c) = Range(q) \ (K \cup L) /\ IsInjective(c)
  BY WithoutLemma
<1>4. ASSUME NEW x \in Range(b), NEW y \in Range(b)
      PROVE  Pos(b, x) < Pos(b, y) <=> Pos(c, x) < Pos(c, y)
  <2>1. /\ x \in Range(a) \ L /\ y \in Range(a) \ L /\ x \in Range(q) \ K
        /\ y \in Range(q) \ K /\ x \in Range(q) \ (K \cup L) /\ y \in Range(q) \ (K \cup L)
    BY <1>1, <1>2
  <2>2. Pos(a, x) < Pos(a, y) <=> Pos(q, x) < Pos(q, y)
    BY <2>1, WithoutOrder
  <2>3. Pos(c, x) < Pos(c, y) <=> Pos(q, x) < Pos(q, y)
    BY <2>1, WithoutOrder
  <2>4. Pos(b, x) < Pos(b, y) <=> Pos(a, x) < Pos(a, y)
    <3> HIDE DEF a
    <3> QED  BY <1>1, <2>1, WithoutOrder
  <2> QED  BY <2>2, <2>3, <2>4
<1> HIDE DEF a, b, c
<1>5. Range(b) = Range(c)
  BY <1>1, <1>2, <1>3
<1>6. b = c
  BY <1>2, <1>3, <1>4, <1>5, SameOrder
<1> QED  BY <1>6 DEF a, b, c
(* Members that are none of the queue's leave nothing behind.              *)
LEMMA WithoutOthers ==
  ASSUME NEW S, NEW q \in Seq(S), IsInjective(q), NEW K, Range(q) \cap K = {}
  PROVE  Without(q, K) = q
<1> DEFINE a == Without(q, K)
<1>1. a \in Seq(S) /\ Range(a) = Range(q) /\ IsInjective(a)
  <2>1. a \in Seq(S) /\ Range(a) = Range(q) \ K /\ IsInjective(a)
    BY WithoutLemma
  <2> HIDE DEF a
  <2> QED  BY <2>1
<1>2. \A x, y \in Range(a) : Pos(a, x) < Pos(a, y) <=> Pos(q, x) < Pos(q, y)
  BY <1>1, WithoutOrder
<1> HIDE DEF a
<1>3. a = q
  BY <1>1, <1>2, SameOrder
<1> QED  BY <1>3 DEF a

(* Where the items are after an insertProcQ.                               *)
LEMMA InsertOrder ==
  ASSUME NEW S, NEW q \in Seq(S), IsInjective(q), NEW p \in S \ Range(q), NEW prio,
         \A s \in S : prio[s] \in Int, NEW r, r = InsertProcQ(q, prio, p)
  PROVE  /\ Pos(r, p) = Slot(q, prio, p)
         /\ \A x \in Range(q) : Pos(r, x) = IF Pos(q, x) < Slot(q, prio, p)
                                            THEN Pos(q, x) ELSE Pos(q, x) + 1
<1> DEFINE n == Len(q)
           i == Slot(q, prio, p)
<1>1. n \in Nat /\ DOMAIN q = 1..n
  BY LenProperties
<1>2. i \in 1..(n + 1)
  BY SlotLemma
<1>3. IsInjective(r)
  BY InsertProcQLemma
<1> HIDE DEF i
<1>4. IsInsertion(S, q, p, i, r)
  BY <1>2, InsertAtLemma DEF InsertProcQ, i
<1>5. /\ r \in Seq(S) /\ DOMAIN r = 1..(n + 1)
      /\ \A j \in 1..(n + 1) :
           r[j] = IF j < i THEN q[j] ELSE IF j = i THEN p ELSE q[j - 1]
  <2>1. r \in Seq(S) /\ Len(r) = n + 1
    BY <1>4 DEF IsInsertion
  <2>2. DOMAIN r = 1..(n + 1)
    BY <2>1, LenProperties
  <2> QED  BY <2>1, <2>2, <1>4 DEF IsInsertion
<1>6. \A j \in 1..(n + 1) : Pos(r, r[j]) = j
  BY <1>3, <1>5, PosLemma
<1>7. Pos(r, p) = i
  <2>1. r[i] = p
    BY <1>1, <1>2, <1>5
  <2> QED  BY <1>2, <1>6, <2>1
<1>8. ASSUME NEW x \in Range(q)
      PROVE  Pos(r, x) = IF Pos(q, x) < i THEN Pos(q, x) ELSE Pos(q, x) + 1
  <2>1. PICK j \in 1..n : x = q[j] /\ j = Pos(q, x)
    BY <1>1, PosType
  <2>2. CASE j < i
    <3>1. j \in 1..(n + 1) /\ r[j] = x
      BY <1>1, <1>5, <2>1, <2>2
    <3> QED  BY <1>6, <2>1, <2>2, <3>1
  <2>3. CASE ~ (j < i)
    <3>1. j + 1 \in 1..(n + 1) /\ ~ (j + 1 < i) /\ j + 1 # i /\ (j + 1) - 1 = j
      BY <1>1, <1>2, <2>3
    <3>2. r[j + 1] = x
      BY <1>5, <2>1, <3>1
    <3> QED  BY <1>6, <2>1, <2>3, <3>1, <3>2
  <2> QED  BY <2>2, <2>3
<1> QED  BY <1>7, <1>8 DEF i

(* The same in terms of who comes before whom.                             *)
LEMMA InsertBefore ==
  ASSUME NEW S, NEW q \in Seq(S), IsInjective(q), NEW p \in S \ Range(q), NEW prio,
         \A s \in S : prio[s] \in Int, NEW r, r = InsertProcQ(q, prio, p)
  PROVE  /\ \A x \in Range(q) : Pos(r, x) < Pos(r, p) <=> Pos(q, x) < Slot(q, prio, p)
         /\ \A x \in Range(q) : Pos(r, p) < Pos(r, x) <=> ~ (Pos(r, x) < Pos(r, p))
         /\ \A x, y \in Range(q) : Pos(r, x) < Pos(r, y) <=> Pos(q, x) < Pos(q, y)
<1>1. /\ Pos(r, p) = Slot(q, prio, p)
      /\ \A x \in Range(q) : Pos(r, x) = IF Pos(q, x) < Slot(q, prio, p)
                                         THEN Pos(q, x) ELSE Pos(q, x) + 1
  BY InsertOrder
<1>2. PICK i : i = Slot(q, prio, p)
  OBVIOUS
<1>3. Len(q) \in Nat
  BY LenProperties
<1>4. i \in Nat
  BY <1>2, <1>3, SlotLemma
<1>5. \A x \in Range(q) : Pos(q, x) \in Nat
  BY PosType
<1> QED  BY <1>1, <1>2, <1>4, <1>5
(* r is what Wakeups makes of q and w, said of items instead of indices.   *)
IsMerge(r, q, prio, w) ==
  /\ IsInjective(r) /\ Range(r) = Range(q) \cup Range(w)
  /\ Without(r, Range(w)) = q
  /\ \A i \in DOMAIN q, p \in Range(w) :
       Pos(r, q[i]) < Pos(r, p) <=> i < Slot(q, prio, p)
  /\ \A i, j \in DOMAIN w :
       Pos(r, w[i]) < Pos(r, w[j])
         <=> \/ prio[w[i]] > prio[w[j]]
             \/ prio[w[i]] = prio[w[j]] /\ i < j

(* Wakeups are the merges.                                                 *)
LEMMA WakeupsAreMerges ==
  ASSUME NEW S, IsFiniteSet(S), NEW q \in Seq(S), NEW w \in Seq(S), NEW prio,
         NEW r \in Seq(S)
  PROVE  r \in Wakeups(q, prio, w) <=> IsMerge(r, q, prio, w)
<1>1. ASSUME r \in Wakeups(q, prio, w)  PROVE IsMerge(r, q, prio, w)
  <2>1. IsInjective(r) /\ Range(r) = Range(q) \cup Range(w)
    BY <1>1, WakeupsLemma
  <2> QED  BY <1>1, <2>1 DEF Wakeups, IsMerge
<1>2. ASSUME IsMerge(r, q, prio, w)  PROVE r \in Wakeups(q, prio, w)
  <2> DEFINE T == Range(q) \cup Range(w)
             n == Cardinality(T)
  <2>1. IsInjective(r) /\ Range(r) = T
    BY <1>2 DEF IsMerge
  <2>2. Len(r) = n /\ DOMAIN r = 1..Len(r) /\ r = [i \in 1..Len(r) |-> r[i]]
    BY <2>1, QueueLength, LenProperties
  <2>3. r \in [1..n -> T] /\ \A i, j \in 1..n : i # j => r[i] # r[j]
    <3> HIDE DEF T
    <3> QED  BY <2>1, <2>2 DEF IsInjective, Range
  <2>4. r \in SetToSeqs(T)
    <3> HIDE DEF T
    <3> QED  BY <2>3 DEF SetToSeqs
  <2> QED  BY <1>2, <2>4 DEF Wakeups, IsMerge
<1> QED  BY <1>1, <1>2

(* The loop of handleIntervalClock before its first round ...              *)
LEMMA WakeupsOfNone ==
  ASSUME NEW S, IsFiniteSet(S), NEW q \in Seq(S), IsInjective(q), NEW prio
  PROVE  q \in Wakeups(q, prio, <<>>)
<1>1. <<>> \in Seq(S) /\ Range(<<>>) = {} /\ DOMAIN <<>> = {}
  BY EmptyQueueLemma, EmptySeq DEF Range
<1>2. Without(q, Range(<<>>)) = q
  BY <1>1, WithoutOthers
<1>3. IsMerge(q, q, prio, <<>>)
  BY <1>1, <1>2 DEF IsMerge
<1> QED  BY <1>1, <1>3, WakeupsAreMerges

(* ... and what a round adds: the next waiter is inserted into the queue   *)
(* that those before it have joined.                                       *)
LEMMA WakeupsStep ==
  ASSUME NEW S, IsFiniteSet(S), NEW prio, \A v \in S : prio[v] \in Int,
         NEW q \in Seq(S), IsInjective(q), NEW w \in Seq(S), IsInjective(w),
         Range(q) \cap Range(w) = {}, NEW x \in S \ (Range(q) \cup Range(w)),
         NEW r \in Wakeups(q, prio, w), NEW r2, r2 = InsertProcQ(r, prio, x)
  PROVE  r2 \in Wakeups(q, prio, Append(w, x))
<1> DEFINE w2 == Append(w, x)
           z == Slot(r, prio, x)
           s == Slot(q, prio, x)
<1>1. r \in Seq(S) /\ IsMerge(r, q, prio, w)
  BY WakeupsLemma, WakeupsAreMerges
<1>2. /\ IsInjective(r) /\ Range(r) = Range(q) \cup Range(w)
      /\ Without(r, Range(w)) = q
      /\ \A i \in DOMAIN q, p \in Range(w) :
           Pos(r, q[i]) < Pos(r, p) <=> i < Slot(q, prio, p)
      /\ \A i, j \in DOMAIN w :
           Pos(r, w[i]) < Pos(r, w[j])
             <=> \/ prio[w[i]] > prio[w[j]]
                 \/ prio[w[i]] = prio[w[j]] /\ i < j
  BY <1>1 DEF IsMerge
<1>3. x \notin Range(r)
  BY <1>2
<1>4. /\ \A y \in Range(r) : Pos(r2, y) < Pos(r2, x) <=> Pos(r, y) < z
      /\ \A y \in Range(r) : Pos(r2, x) < Pos(r2, y) <=> ~ (Pos(r2, y) < Pos(r2, x))
      /\ \A y, v \in Range(r) : Pos(r2, y) < Pos(r2, v) <=> Pos(r, y) < Pos(r, v)
      /\ Pos(r2, x) = z
  BY <1>1, <1>2, <1>3, InsertBefore, InsertOrder
<1>5. r2 \in Seq(S) /\ IsInjective(r2) /\ Range(r2) = Range(r) \cup {x}
  <2>1. r \in Seq(S) /\ x \in S /\ IsInjective(r) /\ x \notin Range(r)
    BY <1>1, <1>2, <1>3
  <2>2. r2 \in Seq(S)
    BY <2>1, InsertProcQLemma
  <2>3. IsInjective(r2)
    BY <2>1, InsertProcQLemma
  <2> HIDE DEF s, z, w2
  <2>4. \A a \in Seq(S), y \in S : Range(InsertProcQ(a, prio, y)) = Range(a) \cup {y}
    BY InsertProcQLemma
  <2> QED  BY <2>1, <2>2, <2>3, <2>4
<1>6. /\ w2 \in Seq(S) /\ Range(w2) = Range(w) \cup {x} /\ Len(w) \in Nat
      /\ DOMAIN w = 1..Len(w) /\ DOMAIN w2 = 1..(Len(w) + 1)
      /\ w2[Len(w) + 1] = x /\ \A j \in 1..Len(w) : w2[j] = w[j]
  <2>1. /\ w2 \in Seq(S) /\ Len(w2) = Len(w) + 1 /\ w2[Len(w) + 1] = x
        /\ \A j \in 1..Len(w) : w2[j] = w[j]
    BY AppendProperties
  <2>2. Range(w2) = Range(w) \cup {x}
    BY EnqueueLemma
  <2> QED  BY <2>1, <2>2, LenProperties
<1>7. /\ Len(q) \in Nat /\ DOMAIN q = 1..Len(q) /\ Len(r) \in Nat /\ DOMAIN r = 1..Len(r)
      /\ \A i \in 1..Len(q) : q[i] \in S /\ q[i] \in Range(r) /\ q[i] \in Range(q)
      /\ \A i \in 1..Len(w) : w[i] \in S /\ w[i] \in Range(r) /\ w[i] \in Range(w)
      /\ \A y \in Range(r) : y \in S /\ Pos(r, y) \in 1..Len(r) /\ r[Pos(r, y)] = y
  <2>1. /\ Len(q) \in Nat /\ DOMAIN q = 1..Len(q) /\ Len(r) \in Nat /\ DOMAIN r = 1..Len(r)
    BY <1>1, LenProperties
  <2>2. \A i \in 1..Len(q) : q[i] \in S /\ q[i] \in Range(q)
    BY <2>1, ElementOfSeq DEF Range
  <2>3. \A i \in 1..Len(w) : w[i] \in S /\ w[i] \in Range(w)
    BY <1>6, ElementOfSeq DEF Range
  <2>4. \A y \in Range(r) : Pos(r, y) \in 1..Len(r) /\ r[Pos(r, y)] = y
    BY <1>1, PosType
  <2>5. \A y \in Range(r) : y \in S
    BY <1>1, <2>1, <2>4, ElementOfSeq
  <2> QED  BY <1>2, <2>1, <2>2, <2>3, <2>4, <2>5
<1>8. /\ z \in 1..(Len(r) + 1) /\ IsSlot(r, prio, x, z)
      /\ s \in 1..(Len(q) + 1) /\ IsSlot(q, prio, x, s)
  BY <1>1, SlotLemma
<1> HIDE DEF w2, z, s
<1>9. /\ \A y \in Range(r) : Pos(r, y) < z => prio[y] >= prio[x]
      /\ z \in 1..Len(r) => r[z] \in Range(r) /\ prio[r[z]] < prio[x] /\ Pos(r, r[z]) = z
      /\ \A i \in 1..Len(q) : i < s => prio[q[i]] >= prio[x]
      /\ s \in 1..Len(q) => prio[q[s]] < prio[x]
  <2>1. \A y \in Range(r) : Pos(r, y) < z => prio[y] >= prio[x]
    <3> SUFFICES ASSUME NEW y \in Range(r), Pos(r, y) < z  PROVE prio[y] >= prio[x]
      OBVIOUS
    <3>1. Pos(r, y) \in 1..(z - 1) /\ r[Pos(r, y)] = y
      BY <1>7, <1>8
    <3> QED  BY <1>8, <3>1 DEF IsSlot
  <2>2. z \in 1..Len(r) => r[z] \in Range(r) /\ prio[r[z]] < prio[x] /\ Pos(r, r[z]) = z
    BY <1>2, <1>7, <1>8, PosLemma DEF IsSlot, Range
  <2>3. \A i \in 1..Len(q) : i < s => prio[q[i]] >= prio[x]
    <3> SUFFICES ASSUME NEW i \in 1..Len(q), i < s  PROVE prio[q[i]] >= prio[x]
      OBVIOUS
    <3>1. i \in 1..(s - 1)
      BY <1>8
    <3> QED  BY <1>8, <3>1 DEF IsSlot
  <2>4. s \in 1..Len(q) => prio[q[s]] < prio[x]
    BY <1>7, <1>8 DEF IsSlot
  <2> QED  BY <2>1, <2>2, <2>3, <2>4
<1>10. \A i \in 1..Len(q) : Pos(q, q[i]) = i
  BY <1>7, PosLemma
<1>11. \A i, j \in 1..Len(q) : Pos(r, q[i]) < Pos(r, q[j]) <=> i < j
  <2> TAKE i, j \in 1..Len(q)
  <2>1. q[i] \in Range(r) \ Range(w) /\ q[j] \in Range(r) \ Range(w)
    BY <1>7
  <2>2. Pos(q, q[i]) < Pos(q, q[j]) <=> Pos(r, q[i]) < Pos(r, q[j])
    <3>1. /\ Pos(Without(r, Range(w)), q[i]) < Pos(Without(r, Range(w)), q[j])
             <=> Pos(r, q[i]) < Pos(r, q[j])
      BY <1>1, <1>2, <2>1, WithoutOrder
    <3> QED  BY <1>2, <3>1
  <2> QED  BY <1>10, <2>2
(* Whoever comes at z or behind it has a predecessor of lower priority.    *)
<1>12. ASSUME NEW y \in Range(r), ~ (Pos(r, y) < z)
       PROVE  \E u \in Range(r) : /\ prio[u] < prio[x] /\ ~ (Pos(r, y) < Pos(r, u))
                                  /\ u # y => Pos(r, u) < Pos(r, y)
  <2>1. z \in 1..Len(r) /\ Pos(r, y) \in Nat /\ z \in Nat /\ z <= Pos(r, y)
    BY <1>7, <1>8, <1>12
  <2>2. r[z] \in Range(r) /\ prio[r[z]] < prio[x] /\ Pos(r, r[z]) = z
    BY <1>9, <2>1
  <2>3. r[z] # y => Pos(r, y) # z
    BY <1>7
  <2> QED  BY <2>1, <2>2, <2>3
<1>13. ASSUME NEW i \in 1..Len(q)  PROVE Pos(r, q[i]) < z <=> i < s
  <2>1. ASSUME Pos(r, q[i]) < z, ~ (i < s)  PROVE FALSE
    <3>1. s \in 1..Len(q) /\ ~ (i < s) /\ prio[q[s]] < prio[x]
      BY <1>7, <1>8, <1>9, <2>1
    <3>2. ~ (Pos(r, q[i]) < Pos(r, q[s]))
      BY <1>11, <3>1
    <3>3. Pos(r, q[s]) < z
      <4>1. Pos(r, q[i]) \in Nat /\ Pos(r, q[s]) \in Nat /\ z \in Nat
        BY <1>7, <1>8, <3>1
      <4> QED  BY <2>1, <3>2, <4>1
    <3>4. prio[q[s]] >= prio[x] /\ prio[q[s]] \in Int /\ prio[x] \in Int
      BY <1>7, <1>9, <3>1, <3>3
    <3> QED  BY <3>1, <3>4
  <2>2. ASSUME ~ (Pos(r, q[i]) < z), i < s  PROVE FALSE
    <3>1. PICK u \in Range(r) : /\ prio[u] < prio[x] /\ ~ (Pos(r, q[i]) < Pos(r, u))
                                /\ u # q[i] => Pos(r, u) < Pos(r, q[i])
      BY <1>7, <1>12, <2>2
    <3>2. CASE u \in Range(q)
      <4>1. PICK j \in 1..Len(q) : u = q[j]
        BY <1>7, <3>2 DEF Range
      <4>2. ~ (i < j)
        BY <1>11, <3>1, <4>1
      <4>3. j < s
        BY <1>7, <1>8, <2>2, <4>2
      <4>4. prio[q[j]] >= prio[x] /\ prio[q[j]] \in Int /\ prio[x] \in Int
        BY <1>7, <1>9, <4>3
      <4> QED  BY <3>1, <4>1, <4>4
    <3>3. CASE u \in Range(w)
      <4>1. ~ (i < Slot(q, prio, u))
        BY <1>2, <1>7, <3>1, <3>3
      <4>2. PICK t : t = Slot(q, prio, u)
        OBVIOUS
      <4>3. t \in 1..(Len(q) + 1) /\ IsSlot(q, prio, u, t)
        BY <1>7, <3>1, <4>2, SlotLemma
      <4>4. t \in 1..Len(q) /\ t < s
        BY <1>7, <1>8, <2>2, <4>1, <4>2, <4>3
      <4>5. prio[q[t]] < prio[u] /\ prio[q[t]] >= prio[x]
        BY <1>7, <1>9, <4>3, <4>4 DEF IsSlot
      <4>6. prio[q[t]] \in Int /\ prio[u] \in Int /\ prio[x] \in Int
        BY <1>7, <3>1, <4>4
      <4> QED  BY <3>1, <4>5, <4>6
    <3> QED  BY <1>2, <3>1, <3>2, <3>3
  <2> QED  BY <2>1, <2>2
<1>14. ASSUME NEW j \in 1..Len(w)  PROVE Pos(r, w[j]) < z <=> prio[w[j]] >= prio[x]
  <2>1. Pos(r, w[j]) < z => prio[w[j]] >= prio[x]
    BY <1>7, <1>9
  <2>2. ASSUME ~ (Pos(r, w[j]) < z), prio[w[j]] >= prio[x]  PROVE FALSE
    <3>1. PICK u \in Range(r) : /\ prio[u] < prio[x] /\ ~ (Pos(r, w[j]) < Pos(r, u))
                                /\ u # w[j] => Pos(r, u) < Pos(r, w[j])
      BY <1>7, <1>12, <2>2
    <3>2. prio[u] \in Int /\ prio[w[j]] \in Int /\ prio[x] \in Int
      BY <1>7, <3>1
    <3>3. u # w[j] /\ Pos(r, u) < Pos(r, w[j]) /\ prio[u] < prio[w[j]]
      BY <2>2, <3>1, <3>2
    <3>4. CASE u \in Range(w)
      <4>1. PICK a \in 1..Len(w) : u = w[a]
        BY <1>6, <3>4 DEF Range
      <4>2. prio[w[a]] > prio[w[j]] \/ prio[w[a]] = prio[w[j]]
        BY <1>2, <1>6, <3>3, <4>1
      <4> QED  BY <3>2, <3>3, <4>1, <4>2
    <3>5. CASE u \in Range(q)
      <4>1. PICK a \in 1..Len(q) : u = q[a]
        BY <1>7, <3>5 DEF Range
      <4>2. a < Slot(q, prio, w[j])
        BY <1>2, <1>7, <3>3, <4>1
      <4>3. PICK t : t = Slot(q, prio, w[j])
        OBVIOUS
      <4>4. t \in 1..(Len(q) + 1) /\ IsSlot(q, prio, w[j], t)
        BY <1>7, <3>2, <4>3, SlotLemma
      <4>5. a \in 1..(t - 1)
        BY <1>7, <4>2, <4>3, <4>4
      <4>6. prio[q[a]] >= prio[w[j]]
        BY <4>4, <4>5 DEF IsSlot
      <4> QED  BY <3>2, <3>3, <4>1, <4>6
    <3> QED  BY <1>2, <3>1, <3>4, <3>5
  <2> QED  BY <2>1, <2>2
<1>15. Without(r2, Range(w2)) = q
  <2> DEFINE a == Without(r2, Range(w2))
  <2>1. a \in Seq(S) /\ Range(a) = Range(r2) \ Range(w2) /\ IsInjective(a)
    BY <1>5, WithoutLemma
  <2>2. Range(a) = Range(q)
    <3> HIDE DEF a
    <3> QED  BY <1>2, <1>5, <1>6, <2>1
  <2>3. ASSUME NEW y \in Range(a), NEW v \in Range(a)
        PROVE  Pos(a, y) < Pos(a, v) <=> Pos(q, y) < Pos(q, v)
    <3>1. /\ y \in Range(r2) \ Range(w2) /\ v \in Range(r2) \ Range(w2)
          /\ y \in Range(q) /\ v \in Range(q) /\ y \in Range(r) /\ v \in Range(r)
      BY <1>2, <2>1, <2>2
    <3>2. Pos(a, y) < Pos(a, v) <=> Pos(r2, y) < Pos(r2, v)
      BY <1>5, <3>1, WithoutOrder
    <3>3. Pos(r2, y) < Pos(r2, v) <=> Pos(r, y) < Pos(r, v)
      BY <1>4, <3>1
    <3>4. PICK i \in 1..Len(q), j \in 1..Len(q) : y = q[i] /\ v = q[j]
      BY <1>7, <3>1 DEF Range
    <3> QED  BY <1>10, <1>11, <3>2, <3>3, <3>4
  <2> HIDE DEF a
  <2>4. a = q
    BY <2>1, <2>2, <2>3, SameOrder
  <2> QED  BY <2>4 DEF a
<1>16. ASSUME NEW i \in DOMAIN q, NEW p \in Range(w2)
       PROVE  Pos(r2, q[i]) < Pos(r2, p) <=> i < Slot(q, prio, p)
  <2>1. CASE p \in Range(w)
    <3>1. Pos(r2, q[i]) < Pos(r2, p) <=> Pos(r, q[i]) < Pos(r, p)
      BY <1>2, <1>4, <1>7, <2>1
    <3> QED  BY <1>2, <2>1, <3>1
  <2>2. CASE p = x
    <3>1. Pos(r2, q[i]) < Pos(r2, x) <=> Pos(r, q[i]) < z
      BY <1>4, <1>7 DEF z
    <3> QED  BY <1>7, <1>13, <2>2, <3>1 DEF s
  <2> QED  BY <1>6, <2>1, <2>2
<1>17. ASSUME NEW i \in DOMAIN w2, NEW j \in DOMAIN w2
       PROVE  Pos(r2, w2[i]) < Pos(r2, w2[j])
                <=> \/ prio[w2[i]] > prio[w2[j]]
                    \/ prio[w2[i]] = prio[w2[j]] /\ i < j
  <2> DEFINE n == Len(w)
  <2>0. n \in Nat /\ i \in 1..(n + 1) /\ j \in 1..(n + 1)
    BY <1>6
  <2>1. CASE i # n + 1 /\ j # n + 1
    <3>1. i \in 1..n /\ j \in 1..n /\ w2[i] = w[i] /\ w2[j] = w[j]
      BY <1>6, <2>0, <2>1
    <3>2. Pos(r2, w[i]) < Pos(r2, w[j]) <=> Pos(r, w[i]) < Pos(r, w[j])
      BY <1>4, <1>7, <3>1
    <3> QED  BY <1>2, <1>6, <3>1, <3>2
  <2>2. CASE i # n + 1 /\ j = n + 1
    <3>1. i \in 1..n /\ w2[i] = w[i] /\ w2[j] = x /\ i < j
      BY <1>6, <2>0, <2>2
    <3>2. Pos(r2, w[i]) < Pos(r2, x) <=> Pos(r, w[i]) < z
      BY <1>4, <1>7, <3>1
    <3>3. prio[w[i]] \in Int /\ prio[x] \in Int
      BY <1>7, <3>1
    <3>4. Pos(r2, w[i]) < Pos(r2, x) <=> prio[w[i]] >= prio[x]
      BY <1>14, <3>1, <3>2
    <3> QED  BY <3>1, <3>3, <3>4
  <2>3. CASE i = n + 1 /\ j # n + 1
    <3>1. j \in 1..n /\ w2[j] = w[j] /\ w2[i] = x /\ ~ (i < j)
      BY <1>6, <2>0, <2>3
    <3>2. Pos(r2, x) < Pos(r2, w[j]) <=> ~ (Pos(r, w[j]) < z)
      BY <1>4, <1>7, <3>1
    <3>3. prio[w[j]] \in Int /\ prio[x] \in Int
      BY <1>7, <3>1
    <3>4. Pos(r2, x) < Pos(r2, w[j]) <=> ~ (prio[w[j]] >= prio[x])
      BY <1>14, <3>1, <3>2
    <3> QED  BY <3>1, <3>3, <3>4
  <2>4. CASE i = n + 1 /\ j = n + 1
    <3>1. w2[i] = x /\ w2[j] = x /\ ~ (i < j) /\ prio[x] \in Int /\ i \in Int
      BY <1>6, <2>0, <2>4
    <3>2. Pos(r2, x) \in Int
      BY <1>4, <1>8
    <3> QED  BY <3>1, <3>2
  <2> QED  BY <2>1, <2>2, <2>3, <2>4
<1>18. IsMerge(r2, q, prio, w2)
  <2>1. Range(r2) = Range(q) \cup Range(w2)
    BY <1>2, <1>5, <1>6
  <2> QED  BY <1>5, <1>15, <1>16, <1>17, <2>1 DEF IsMerge
<1>19. r2 \in Wakeups(q, prio, w2)
  BY <1>5, <1>6, <1>18, WakeupsAreMerges
<1> QED  BY <1>19 DEF w2

=============================================================================
