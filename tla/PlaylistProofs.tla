--------------------------- MODULE PlaylistProofs ---------------------------
(***************************************************************************)
(* Proofs about Playlist, for every set of POSITIONs and every length of   *)
(* the list.                                                               *)
(***************************************************************************)
EXTENDS Playlist, SequenceTheorems, FiniteSetTheorems, WellFoundedInduction, TLAPS

-----------------------------------------------------------------------------
(***************************************************************************)
(* Counting: the least element of a set of numbers, and what it means for  *)
(* a function to be defined by iteration.                                  *)
(***************************************************************************)
LEMMA Least ==
    ASSUME NEW T \in SUBSET Nat, T # {}
    PROVE  \E m \in T : \A n \in T : m <= n
<1>1. IsWellFoundedOn(OpToRel(<, Nat), Nat)
  BY NatLessThanWellFounded
<1>2. PICK m \in T : \A n \in T : ~(<<n, m>> \in OpToRel(<, Nat))
  BY <1>1, WFMin
<1>3. \A n \in T : ~(n < m)
  BY <1>2 DEF OpToRel
<1> QED
  BY <1>3

Iterates(g, K, v, step) == \A n \in 0 .. K : g[n] = IF n = 0 THEN v ELSE step[g[n - 1]]

LEMMA Iterated ==
    ASSUME NEW K \in Nat, NEW V, NEW v \in V, NEW step \in [V -> V]
    PROVE  \E g \in [0 .. K -> V] : Iterates(g, K, v, step)
<1> DEFINE Ok(k) == \E g \in [0 .. k -> V] :
                       \A n \in 0 .. k : g[n] = IF n = 0 THEN v ELSE step[g[n - 1]]
           T == {k \in Nat : ~Ok(k)}
<1> SUFFICES ASSUME T # {} PROVE FALSE
  BY DEF Iterates
<1>1. PICK k \in T : \A n \in T : k <= n
  BY Least
<1>2. k # 0
  <2> DEFINE g == [n \in 0 .. 0 |-> v]
  <2>1. g \in [0 .. 0 -> V] /\ \A n \in 0 .. 0 : g[n] = IF n = 0 THEN v ELSE step[g[n - 1]]
    OBVIOUS
  <2> QED
    BY <2>1
<1>3. Ok(k - 1)
  BY <1>1, <1>2
<1>4. PICK g \in [0 .. k - 1 -> V] :
        \A n \in 0 .. k - 1 : g[n] = IF n = 0 THEN v ELSE step[g[n - 1]]
  BY <1>3
<1> DEFINE h == [n \in 0 .. k |-> IF n = k THEN step[g[k - 1]] ELSE g[n]]
<1>5. h \in [0 .. k -> V]
  BY <1>1, <1>2, <1>4
<1>6. ASSUME NEW n \in 0 .. k PROVE h[n] = IF n = 0 THEN v ELSE step[h[n - 1]]
  <2>1. CASE n = k
    BY <1>2, <2>1
  <2>2. CASE n # k
    <3>1. n \in 0 .. k - 1 /\ (n # 0 => n - 1 \in 0 .. k - 1 /\ n - 1 # k)
      BY <1>1, <2>2
    <3>2. h[n] = g[n] /\ (n # 0 => h[n - 1] = g[n - 1])
      BY <2>2, <3>1
    <3>3. g[n] = IF n = 0 THEN v ELSE step[g[n - 1]]
      BY <1>4, <3>1
    <3> QED
      BY <3>2, <3>3
  <2> QED
    BY <2>1, <2>2
<1> HIDE DEF h
<1> QED
  BY <1>1, <1>5, <1>6 DEF Iterates

\* The last index and the first one are neighbours.
LEMMA Around ==
    ASSUME NEW L \in Nat \ {0}, NEW i \in 1 .. L
    PROVE  /\ i % L = IF i = L THEN 0 ELSE i
           /\ (i + L - 2) % L = IF i = 1 THEN L - 1 ELSE i - 2
<1>1. ASSUME NEW a \in 0 .. L - 1 PROVE a % L = a /\ (a + L) % L = a
  OBVIOUS
<1>2. i % L = IF i = L THEN 0 ELSE i
  OBVIOUS
<1>3. CASE i = 1
  <2>1. (i + L - 2) = L - 1 /\ L - 1 \in 0 .. L - 1
    BY <1>3
  <2> QED
    BY <1>1, <1>2, <1>3, <2>1
<1>4. CASE i # 1
  <2>1. i - 2 \in 0 .. L - 1 /\ i + L - 2 = (i - 2) + L
    BY <1>4
  <2> QED
    BY <1>1, <1>2, <1>4, <2>1
<1> QED
  BY <1>3, <1>4

\* k steps on, or L - 1 times as many, in a ring of L.
Pos(way, L, i, k) ==
    IF way = "next" THEN IF i + k <= L THEN i + k ELSE i + k - L
    ELSE IF i - k >= 1 THEN i - k ELSE i - k + L

LEMMA Ring ==
    ASSUME NEW L \in Nat \ {0}, NEW i \in 1 .. L, NEW k \in 0 .. L
    PROVE  /\ ((i - 1 + k * 1) % L) + 1 = Pos("next", L, i, k)
           /\ ((i - 1 + k * (L - 1)) % L) + 1 = Pos("previous", L, i, k)
<1>1. ASSUME NEW a \in 0 .. L - 1, NEW m \in Nat PROVE (a + m * L) % L = a
  OBVIOUS
<1>2. ((i - 1 + k * 1) % L) + 1 = Pos("next", L, i, k)
  <2>1. CASE i + k <= L
    <3>1. i - 1 + k * 1 = (i - 1 + k) + 0 * L /\ i - 1 + k \in 0 .. L - 1
      BY <2>1
    <3> QED
      BY <1>1, <2>1, <3>1 DEF Pos
  <2>2. CASE i + k > L
    <3>1. i - 1 + k * 1 = (i - 1 + k - L) + 1 * L /\ i - 1 + k - L \in 0 .. L - 1
      BY <2>2
    <3> QED
      BY <1>1, <2>2, <3>1 DEF Pos
  <2> QED
    BY <2>1, <2>2
<1>3. ((i - 1 + k * (L - 1)) % L) + 1 = Pos("previous", L, i, k)
  <2>0. k * (L - 1) = k * L - k /\ (k - 1) * L = k * L - L /\ k * L \in Int
    OBVIOUS
  <2>1. CASE i - k >= 1
    <3>1. i - 1 + k * (L - 1) = (i - 1 - k) + k * L /\ i - 1 - k \in 0 .. L - 1
      BY <2>0, <2>1
    <3> QED
      BY <1>1, <2>1, <3>1 DEF Pos
  <2>2. CASE i - k < 1
    <3>1. i - 1 + k * (L - 1) = (i - 1 - k + L) + (k - 1) * L
          /\ i - 1 - k + L \in 0 .. L - 1 /\ k - 1 \in Nat
      BY <2>0, <2>2
    <3> QED
      BY <1>1, <2>2, <3>1 DEF Pos
  <2> QED
    BY <2>1, <2>2
<1> QED
  BY <1>2, <1>3

-----------------------------------------------------------------------------
(***************************************************************************)
(* Lists without duplicates.                                               *)
(***************************************************************************)
Distinct(o) == \A i, j \in 1 .. Len(o) : o[i] = o[j] => i = j

\* o consists of the items of s, which has no duplicates.
Lists(o, s) == o \in Seq(Nodes) /\ Len(o) = Len(s) /\ Range(o) = Range(s) /\ Distinct(o)

LEMMA RangeFacts ==
    ASSUME NEW o \in Seq(Nodes)
    PROVE  /\ Len(o) \in Nat /\ DOMAIN o = 1 .. Len(o)
           /\ Range(o) = {o[i] : i \in 1 .. Len(o)} /\ Range(o) \subseteq Nodes
           /\ \A i \in 1 .. Len(o) : o[i] \in Nodes /\ o[i] \in Range(o)
           /\ \A p \in Range(o) : \E i \in 1 .. Len(o) : o[i] = p
<1>1. Len(o) \in Nat /\ DOMAIN o = 1 .. Len(o)
  BY LenProperties
<1>2. \A i \in 1 .. Len(o) : o[i] \in Nodes
  BY ElementOfSeq
<1> QED
  BY <1>1, <1>2 DEF Range

LEMMA CountFacts ==
    ASSUME NEW o \in Seq(Nodes), Distinct(o)
    PROVE  /\ IsFiniteSet(Range(o)) /\ Cardinality(Range(o)) = Len(o)
           /\ Cardinality(Nodes) \in Nat /\ Len(o) <= Cardinality(Nodes)
<1>1. Len(o) \in Nat /\ o \in [1 .. Len(o) -> Range(o)]
  BY RangeFacts, LenProperties DEF Range
<1>2. o \in Bijection(1 .. Len(o), Range(o))
  BY <1>1, RangeFacts DEF Distinct, Bijection, Injection, Surjection, IsInjective
<1>3. ExistsBijection(1 .. Len(o), Range(o))
  BY <1>2 DEF ExistsBijection
<1>4. IsFiniteSet(Range(o)) /\ Cardinality(Range(o)) = Len(o)
  BY <1>1, <1>3, FS_NatBijection, FS_CountingElements
<1>5. Range(o) \in SUBSET Nodes
  BY RangeFacts
<1> QED
  BY <1>4, <1>5, NodesAssumption, FS_Subset, FS_CardinalityType

LEMMA UpTo ==
    ASSUME NEW n \in Nat PROVE IsFiniteSet(1 .. n) /\ Cardinality(1 .. n) = n
<1>1. IsFiniteSet(1 .. n) /\ Cardinality(1 .. n) = IF 1 > n THEN 0 ELSE n - 1 + 1
  BY FS_Interval
<1> QED
  BY <1>1

\* A list onto the items of another of its length has no duplicates either.
LEMMA OrdersFacts ==
    ASSUME NEW s \in Seq(Nodes), Distinct(s), NEW o
    PROVE  o \in Orders(s) <=> Lists(o, s)
<1>1. /\ Len(s) \in Nat /\ DOMAIN s = 1 .. Len(s) /\ Range(s) \subseteq Nodes
      /\ IsFiniteSet(Range(s)) /\ Cardinality(Range(s)) = Len(s)
  BY RangeFacts, CountFacts
<1>2. ASSUME o \in Orders(s) PROVE Lists(o, s)
  <2>1. o \in [1 .. Len(s) -> Range(s)] /\ Range(o) = Range(s)
    BY <1>1, <1>2 DEF Orders
  <2>2. o \in Surjection(1 .. Len(s), Range(s))
    <3>1. Range(o) = {o[i] : i \in 1 .. Len(s)}
      BY <2>1 DEF Range
    <3>2. \A w \in Range(s) : \E i \in 1 .. Len(s) : o[i] = w
      BY <2>1, <3>1
    <3> QED
      BY <2>1, <3>2 DEF Surjection
  <2>3. IsFiniteSet(1 .. Len(s)) /\ Cardinality(1 .. Len(s)) = Len(s)
    BY <1>1, UpTo
  <2>4. o \in Injection(1 .. Len(s), Range(s))
    BY <1>1, <2>2, <2>3, FS_SurjSameCardinalityImpliesInj
  <2>5. o = [i \in 1 .. Len(s) |-> o[i]] /\ \A i \in 1 .. Len(s) : o[i] \in Nodes
    BY <1>1, <2>1
  <2>6. o \in Seq(Nodes) /\ Len(o) = Len(s)
    BY <1>1, <2>5, IsASeq
  <2>7. Distinct(o)
    BY <2>4, <2>6 DEF Distinct, Injection, IsInjective
  <2> QED
    BY <2>1, <2>6, <2>7 DEF Lists
<1>3. ASSUME Lists(o, s) PROVE o \in Orders(s)
  <2>1. o \in [1 .. Len(s) -> Range(s)] /\ Range(o) = Range(s)
    BY <1>3, RangeFacts, LenProperties DEF Lists
  <2> QED
    BY <1>1, <2>1 DEF Orders
<1> QED
  BY <1>2, <1>3

\* A list without its k-th item.
LEMMA WithoutFacts ==
    ASSUME NEW o \in Seq(Nodes), Distinct(o), NEW k \in 1 .. Len(o)
    PROVE  /\ Without(o, k) \in Seq(Nodes) /\ Len(Without(o, k)) = Len(o) - 1
           /\ \A i \in 1 .. Len(o) - 1 :
                Without(o, k)[i] = IF i < k THEN o[i] ELSE o[i + 1]
           /\ Distinct(Without(o, k)) /\ Range(Without(o, k)) = Range(o) \ {o[k]}
<1> DEFINE a == SubSeq(o, 1, k - 1)
           b == SubSeq(o, k + 1, Len(o))
           w == Without(o, k)
<1>1. /\ Len(o) \in Nat /\ k \in Int /\ k - 1 \in Int /\ k + 1 \in Int /\ 1 \in Int
      /\ \A i \in 1 .. Len(o) : o[i] \in Nodes
  BY RangeFacts
<1>2. a \in Seq(Nodes) /\ Len(a) = k - 1 /\ \A i \in 1 .. k - 1 : a[i] = o[i]
  <2>1. /\ a \in Seq(Nodes) /\ Len(a) = IF 1 <= k - 1 THEN k - 1 - 1 + 1 ELSE 0
        /\ \A i \in 1 .. k - 1 - 1 + 1 : a[i] = o[1 + i - 1]
    BY <1>1, SubSeqProperties
  <2> QED
    BY <1>1, <2>1
<1>3. b \in Seq(Nodes) /\ Len(b) = Len(o) - k /\ \A i \in 1 .. Len(o) - k : b[i] = o[k + i]
  <2>1. /\ b \in Seq(Nodes) /\ Len(b) = IF k + 1 <= Len(o) THEN Len(o) - (k + 1) + 1 ELSE 0
        /\ \A i \in 1 .. Len(o) - (k + 1) + 1 : b[i] = o[k + 1 + i - 1]
    BY <1>1, SubSeqProperties
  <2> QED
    BY <1>1, <2>1
<1> HIDE DEF a, b
<1>4. /\ w \in Seq(Nodes) /\ Len(w) = Len(a) + Len(b)
      /\ \A i \in 1 .. Len(a) + Len(b) : w[i] = IF i <= Len(a) THEN a[i] ELSE b[i - Len(a)]
  <2>1. w = a \o b
    BY DEF Without, a, b
  <2>2. /\ a \o b \in Seq(Nodes) /\ Len(a \o b) = Len(a) + Len(b)
        /\ \A i \in 1 .. Len(a) + Len(b) :
              (a \o b)[i] = IF i <= Len(a) THEN a[i] ELSE b[i - Len(a)]
    BY <1>2, <1>3, ConcatProperties
  <2> HIDE DEF w
  <2> QED
    BY <2>1, <2>2
<1> HIDE DEF w
<1>5. Len(w) = Len(o) - 1
  BY <1>1, <1>2, <1>3, <1>4
<1>6. \A i \in 1 .. Len(o) - 1 : w[i] = IF i < k THEN o[i] ELSE o[i + 1]
  <2> SUFFICES ASSUME NEW i \in 1 .. Len(o) - 1
               PROVE  w[i] = IF i < k THEN o[i] ELSE o[i + 1]
    OBVIOUS
  <2>1. CASE i < k
    <3>1. i \in 1 .. k - 1 /\ i <= Len(a) /\ i \in 1 .. Len(a) + Len(b)
      BY <1>1, <1>2, <1>3, <2>1
    <3> QED
      BY <1>2, <1>4, <2>1, <3>1
  <2>2. CASE i >= k
    <3>1. i - (k - 1) \in 1 .. Len(o) - k /\ k + (i - (k - 1)) = i + 1
      BY <1>1, <2>2
    <3>2. w[i] = b[i - (k - 1)]
      <4>1. i \in 1 .. Len(a) + Len(b) /\ ~(i <= Len(a)) /\ Len(a) = k - 1
        BY <1>1, <1>2, <1>3, <2>2
      <4> QED
        BY <4>1, <1>4
    <3>3. w[i] = o[i + 1]
      BY <1>3, <3>1, <3>2
    <3> QED
      BY <1>1, <2>2, <3>3
  <2> QED
    BY <1>1, <2>1, <2>2
<1>7. Distinct(w)
  BY <1>1, <1>5, <1>6 DEF Distinct
<1>8. Range(w) = {w[i] : i \in 1 .. Len(w)} /\ Range(o) = {o[i] : i \in 1 .. Len(o)}
  BY <1>4, RangeFacts
<1>9. ASSUME NEW p \in Range(w) PROVE p \in Range(o) \ {o[k]}
  BY <1>1, <1>5, <1>6, <1>8 DEF Distinct
<1>10. ASSUME NEW p \in Range(o) \ {o[k]} PROVE p \in Range(w)
  <2>1. PICK j \in 1 .. Len(o) : o[j] = p /\ j # k
    BY <1>8
  <2>2. CASE j < k
    <3>1. j \in 1 .. Len(w) /\ w[j] = p
      BY <1>1, <1>5, <1>6, <2>1, <2>2
    <3> QED
      BY <1>8, <3>1
  <2>3. CASE j > k
    <3>1. j - 1 \in 1 .. Len(w) /\ w[j - 1] = o[j - 1 + 1] /\ j - 1 + 1 = j
      BY <1>1, <1>5, <1>6, <2>1, <2>3
    <3> QED
      BY <1>8, <2>1, <3>1
  <2> QED
    BY <1>1, <2>1, <2>2, <2>3
<1> QED
  BY <1>4, <1>5, <1>6, <1>7, <1>9, <1>10 DEF w

\* A list with a new item after its i-th.
LEMMA InsertFacts ==
    ASSUME NEW o \in Seq(Nodes), Distinct(o), NEW p \in Nodes \ Range(o),
           NEW i \in 0 .. Len(o)
    PROVE  LET n == SubSeq(o, 1, i) \o <<p>> \o SubSeq(o, i + 1, Len(o))
           IN  /\ n \in Seq(Nodes) /\ Len(n) = Len(o) + 1
               /\ Distinct(n) /\ Range(o) \subseteq Range(n)
<1> DEFINE a == SubSeq(o, 1, i)
           b == SubSeq(o, i + 1, Len(o))
           n == a \o <<p>> \o b
<1>1. /\ Len(o) \in Nat /\ i \in Int /\ i + 1 \in Int /\ 1 \in Int
      /\ \A j \in 1 .. Len(o) : o[j] \in Nodes /\ o[j] # p
  BY RangeFacts
<1>2. a \in Seq(Nodes) /\ Len(a) = i /\ \A j \in 1 .. i : a[j] = o[j]
  <2>1. /\ a \in Seq(Nodes) /\ Len(a) = IF 1 <= i THEN i - 1 + 1 ELSE 0
        /\ \A j \in 1 .. i - 1 + 1 : a[j] = o[1 + j - 1]
    BY <1>1, SubSeqProperties
  <2> QED
    BY <1>1, <2>1
<1>3. b \in Seq(Nodes) /\ Len(b) = Len(o) - i /\ \A j \in 1 .. Len(o) - i : b[j] = o[i + j]
  <2>1. /\ b \in Seq(Nodes) /\ Len(b) = IF i + 1 <= Len(o) THEN Len(o) - (i + 1) + 1 ELSE 0
        /\ \A j \in 1 .. Len(o) - (i + 1) + 1 : b[j] = o[i + 1 + j - 1]
    BY <1>1, SubSeqProperties
  <2> QED
    BY <1>1, <2>1
<1> HIDE DEF a, b
<1>4. <<p>> \in Seq(Nodes) /\ Len(<<p>>) = 1 /\ <<p>>[1] = p
  OBVIOUS
<1>5. /\ a \o <<p>> \in Seq(Nodes) /\ Len(a \o <<p>>) = i + 1
      /\ \A j \in 1 .. i + 1 : (a \o <<p>>)[j] = IF j <= i THEN a[j] ELSE <<p>>[j - i]
  BY <1>2, <1>4, ConcatProperties
<1>6. /\ n \in Seq(Nodes) /\ Len(n) = Len(o) + 1
      /\ \A j \in 1 .. Len(o) + 1 :
            n[j] = IF j <= i + 1 THEN (a \o <<p>>)[j] ELSE b[j - (i + 1)]
  <2>1. /\ n \in Seq(Nodes) /\ Len(n) = Len(a \o <<p>>) + Len(b)
        /\ \A j \in 1 .. Len(a \o <<p>>) + Len(b) :
              n[j] = IF j <= Len(a \o <<p>>) THEN (a \o <<p>>)[j] ELSE b[j - Len(a \o <<p>>)]
    BY <1>3, <1>5, ConcatProperties
  <2> QED
    BY <1>1, <1>3, <1>5, <2>1
<1> HIDE DEF n
<1>7. \A j \in 1 .. Len(o) + 1 :
        n[j] = IF j <= i THEN o[j] ELSE IF j = i + 1 THEN p ELSE o[j - 1]
  <2> SUFFICES ASSUME NEW j \in 1 .. Len(o) + 1
               PROVE  n[j] = IF j <= i THEN o[j] ELSE IF j = i + 1 THEN p ELSE o[j - 1]
    OBVIOUS
  <2>1. CASE j <= i
    BY <1>1, <1>2, <1>5, <1>6, <2>1
  <2>2. CASE j = i + 1
    <3>1. n[j] = <<p>>[j - i] /\ j - i = 1
      BY <1>1, <1>5, <1>6, <2>2
    <3> QED
      BY <1>1, <1>4, <2>2, <3>1
  <2>3. CASE j > i + 1
    <3>1. j - (i + 1) \in 1 .. Len(o) - i /\ i + (j - (i + 1)) = j - 1 /\ ~(j <= i + 1)
      BY <1>1, <2>3
    <3>2. n[j] = b[j - (i + 1)]
      BY <1>6, <3>1
    <3>3. n[j] = o[j - 1]
      BY <1>3, <3>1, <3>2
    <3> QED
      BY <1>1, <2>3, <3>3
  <2> QED
    BY <1>1, <2>1, <2>2, <2>3
<1>8. Distinct(n)
  <2> SUFFICES ASSUME NEW j \in 1 .. Len(o) + 1, NEW k \in 1 .. Len(o) + 1, n[j] = n[k]
               PROVE  j = k
    BY <1>6 DEF Distinct
  <2>1. CASE j = i + 1 \/ k = i + 1
    BY <1>1, <1>7, <2>1
  <2>2. CASE j # i + 1 /\ k # i + 1
    <3> DEFINE x(l) == IF l <= i THEN l ELSE l - 1
    <3>1. n[j] = o[x(j)] /\ n[k] = o[x(k)] /\ x(j) \in 1 .. Len(o) /\ x(k) \in 1 .. Len(o)
      BY <1>1, <1>7, <2>2
    <3>2. x(j) = x(k)
      BY <3>1 DEF Distinct
    <3> QED
      BY <1>1, <2>2, <3>2
  <2> QED
    BY <2>1, <2>2
<1>9. Range(o) \subseteq Range(n)
  <2>1. Range(n) = {n[j] : j \in 1 .. Len(n)} /\ Range(o) = {o[j] : j \in 1 .. Len(o)}
    BY <1>6, RangeFacts
  <2>2. ASSUME NEW j \in 1 .. Len(o) PROVE o[j] \in Range(n)
    <3>1. CASE j <= i
      BY <1>1, <1>6, <1>7, <2>1, <3>1
    <3>2. CASE j > i
      <4>1. j + 1 \in 1 .. Len(n) /\ n[j + 1] = o[j + 1 - 1] /\ j + 1 - 1 = j
        BY <1>1, <1>6, <1>7, <3>2
      <4> QED
        BY <2>1, <4>1
    <3> QED
      BY <1>1, <3>1, <3>2
  <2> QED
    BY <2>1, <2>2
<1> QED
  BY <1>6, <1>8, <1>9 DEF n, a, b

-----------------------------------------------------------------------------
(***************************************************************************)
(* The chain.                                                              *)
(***************************************************************************)
LEMMA ChainFacts ==
    ASSUME NEW o \in Seq(Nodes), o # <<>>, NEW c
    PROVE  IsChain(o, c) <=>
             /\ c.size = Len(o) /\ c.head = o[1] /\ c.tail = o[Len(o)]
             /\ \A i \in 1 .. Len(o) : c.next[o[i]] = IF i = Len(o) THEN Null ELSE o[i + 1]
             /\ \A i \in 1 .. Len(o) : c.prev[o[i]] = IF i = 1 THEN Null ELSE o[i - 1]
<1>1. DOMAIN o = 1 .. Len(o)
  BY LenProperties
<1> QED
  BY <1>1 DEF IsChain

LEMMA NoChainFacts == NoChain \in Chains /\ IsChain(<<>>, NoChain)
  BY BoundAssumption DEF NoChain, Chains, Links, IsChain

\* SetShuffle links the items in the order it was given.
LEMMA LinkedFacts ==
    ASSUME NEW o \in Seq(Nodes), Distinct(o), Len(o) \in 1 .. MaxLen, NEW c \in Chains
    PROVE  Linked(o, c) \in Chains /\ IsChain(o, Linked(o, c))
<1> DEFINE at(p) == CHOOSE i \in 1 .. Len(o) : o[i] = p
           next == [p \in Nodes |-> IF p \notin Range(o) THEN c.next[p]
                                    ELSE IF at(p) = Len(o) THEN Null ELSE o[at(p) + 1]]
           prev == [p \in Nodes |-> IF p \notin Range(o) THEN c.prev[p]
                                    ELSE IF at(p) = 1 THEN Null ELSE o[at(p) - 1]]
<1>1. /\ Len(o) \in Nat \ {0} /\ DOMAIN o = 1 .. Len(o)
      /\ \A i \in 1 .. Len(o) : o[i] \in Nodes /\ o[i] \in Range(o)
      /\ \A p \in Range(o) : \E i \in 1 .. Len(o) : o[i] = p
  BY RangeFacts
<1>2. \A i \in 1 .. Len(o) : at(o[i]) = i
  BY DEF Distinct
<1>3. \A p \in Range(o) : at(p) \in 1 .. Len(o)
  BY <1>1
<1>4. Linked(o, c) = [next |-> next, prev |-> prev, head |-> o[1], tail |-> o[Len(o)],
                      size |-> Len(o)]
  BY DEF Linked
<1> HIDE DEF at
<1>5. c.next \in Links /\ c.prev \in Links
  BY DEF Chains
<1>6. next \in Links
  <2> SUFFICES ASSUME NEW p \in Nodes
               PROVE  (IF p \notin Range(o) THEN c.next[p]
                       ELSE IF at(p) = Len(o) THEN Null ELSE o[at(p) + 1]) \in Nodes \cup {Null}
    BY DEF Links
  <2>1. CASE p \notin Range(o)
    BY <1>5, <2>1 DEF Links
  <2>2. CASE p \in Range(o)
    <3>1. at(p) \in 1 .. Len(o) /\ (at(p) # Len(o) => at(p) + 1 \in 1 .. Len(o))
      BY <1>1, <1>3, <2>2
    <3> QED
      BY <1>1, <3>1, <2>2
  <2> QED
    BY <2>1, <2>2
<1>7. prev \in Links
  <2> SUFFICES ASSUME NEW p \in Nodes
               PROVE  (IF p \notin Range(o) THEN c.prev[p]
                       ELSE IF at(p) = 1 THEN Null ELSE o[at(p) - 1]) \in Nodes \cup {Null}
    BY DEF Links
  <2>1. CASE p \notin Range(o)
    BY <1>5, <2>1 DEF Links
  <2>2. CASE p \in Range(o)
    BY <1>1, <1>3, <2>2
  <2> QED
    BY <2>1, <2>2
<1>8. /\ \A i \in 1 .. Len(o) : next[o[i]] = IF i = Len(o) THEN Null ELSE o[i + 1]
      /\ \A i \in 1 .. Len(o) : prev[o[i]] = IF i = 1 THEN Null ELSE o[i - 1]
  BY <1>1, <1>2
<1> HIDE DEF next, prev
<1>9. Linked(o, c) \in Chains
  BY <1>1, <1>4, <1>6, <1>7, BoundAssumption DEF Chains
<1>10. IsChain(o, Linked(o, c))
  <2>1. /\ Linked(o, c).next = next /\ Linked(o, c).prev = prev /\ Linked(o, c).size = Len(o)
        /\ Linked(o, c).head = o[1] /\ Linked(o, c).tail = o[Len(o)]
    BY <1>4
  <2>2. o # <<>>
    BY <1>1
  <2> QED
    BY <1>8, <2>1, <2>2, ChainFacts
<1> QED
  BY <1>9, <1>10

\* Every link of a chain leads to another of its items.
LEMMA LinkFacts ==
    ASSUME NEW o \in Seq(Nodes), Distinct(o), IsChain(o, chain), NEW k \in 1 .. Len(o)
    PROVE  /\ o[k] = chain.head <=> k = 1
           /\ o[k] = chain.tail <=> k = Len(o)
           /\ k # 1 => chain.prev[o[k]] = o[k - 1]
           /\ k # Len(o) => chain.next[o[k]] = o[k + 1]
           /\ chain.size = Len(o)
           /\ Written(o[k]) \subseteq Range(o)
<1>1. /\ Len(o) \in Nat \ {0} /\ DOMAIN o = 1 .. Len(o) /\ o # <<>>
      /\ \A i \in 1 .. Len(o) : o[i] \in Range(o)
  BY RangeFacts
<1>2. /\ chain.head = o[1] /\ chain.tail = o[Len(o)] /\ chain.size = Len(o)
      /\ chain.next[o[k]] = IF k = Len(o) THEN Null ELSE o[k + 1]
      /\ chain.prev[o[k]] = IF k = 1 THEN Null ELSE o[k - 1]
  BY <1>1, ChainFacts
<1>3. (o[k] = chain.head <=> k = 1) /\ (o[k] = chain.tail <=> k = Len(o))
  <2>1. 1 \in 1 .. Len(o) /\ Len(o) \in 1 .. Len(o)
    BY <1>1
  <2> QED
    BY <1>2, <2>1 DEF Distinct
<1>4. Written(o[k]) \subseteq Range(o)
  <2>1. k # 1 => chain.prev[o[k]] \in Range(o)
    <3>1. k # 1 => k - 1 \in 1 .. Len(o)
      BY <1>1
    <3> QED
      BY <1>1, <1>2, <3>1
  <2>2. k # Len(o) => chain.next[o[k]] \in Range(o)
    <3>1. k # Len(o) => k + 1 \in 1 .. Len(o)
      <4> SUFFICES ASSUME NEW l \in Nat, l = Len(o) PROVE k # l => k + 1 \in 1 .. l
        BY <1>1
      <4> QED
        OBVIOUS
    <3> QED
      BY <1>1, <1>2, <3>1
  <2> QED
    BY <1>3, <2>1, <2>2 DEF Written
<1> QED
  BY <1>2, <1>3, <1>4

\* RemoveAt unlinks the item and leaves a chain of the others.
LEMMA UnlinkedFacts ==
    ASSUME NEW o \in Seq(Nodes), Distinct(o), IsChain(o, chain), chain \in Chains,
           NEW k \in 1 .. Len(o)
    PROVE  IsChain(Without(o, k), Unlinked(o[k]))
<1> SUFFICES ASSUME NEW L \in Nat \ {0}, L = Len(o),
                    NEW n, n = chain.next[o[k]], NEW q, q = chain.prev[o[k]],
                    NEW u, u = Unlinked(o[k]), NEW w, w = Without(o, k)
             PROVE  IsChain(w, u)
  <2>1. Len(o) \in Nat \ {0}
    BY RangeFacts
  <2> QED
    BY <2>1
<1>1. L \in Nat /\ k \in 1 .. L /\ \A i \in 1 .. L : o[i] \in Nodes
  BY RangeFacts
<1>2. /\ w \in Seq(Nodes) /\ Len(w) = L - 1
      /\ \A i \in 1 .. L - 1 : w[i] = IF i < k THEN o[i] ELSE o[i + 1]
  BY WithoutFacts
<1>3. chain.next \in [Nodes -> Nodes \cup {Null}] /\ chain.prev \in [Nodes -> Nodes \cup {Null}]
  BY DEF Chains, Links
<1>4. /\ u.next = IF k = 1 THEN chain.next ELSE [chain.next EXCEPT ![q] = n]
      /\ u.prev = IF k = L THEN chain.prev ELSE [chain.prev EXCEPT ![n] = q]
      /\ u.head = IF k = 1 THEN n ELSE chain.head
      /\ u.tail = IF k = L THEN q ELSE chain.tail
      /\ u.size = chain.size - 1
  BY LinkFacts DEF Unlinked
<1>5. /\ chain.size = L /\ chain.head = o[1] /\ chain.tail = o[L]
      /\ \A i \in 1 .. L : chain.next[o[i]] = IF i = L THEN Null ELSE o[i + 1]
      /\ \A i \in 1 .. L : chain.prev[o[i]] = IF i = 1 THEN Null ELSE o[i - 1]
  <2>1. o # <<>>
    OBVIOUS
  <2> QED
    BY <2>1, ChainFacts
<1>6. /\ n = IF k = L THEN Null ELSE o[k + 1]
      /\ q = IF k = 1 THEN Null ELSE o[k - 1]
  BY <1>1, <1>5
<1>7. \A i, j \in 1 .. L : o[i] = o[j] => i = j
  BY DEF Distinct
<1>8. CASE L = 1
  <2>1. k = 1 /\ w = <<>>
    <3>1. k \in 1 .. 1 /\ Len(w) = 0
      BY <1>1, <1>2, <1>8
    <3> QED
      BY <1>2, <3>1, EmptySeq
  <2>2. Len(w) = 0
    BY <1>2, <1>8
  <2> QED
    BY <1>4, <1>5, <1>6, <1>8, <2>1, <2>2 DEF IsChain
<1>9. CASE L # 1
  <2>1. L > 1 /\ 1 \in 1 .. L - 1 /\ L - 1 \in 1 .. L - 1 /\ L - 1 + 1 = L
    BY <1>1, <1>9
  <2>0. w # <<>>
    BY <1>2, <2>1, EmptySeq
  <2>2. u.head = w[1]
    <3>1. w[1] = IF k = 1 THEN o[2] ELSE o[1]
      BY <1>1, <1>2, <2>1
    <3> QED
      BY <1>1, <1>4, <1>5, <1>6, <2>1, <3>1
  <2>3. u.tail = w[L - 1]
    <3>1. w[L - 1] = IF k = L THEN o[L - 1] ELSE o[L]
      BY <1>1, <1>2, <2>1
    <3> QED
      BY <1>1, <1>4, <1>5, <1>6, <2>1, <3>1
  <2>4. ASSUME NEW i \in 1 .. L - 1
        PROVE  /\ u.next[w[i]] = IF i = L - 1 THEN Null ELSE w[i + 1]
               /\ u.prev[w[i]] = IF i = 1 THEN Null ELSE w[i - 1]
    <3>1. /\ w[i] = IF i < k THEN o[i] ELSE o[i + 1]
          /\ i # L - 1 => w[i + 1] = IF i + 1 < k THEN o[i + 1] ELSE o[i + 1 + 1]
          /\ i # 1 => w[i - 1] = IF i < k + 1 THEN o[i - 1] ELSE o[i]
      <4>1. i # L - 1 => i + 1 \in 1 .. L - 1
        OBVIOUS
      <4>2. i # 1 => i - 1 \in 1 .. L - 1 /\ (i - 1 < k <=> i < k + 1) /\ i - 1 + 1 = i
        BY <1>1
      <4> QED
        BY <1>2, <4>1, <4>2
    <3> DEFINE x == IF i < k THEN i ELSE i + 1
    <3>2. x \in 1 .. L /\ w[i] = o[x] /\ w[i] \in Nodes
      BY <1>1, <3>1
    <3>3. k # 1 /\ w[i] = q <=> i = k - 1
      <4>1. k # 1 => k - 1 \in 1 .. L /\ (x = k - 1 <=> i = k - 1)
        BY <1>1
      <4>2. k = 1 => i # k - 1
        OBVIOUS
      <4> QED
        BY <1>6, <1>7, <3>2, <4>1, <4>2
    <3>4. k # L /\ w[i] = n <=> i = k
      <4>1. k # L => k + 1 \in 1 .. L /\ (x = k + 1 <=> i = k)
        BY <1>1
      <4>2. k = L => i # k
        OBVIOUS
      <4> QED
        BY <1>6, <1>7, <3>2, <4>1, <4>2
    <3>5. u.next[w[i]] = IF i = k - 1 THEN n ELSE chain.next[w[i]]
      BY <1>3, <1>4, <3>2, <3>3
    <3>6. u.prev[w[i]] = IF i = k THEN q ELSE chain.prev[w[i]]
      BY <1>3, <1>4, <3>2, <3>4
    <3>7. u.next[w[i]] = IF i = L - 1 THEN Null ELSE w[i + 1]
      <4>1. CASE i = k - 1
        <5>1. (i = L - 1 <=> k = L) /\ (i # L - 1 => w[i + 1] = o[k + 1])
          BY <1>1, <3>1, <4>1
        <5> QED
          BY <1>6, <3>5, <4>1, <5>1
      <4>2. CASE i < k - 1
        <5>1. w[i] = o[i] /\ i # L - 1 /\ w[i + 1] = o[i + 1] /\ i \in 1 .. L /\ i # L
          BY <1>1, <3>1, <4>2
        <5> QED
          BY <1>5, <3>5, <4>2, <5>1
      <4>3. CASE i >= k
        <5>1. /\ w[i] = o[i + 1] /\ i + 1 \in 1 .. L /\ (i + 1 = L <=> i = L - 1)
              /\ (i # L - 1 => w[i + 1] = o[i + 1 + 1]) /\ i # k - 1
          BY <1>1, <3>1, <4>3
        <5> QED
          BY <1>5, <3>5, <5>1
      <4> QED
        BY <1>1, <4>1, <4>2, <4>3
    <3>8. u.prev[w[i]] = IF i = 1 THEN Null ELSE w[i - 1]
      <4>1. CASE i = k
        <5>1. i # 1 => w[i - 1] = o[k - 1]
          BY <1>1, <3>1, <4>1
        <5> QED
          BY <1>6, <3>6, <4>1, <5>1
      <4>2. CASE i < k
        <5>1. w[i] = o[i] /\ i \in 1 .. L /\ (i # 1 => w[i - 1] = o[i - 1]) /\ i # k
          BY <1>1, <3>1, <4>2
        <5> QED
          BY <1>5, <3>6, <5>1
      <4>3. CASE i > k
        <5>1. /\ w[i] = o[i + 1] /\ i + 1 \in 1 .. L /\ i # 1 /\ w[i - 1] = o[i]
              /\ i + 1 # 1 /\ i + 1 - 1 = i /\ i # k
          BY <1>1, <3>1, <4>3
        <5> QED
          BY <1>5, <3>6, <5>1
      <4> QED
        BY <1>1, <4>1, <4>2, <4>3
    <3> QED
      BY <3>7, <3>8
  <2>5. u.size = L - 1
    BY <1>4, <1>5
  <2>6. /\ \A i \in 1 .. L - 1 : u.next[w[i]] = IF i = L - 1 THEN Null ELSE w[i + 1]
        /\ \A i \in 1 .. L - 1 : u.prev[w[i]] = IF i = 1 THEN Null ELSE w[i - 1]
    BY <2>4
  <2>7. w \in Seq(Nodes) /\ L - 1 = Len(w)
    BY <1>2
  <2>8. /\ u.size = Len(w) /\ u.head = w[1] /\ u.tail = w[Len(w)]
        /\ \A i \in 1 .. Len(w) : u.next[w[i]] = IF i = Len(w) THEN Null ELSE w[i + 1]
        /\ \A i \in 1 .. Len(w) : u.prev[w[i]] = IF i = 1 THEN Null ELSE w[i - 1]
    BY <2>2, <2>3, <2>5, <2>6, <2>7
  <2> QED
    BY ZenonT(30), <2>0, <2>7, <2>8, ChainFacts
<1> QED
  BY <1>8, <1>9

-----------------------------------------------------------------------------
(***************************************************************************)
(* Moving through the list.                                                *)
(***************************************************************************)
Ways == {"next", "previous"}
Wrap(way, c, p) == IF way = "next" THEN NextWrap(c, p) ELSE PrevWrap(c, p)

\* One call leads to the neighbour in the order o, around its ends.
Follows(o, c) ==
    \A way \in Ways, i \in 1 .. Len(o) : Wrap(way, c, o[i]) = o[Pos(way, Len(o), i, 1)]

LEMMA PosFacts ==
    ASSUME NEW way \in Ways, NEW L \in Nat \ {0}, NEW i \in 1 .. L, NEW k \in 0 .. L
    PROVE  /\ Pos(way, L, i, k) \in 1 .. L
           /\ k > 0 => Pos(way, L, i, k) = Pos(way, L, Pos(way, L, i, k - 1), 1)
           /\ Pos(way, L, i, 0) = i /\ Pos(way, L, i, L) = i
           /\ k \in 1 .. L - 1 => Pos(way, L, i, k) # i
<1>1. CASE way = "next"
  BY <1>1 DEF Pos
<1>2. CASE way = "previous"
  BY <1>2 DEF Pos
<1> QED
  BY <1>1, <1>2 DEF Ways

\* The list itself, and a chain that links the items, are such an order.
LEMMA ListFollows ==
    ASSUME order \in Seq(Nodes), Distinct(order), ~m_bShuffle, NEW c
    PROVE  Follows(order, c)
<1> SUFFICES ASSUME NEW i \in 1 .. Count
             PROVE  /\ NextWrap(c, order[i]) = order[Pos("next", Count, i, 1)]
                    /\ PrevWrap(c, order[i]) = order[Pos("previous", Count, i, 1)]
  BY DEF Follows, Ways, Wrap, Count
<1>1. Count \in Nat \ {0} /\ i \in 1 .. Count
  BY RangeFacts DEF Count
<1>2. IndexOf(order[i]) = i
  BY DEF IndexOf, Distinct, Count
<1>3. /\ (i % Count) + 1 = Pos("next", Count, i, 1)
      /\ ((i + Count - 2) % Count) + 1 = Pos("previous", Count, i, 1)
  <2>1. /\ i % Count = IF i = Count THEN 0 ELSE i
        /\ (i + Count - 2) % Count = IF i = 1 THEN Count - 1 ELSE i - 2
    BY <1>1, Around
  <2> HIDE DEF Count
  <2> QED
    BY <1>1, <2>1 DEF Pos
<1> QED
  BY <1>2, <1>3 DEF NextWrap, PrevWrap

LEMMA ChainFollows ==
    ASSUME NEW o \in Seq(Nodes), Distinct(o), NEW c, IsChain(o, c), m_bShuffle
    PROVE  Follows(o, c)
<1> SUFFICES ASSUME NEW i \in 1 .. Len(o), NEW L \in Nat, L = Len(o)
             PROVE  /\ NextWrap(c, o[i]) = o[Pos("next", L, i, 1)]
                    /\ PrevWrap(c, o[i]) = o[Pos("previous", L, i, 1)]
  <2>1. Len(o) \in Nat
    BY RangeFacts
  <2> QED
    BY <2>1 DEF Follows, Ways, Wrap
<1>1. i \in 1 .. L /\ \A j \in 1 .. L : o[j] # Null
  BY RangeFacts, NodesAssumption
<1>2. /\ c.head = o[1] /\ c.tail = o[L]
      /\ c.next[o[i]] = IF i = L THEN Null ELSE o[i + 1]
      /\ c.prev[o[i]] = IF i = 1 THEN Null ELSE o[i - 1]
  <2>1. o # <<>>
    BY EmptySeq
  <2> QED
    BY <2>1, ChainFacts
<1>3. (i # L => i + 1 \in 1 .. L) /\ (i # 1 => i - 1 \in 1 .. L)
  BY <1>1
<1>4. NextWrap(c, o[i]) = IF i = L THEN o[1] ELSE o[i + 1]
  BY <1>1, <1>2, <1>3 DEF NextWrap
<1>5. PrevWrap(c, o[i]) = IF i = 1 THEN o[L] ELSE o[i - 1]
  BY <1>1, <1>2, <1>3 DEF PrevWrap
<1>6. /\ Pos("next", L, i, 1) = IF i = L THEN 1 ELSE i + 1
      /\ Pos("previous", L, i, 1) = IF i = 1 THEN L ELSE i - 1
  BY <1>1 DEF Pos
<1> QED
  BY <1>4, <1>5, <1>6

\* A loop of such calls passes the items in that order, and comes around.
LEMMA WalkFacts ==
    ASSUME order \in Seq(Nodes), Distinct(order), NEW o, Lists(o, order), NEW c,
           Follows(o, c), NEW way \in Ways, NEW i \in 1 .. Count
    PROVE  \A n \in 0 .. Count : Walk(way, c, o[i])[n] = o[Pos(way, Count, i, n)]
<1> DEFINE K == Cardinality(Nodes) + 1
           V == Nodes \cup {Null}
           step == [p \in V |-> IF p \notin Items THEN Null ELSE Wrap(way, c, p)]
           F(g) == [n \in 0 .. K |-> IF n = 0 THEN o[i]
                                     ELSE IF g[n - 1] \notin Items THEN Null
                                     ELSE Wrap(way, c, g[n - 1])]
           w == Walk(way, c, o[i])
<1> SUFFICES ASSUME NEW L \in Nat \ {0}, L = Count
             PROVE  \A n \in 0 .. L : w[n] = o[Pos(way, L, i, n)]
  <2>1. Count \in Nat \ {0}
    BY RangeFacts DEF Count
  <2> QED
    BY <2>1
<1>1. /\ o \in Seq(Nodes) /\ Len(o) = L /\ Distinct(o) /\ i \in 1 .. L
      /\ \A j \in 1 .. L : o[j] \in Nodes /\ o[j] \in Items
      /\ \A p \in Items : \E j \in 1 .. L : o[j] = p
      /\ Items \subseteq Nodes
  BY RangeFacts DEF Lists, Items, Count
<1>2. K \in Nat /\ L < K
  BY CountFacts DEF Count
<1>3. \A j \in 1 .. L : Wrap(way, c, o[j]) = o[Pos(way, L, j, 1)]
  BY <1>1 DEF Follows
<1>4. step \in [V -> V]
  <2> SUFFICES ASSUME NEW p \in Items PROVE Wrap(way, c, p) \in V
    OBVIOUS
  <2>1. PICK j \in 1 .. L : o[j] = p
    BY <1>1
  <2>2. Pos(way, L, j, 1) \in 1 .. L
    BY PosFacts
  <2> QED
    BY <1>1, <1>3, <2>1, <2>2
<1>5. \E g : g = F(g)
  <2>1. o[i] \in V
    BY <1>1
  <2> HIDE DEF K, V, step
  <2>2. PICK g \in [0 .. K -> V] : Iterates(g, K, o[i], step)
    <3>1. K \in Nat
      BY <1>2
    <3> QED
      BY <1>4, <2>1, <3>1, Iterated
  <2>3. ASSUME NEW n \in 0 .. K, n # 0
        PROVE  step[g[n - 1]] = IF g[n - 1] \notin Items THEN Null ELSE Wrap(way, c, g[n - 1])
    <3>1. n - 1 \in 0 .. K
      BY <1>2, <2>3
    <3>2. g[n - 1] \in V
      BY <3>1
    <3> QED
      BY <3>2 DEF step
  <2>4. g = F(g)
    <3>1. \A n \in 0 .. K : g[n] = IF n = 0 THEN o[i] ELSE step[g[n - 1]]
      BY <2>2 DEF Iterates
    <3>2. \A n \in 0 .. K : g[n] = IF n = 0 THEN o[i]
                                    ELSE IF g[n - 1] \notin Items THEN Null
                                    ELSE Wrap(way, c, g[n - 1])
      BY <2>3, <3>1
    <3> QED
      BY <2>2, <3>2
  <2> QED
    BY <2>4
<1>6. w = CHOOSE g : g = F(g)
  BY DEF Walk, Wrap
<1> HIDE DEF w, F
<1>7. w = F(w)
  BY <1>5, <1>6
<1>8. \A n \in 0 .. K : w[n] = IF n = 0 THEN o[i]
                              ELSE IF w[n - 1] \notin Items THEN Null
                              ELSE Wrap(way, c, w[n - 1])
  BY <1>7 DEF F
<1> HIDE DEF K, V, step
<1> DEFINE T == {n \in 0 .. L : w[n] # o[Pos(way, L, i, n)]}
<1>9. SUFFICES ASSUME T # {} PROVE FALSE
  OBVIOUS
<1>10. PICK m \in T : \A n \in T : m <= n
  <2>1. T \in SUBSET Nat
    OBVIOUS
  <2> HIDE DEF T
  <2> QED
    BY <1>9, <2>1, Least
<1>11. m \in 0 .. L /\ w[m] # o[Pos(way, L, i, m)]
  OBVIOUS
<1>12. m # 0
  <2>1. w[0] = o[i]
    BY <1>2, <1>8
  <2>2. Pos(way, L, i, 0) = i
    <3>1. 0 \in 0 .. L
      OBVIOUS
    <3> QED
      BY <1>1, <3>1, PosFacts
  <2> QED
    BY <1>11, <2>1, <2>2
<1>13. m - 1 \in 0 .. L /\ m \in 0 .. K /\ ~(m <= m - 1)
  BY <1>2, <1>11, <1>12
<1>14. w[m - 1] = o[Pos(way, L, i, m - 1)]
  BY <1>10, <1>13
<1>15. /\ Pos(way, L, i, m - 1) \in 1 .. L
       /\ Pos(way, L, i, m) = Pos(way, L, Pos(way, L, i, m - 1), 1)
  <2>1. m > 0
    BY <1>11, <1>12
  <2>2. Pos(way, L, i, m - 1) \in 1 .. L
    BY <1>1, <1>13, PosFacts
  <2>3. Pos(way, L, i, m) = Pos(way, L, Pos(way, L, i, m - 1), 1)
    BY <1>1, <1>11, <2>1, PosFacts
  <2> QED
    BY <2>2, <2>3
<1>16. w[m] = Wrap(way, c, w[m - 1])
  BY <1>1, <1>8, <1>12, <1>13, <1>14, <1>15
<1> QED
  BY <1>3, <1>11, <1>14, <1>15, <1>16
\* m steps on is the first item that can be played, or all the way around.
FirstAt(o, way, i, m) ==
    /\ o[Pos(way, Len(o), i, m)] \notin invalid \/ m = Len(o)
    /\ \A j \in 1 .. m - 1 : o[Pos(way, Len(o), i, j)] \in invalid

\* The loop ends, and ends there.
LEMMA StopFacts ==
    ASSUME order \in Seq(Nodes), Distinct(order), NEW o, Lists(o, order), NEW c,
           Follows(o, c), NEW way \in Ways, NEW i \in 1 .. Count
    PROVE  \E m \in 1 .. Count : /\ FirstAt(o, way, i, m)
                                 /\ Stop(Walk(way, c, o[i]), o[i]) = o[Pos(way, Count, i, m)]
<1> SUFFICES ASSUME NEW L \in Nat \ {0}, L = Count, L = Len(o), i \in 1 .. L,
                    NEW w, w = Walk(way, c, o[i])
             PROVE  \E m \in 1 .. L : /\ FirstAt(o, way, i, m)
                                      /\ Stop(w, o[i]) = o[Pos(way, L, i, m)]
  <2>1. Count \in Nat \ {0} /\ Count = Len(o)
    BY RangeFacts DEF Count, Lists
  <2> QED
    BY <2>1
<1> DEFINE K == Cardinality(Nodes) + 1
           E == Ends(w, o[i])
<1>1. K \in Nat /\ L < K
  <2>1. Cardinality(Nodes) \in Nat /\ Len(order) <= Cardinality(Nodes)
    BY CountFacts
  <2>2. Len(order) = L
    BY DEF Count
  <2> QED
    BY <2>1, <2>2
<1>2. \A n \in 0 .. L : w[n] = o[Pos(way, L, i, n)]
  BY WalkFacts
<1>3. \A n \in 0 .. L : /\ Pos(way, L, i, n) \in 1 .. L /\ Pos(way, L, i, L) = i
                        /\ n \in 1 .. L - 1 => Pos(way, L, i, n) # i
  BY PosFacts
<1>4. \A j \in 1 .. L : o[j] \in Items
  BY RangeFacts DEF Lists, Items
<1>5. \A j, l \in 1 .. L : o[j] = o[l] => j = l
  BY DEF Lists, Distinct
<1>6. \A n \in 1 .. L : n \in E <=> o[Pos(way, L, i, n)] \notin invalid \/ n = L
  <2> SUFFICES ASSUME NEW n \in 1 .. L
               PROVE  n \in E <=> o[Pos(way, L, i, n)] \notin invalid \/ n = L
    OBVIOUS
  <2>1. n \in 0 .. L /\ n \in 1 .. K /\ (n # L => n \in 1 .. L - 1)
    BY <1>1
  <2> HIDE DEF K
  <2>2. w[n] = o[Pos(way, L, i, n)] /\ w[n] \in Items
    BY <1>2, <1>3, <1>4, <2>1
  <2>3. w[n] = o[i] <=> n = L
    BY <1>2, <1>3, <1>5, <2>1
  <2> QED
    BY <2>1, <2>2, <2>3 DEF Ends, K
<1>7. E \in SUBSET Nat /\ L \in E
  <2>1. L \in E
    BY <1>6
  <2> QED
    BY <2>1 DEF Ends
<1> HIDE DEF E, K
<1>8. PICK m \in E : \A n \in E : m <= n
  BY <1>7, Least
<1>9. m \in 1 .. L
  BY <1>7, <1>8 DEF E, Ends
<1>10. Stop(w, o[i]) = w[m]
  <2>1. m = CHOOSE n \in E : \A l \in E : n <= l
    <3>1. \A n \in E : (\A l \in E : n <= l) => n = m
      BY <1>7, <1>8
    <3> QED
      BY <1>8, <3>1
  <2> QED
    BY <1>7, <2>1 DEF Stop, E
<1>11. FirstAt(o, way, i, m)
  <2>1. ASSUME NEW j \in 1 .. m - 1 PROVE o[Pos(way, L, i, j)] \in invalid
    <3>1. j \in 1 .. L /\ ~(m <= j)
      BY <1>9
    <3> QED
      BY <1>6, <1>8, <3>1
  <2> QED
    BY <1>6, <1>8, <1>9, <2>1 DEF FirstAt
<1>12. m \in 0 .. L
  BY <1>9
<1> QED
  BY <1>2, <1>9, <1>10, <1>11, <1>12

\* Which is what it was to find.
LEMMA FirstFacts ==
    ASSUME NEW o, Len(o) \in Nat \ {0}, NEW way \in Ways, NEW i \in 1 .. Len(o),
           NEW m \in 1 .. Len(o), FirstAt(o, way, i, m)
    PROVE  FirstPlayable(o, i, IF way = "next" THEN 1 ELSE Len(o) - 1)
               = o[Pos(way, Len(o), i, m)]
<1> SUFFICES ASSUME NEW L \in Nat \ {0}, L = Len(o), i \in 1 .. L, m \in 1 .. L,
                    NEW step, step = IF way = "next" THEN 1 ELSE L - 1
             PROVE  FirstPlayable(o, i, step) = o[Pos(way, L, i, m)]
  OBVIOUS
<1> DEFINE at(k) == o[((i - 1 + k * step) % L) + 1]
           Is(k) == (at(k) \notin invalid \/ k = L) /\ \A j \in 1 .. k - 1 : at(j) \in invalid
<1>1. \A k \in 0 .. L : at(k) = o[Pos(way, L, i, k)]
  <2> SUFFICES ASSUME NEW k \in 0 .. L
               PROVE  ((i - 1 + k * step) % L) + 1 = Pos(way, L, i, k)
    OBVIOUS
  <2>1. CASE way = "next"
    BY <2>1, Ring
  <2>2. CASE way = "previous"
    BY <2>2, Ring
  <2> QED
    BY <2>1, <2>2 DEF Ways
<1> HIDE DEF at
<1>2. Is(m)
  <2>1. m \in 0 .. L /\ \A j \in 1 .. m - 1 : j \in 0 .. L
    OBVIOUS
  <2> QED
    BY <1>1, <2>1 DEF FirstAt
<1>3. ASSUME NEW k \in 1 .. L, Is(k) PROVE k = m
  <2>1. CASE k < m
    <3>1. k \in 1 .. m - 1 /\ k # L
      BY <2>1
    <3> QED
      BY <1>2, <1>3, <3>1
  <2>2. CASE m < k
    <3>1. m \in 1 .. k - 1 /\ m # L
      BY <2>2
    <3> QED
      BY <1>2, <1>3, <3>1
  <2> QED
    BY <2>1, <2>2
<1>4. m = CHOOSE k \in 1 .. L : Is(k)
  BY <1>2, <1>3
<1>5. FirstPlayable(o, i, step) = at(CHOOSE k \in 1 .. L : Is(k))
  BY DEF FirstPlayable, at
<1>6. m \in 0 .. L
  OBVIOUS
<1> QED
  BY <1>1, <1>4, <1>5, <1>6
LEMMA Finds ==
    ASSUME order \in Seq(Nodes), Distinct(order), NEW o, Lists(o, order), NEW c,
           Follows(o, c), NEW way \in Ways, NEW i \in 1 .. Len(o)
    PROVE  Stop(Walk(way, c, o[i]), o[i])
               = FirstPlayable(o, i, IF way = "next" THEN 1 ELSE Len(o) - 1)
<1>1. Count = Len(o) /\ Len(o) \in Nat \ {0} /\ i \in 1 .. Count
  BY RangeFacts DEF Lists, Count
<1>2. PICK m \in 1 .. Count :
        FirstAt(o, way, i, m) /\ Stop(Walk(way, c, o[i]), o[i]) = o[Pos(way, Count, i, m)]
  BY <1>1, StopFacts
<1>3. m \in 1 .. Len(o)
  BY <1>1
<1> QED
  BY <1>1, <1>2, <1>3, FirstFacts

-----------------------------------------------------------------------------
(***************************************************************************)
(* The invariant.                                                          *)
(***************************************************************************)
Shaped ==
    /\ order \in Seq(Nodes) /\ Count <= MaxLen /\ Distinct(order)
    /\ chain \in Chains
    /\ m_bShuffle \in BOOLEAN
    /\ m_pos \in Items \cup {Null}
    /\ invalid \subseteq Items
    /\ pending \in BOOLEAN /\ lost \in BOOLEAN

\* No call leaves the list unless items are missing and nothing tells.
LostMasked == lost => Masked

\* As long as no item came since it was made, the chain is one of the items.
Chained == m_bShuffle /\ ~pending => \E o : Lists(o, order) /\ IsChain(o, chain)

IInv == Shaped /\ LostMasked /\ Chained

LEMMA Initially == Init => IInv
<1> SUFFICES ASSUME Init PROVE IInv
  OBVIOUS
<1> USE DEF Init
<1>1. order \in Seq(Nodes) /\ Len(order) = 0
  BY EmptySeq
<1>2. Distinct(order) /\ Count <= MaxLen
  BY <1>1, BoundAssumption DEF Distinct, Count
<1>3. Lists(order, order) /\ IsChain(order, chain) /\ chain \in Chains
  BY <1>1, <1>2, NoChainFacts DEF Lists
<1> QED
  BY <1>1, <1>2, <1>3 DEF IInv, Shaped, LostMasked, Chained

LEMMA Listed ==
    ASSUME Shaped
    PROVE  /\ Count \in Nat /\ Items \subseteq Nodes /\ Lists(order, order)
           /\ \A p \in Items : IndexOf(p) \in 1 .. Count /\ order[IndexOf(p)] = p
<1>1. Count \in Nat /\ Items \subseteq Nodes /\ \A p \in Items : \E i \in 1 .. Count : order[i] = p
  BY RangeFacts DEF Shaped, Items, Count
<1> QED
  BY <1>1 DEF Shaped, Lists, IndexOf

LEMMA InsertStep ==
    ASSUME IInv, ~lost, NEW p \in Nodes, NEW i \in 0 .. MaxLen, Insert(p, i)
    PROVE  IInv'
<1> USE DEF IInv
<1>1. /\ order' \in Seq(Nodes) /\ Len(order') = Len(order) + 1
      /\ Distinct(order') /\ Range(order) \subseteq Range(order')
  BY InsertFacts DEF Insert, Shaped, Items, Count
<1>2. chain' \in Chains
  <2>1. [chain.next EXCEPT ![p] = Null] \in Links /\ [chain.prev EXCEPT ![p] = Null] \in Links
    BY DEF Shaped, Chains, Links
  <2> QED
    BY <2>1 DEF Shaped, Chains, Insert
<1>3. Len(order') <= MaxLen
  BY <1>1, Listed, BoundAssumption DEF Insert, Count
<1>4. Shaped'
  BY <1>1, <1>2, <1>3 DEF Insert, Shaped, Items, Count
<1> QED
  BY <1>4 DEF Insert, LostMasked, Chained

LEMMA RemoveStep ==
    ASSUME IInv, ~lost, NEW p \in Nodes, RemoveAt(p)
    PROVE  IInv'
<1> USE DEF IInv
<1> DEFINE k == IndexOf(p)
<1>1. /\ order \in Seq(Nodes) /\ Distinct(order) /\ k \in 1 .. Len(order) /\ order[k] = p
      /\ Len(order) \in Nat /\ Len(order) <= MaxLen /\ p \in Items
  BY Listed DEF RemoveAt, Shaped, Count
<1> HIDE DEF k
<1>2. /\ order' \in Seq(Nodes) /\ Len(order') = Len(order) - 1
      /\ Distinct(order') /\ Items' = Items \ {p}
  BY <1>1, WithoutFacts DEF RemoveAt, k, Items
<1>3. /\ Len(order') <= MaxLen /\ Len(order) # 0
  BY <1>1, <1>2, BoundAssumption
<1>4. ASSUME m_bShuffle, Fresh PROVE chain'.size = Len(order')
  BY <1>2, <1>4 DEF RemoveAt, Fresh, Count, Unlinked
<1>5. chain' \in Chains
  <2>1. /\ chain.next \in Links /\ chain.prev \in Links /\ chain.head \in Nodes \cup {Null}
        /\ chain.tail \in Nodes \cup {Null} /\ chain \in Chains
    BY DEF Shaped, Chains
  <2>2. CASE ~(m_bShuffle /\ Fresh)
    BY <2>1, <2>2 DEF RemoveAt
  <2>3. CASE m_bShuffle /\ Fresh
    <3>1. chain.size - 1 \in 0 .. MaxLen
      <4>1. chain.size = Len(order)
        BY <2>3 DEF Fresh, Count
      <4>2. Len(order) - 1 \in 0 .. MaxLen
        BY <1>1, <1>3, BoundAssumption
      <4> QED
        BY <4>1, <4>2
    <3>2. CASE ~(Written(p) \subseteq Items)
      BY <2>1, <2>3, <3>1, <3>2 DEF RemoveAt, Chains
    <3>3. CASE Written(p) \subseteq Items
      <4>1. chain.next[p] \in Nodes \cup {Null} /\ chain.prev[p] \in Nodes \cup {Null}
        BY <2>1 DEF Links
      <4>2. /\ [chain.next EXCEPT ![chain.prev[p]] = chain.next[p]] \in Links
            /\ [chain.prev EXCEPT ![chain.next[p]] = chain.prev[p]] \in Links
        BY <2>1, <4>1 DEF Links
      <4>3. Unlinked(p) \in Chains
        BY <2>1, <3>1, <4>1, <4>2 DEF Unlinked, Chains
      <4> QED
        BY <2>3, <3>3, <4>3 DEF RemoveAt
    <3> QED
      BY <3>2, <3>3
  <2> QED
    BY <2>2, <2>3
<1>6. Shaped'
  BY <1>2, <1>3, <1>5 DEF RemoveAt, Shaped, Count
<1>7. ASSUME m_bShuffle, ~pending
      PROVE  /\ Fresh /\ Written(p) \subseteq Items
             /\ \E o : Lists(o, order') /\ IsChain(o, chain')
  <2>1. PICK o : Lists(o, order) /\ IsChain(o, chain)
    BY <1>7 DEF Chained
  <2>2. o \in Seq(Nodes) /\ Distinct(o) /\ Len(o) = Len(order) /\ Range(o) = Items
    BY <2>1 DEF Lists, Items
  <2>3. PICK j \in 1 .. Len(o) : o[j] = p
    BY <1>1, <2>2, RangeFacts
  <2>4. chain.size = Len(o) /\ Written(p) \subseteq Items
    BY <2>1, <2>2, <2>3, LinkFacts
  <2>5. Fresh
    BY <2>2, <2>4 DEF Fresh, Count
  <2>6. IsChain(Without(o, j), Unlinked(p))
    BY <2>1, <2>2, <2>3, UnlinkedFacts DEF Shaped
  <2>7. chain' = Unlinked(p)
    BY <1>7, <2>4, <2>5 DEF RemoveAt
  <2>8. Lists(Without(o, j), order')
    <3>1. /\ Without(o, j) \in Seq(Nodes) /\ Len(Without(o, j)) = Len(o) - 1
          /\ Distinct(Without(o, j)) /\ Range(Without(o, j)) = Range(o) \ {o[j]}
      BY <2>2, WithoutFacts
    <3> QED
      BY <1>2, <2>2, <2>3, <3>1 DEF Lists, Items
  <2> QED
    BY <2>4, <2>5, <2>6, <2>7, <2>8
<1>8. Chained'
  BY <1>7 DEF Chained, RemoveAt
<1>9. LostMasked'
  <2> SUFFICES ASSUME lost' PROVE Masked'
    BY DEF LostMasked
  <2>1. m_bShuffle /\ Fresh /\ ~(Written(p) \subseteq Items)
    BY DEF RemoveAt
  <2>2. pending
    BY <1>7, <2>1
  <2> QED
    BY <1>4, <2>1, <2>2 DEF Masked, Fresh, Count, RemoveAt
<1> QED
  BY <1>6, <1>8, <1>9

LEMMA RemoveAllStep ==
    ASSUME IInv, ~lost, RemoveAll
    PROVE  IInv'
<1>1. order' = <<>> /\ order' \in Seq(Nodes) /\ Len(order') = 0
  BY EmptySeq DEF RemoveAll
<1>2. Distinct(order') /\ Len(order') <= MaxLen
  BY <1>1, BoundAssumption DEF Distinct
<1>3. Lists(order', order') /\ IsChain(order', chain') /\ chain' \in Chains
  BY <1>1, <1>2, NoChainFacts DEF Lists, RemoveAll
<1> QED
  BY <1>1, <1>2, <1>3 DEF IInv, Shaped, LostMasked, Chained, RemoveAll, Count

LEMMA ReorderStep ==
    ASSUME IInv, ~lost, Reorder
    PROVE  IInv'
<1>1. Lists(order', order)
  BY OrdersFacts DEF IInv, Shaped, Reorder
<1>2. order' \in Seq(Nodes) /\ Distinct(order') /\ Count' = Count /\ Items' = Items
  BY <1>1 DEF Lists, Items, Count
<1>3. \A o : Lists(o, order) => Lists(o, order')
  BY <1>1 DEF Lists
<1> QED
  BY <1>2, <1>3 DEF IInv, Shaped, LostMasked, Chained, Reorder

LEMMA SetShuffleStep ==
    ASSUME IInv, ~lost, NEW b \in BOOLEAN, SetShuffle(b)
    PROVE  IInv'
<1>1. /\ order \in Seq(Nodes) /\ Distinct(order) /\ Len(order) \in Nat /\ Len(order) <= MaxLen
      /\ Lists(order, order)
  BY Listed DEF IInv, Shaped, Count
<1>2. /\ chain' \in Chains
      /\ b => \E o : Lists(o, order) /\ IsChain(o, chain')
  <2>1. CASE b /\ order # <<>>
    <3>1. PICK o \in Orders(order) : chain' = Linked(o, chain)
      BY <2>1 DEF SetShuffle
    <3>2. Lists(o, order)
      BY <1>1, OrdersFacts
    <3>3. Len(o) \in 1 .. MaxLen
      BY <1>1, <2>1, <3>2, EmptySeq, BoundAssumption DEF Lists
    <3> QED
      BY <3>1, <3>2, <3>3, LinkedFacts DEF Lists, IInv, Shaped
  <2>2. CASE ~(b /\ order # <<>>)
    BY <1>1, <2>2, NoChainFacts DEF SetShuffle
  <2> QED
    BY <2>1, <2>2
<1> QED
  BY <1>2 DEF IInv, Shaped, LostMasked, Chained, SetShuffle, Items, Count

\* Every use of the chain that finds it out of date makes it anew.
LEMMA RefreshStep ==
    ASSUME IInv, NEW o \in Reshuffles, ReshuffleIfNeeded(o), UNCHANGED <<order, m_bShuffle>>
    PROVE  /\ chain' = Refreshed(o) /\ chain' \in Chains /\ pending' \in BOOLEAN
           /\ Chained' /\ (m_bShuffle /\ pending' => Masked')
<1>1. /\ order \in Seq(Nodes) /\ Distinct(order) /\ Len(order) \in Nat /\ Len(order) <= MaxLen
      /\ Lists(order, order)
  BY Listed DEF IInv, Shaped, Count
<1>2. chain' = Refreshed(o) /\ pending' = (pending /\ ~(m_bShuffle /\ ~Fresh))
  BY DEF ReshuffleIfNeeded
<1>3. CASE m_bShuffle /\ ~Fresh
  <2>1. chain' \in Chains /\ \E s : Lists(s, order) /\ IsChain(s, chain')
    <3>1. CASE order = <<>>
      BY <1>1, <1>2, <1>3, <3>1, NoChainFacts DEF Refreshed
    <3>2. CASE order # <<>>
      <4>1. Lists(o, order)
        BY <1>1, <1>3, OrdersFacts DEF Reshuffles
      <4>2. Len(o) \in 1 .. MaxLen
        BY <1>1, <3>2, <4>1, EmptySeq, BoundAssumption DEF Lists
      <4> QED
        BY <1>2, <1>3, <3>2, <4>1, <4>2, LinkedFacts DEF Lists, IInv, Shaped, Refreshed
    <3> QED
      BY <3>1, <3>2
  <2>2. ~pending'
    BY <1>2, <1>3
  <2> QED
    BY <1>2, <2>1, <2>2 DEF Chained
<1>4. CASE ~(m_bShuffle /\ ~Fresh)
  <2>1. chain' = chain /\ pending' = pending
    BY <1>2, <1>4 DEF Refreshed, IInv, Shaped
  <2> QED
    BY <1>2, <1>4, <2>1 DEF IInv, Shaped, Chained, Masked, Fresh, Count
<1> QED
  BY <1>3, <1>4
\* A loop along the list, or along a chain of its items, stays in the list.
LEMMA Stays ==
    ASSUME Shaped, NEW c, m_bShuffle => \E o : Lists(o, order) /\ IsChain(o, c),
           NEW way \in Ways, NEW org \in Items
    PROVE  Stop(Walk(way, c, org), org) \in Items
<1>1. order \in Seq(Nodes) /\ Distinct(order) /\ Lists(order, order) /\ m_bShuffle \in BOOLEAN
  BY Listed DEF Shaped
<1>2. PICK o : Lists(o, order) /\ Follows(o, c)
  <2>1. CASE m_bShuffle
    BY <2>1, ChainFollows DEF Lists
  <2>2. CASE ~m_bShuffle
    BY <1>1, <2>2, ListFollows
  <2> QED
    BY <2>1, <2>2
<1>3. o \in Seq(Nodes) /\ Len(o) = Count /\ Range(o) = Items
  BY <1>2 DEF Lists, Items, Count
<1>4. PICK i \in 1 .. Count : o[i] = org
  BY <1>3, RangeFacts
<1>5. PICK m \in 1 .. Count : Stop(Walk(way, c, o[i]), o[i]) = o[Pos(way, Count, i, m)]
  BY <1>1, <1>2, <1>4, StopFacts
<1>6. Pos(way, Count, i, m) \in 1 .. Count
  <2>1. Count \in Nat \ {0} /\ m \in 0 .. Count /\ i \in 1 .. Count
    BY Listed
  <2> QED
    BY <2>1, PosFacts
<1>7. o[Pos(way, Count, i, m)] \in Items
  BY <1>3, <1>6, RangeFacts
<1> QED
  BY <1>4, <1>5, <1>7

LEMMA EndFacts ==
    ASSUME NEW o \in Seq(Nodes), o # <<>>
    PROVE  o[1] \in Range(o) /\ o[Len(o)] \in Range(o)
<1>1. Len(o) \in Nat /\ Len(o) # 0
  BY EmptySeq, LenProperties
<1>2. 1 \in 1 .. Len(o) /\ Len(o) \in 1 .. Len(o)
  BY <1>1
<1> QED
  BY <1>2, RangeFacts

LEMMA MoveStep ==
    ASSUME IInv, ~lost, NEW way \in Ways, NEW from \in {"current", "first", "last", "last in play"},
           from = "current" => m_pos # Null, Move(way, from)
    PROVE  IInv'
<1>1. /\ order' = order /\ m_bShuffle' = m_bShuffle /\ invalid' = invalid /\ order # <<>>
      /\ Count' = Count /\ Items' = Items
  BY DEF Move, Count, Items
<1>2. PICK o \in Reshuffles :
        /\ ReshuffleIfNeeded(o)
        /\ Go(Stop(Walk(way, Refreshed(o), Origin(from, Refreshed(o))),
                   Origin(from, Refreshed(o))))
  BY DEF Move
<1>3. /\ chain' = Refreshed(o) /\ chain' \in Chains /\ pending' \in BOOLEAN
      /\ Chained' /\ (m_bShuffle /\ pending' => Masked')
  BY <1>1, <1>2, RefreshStep
<1> DEFINE org == Origin(from, chain')
           pos == Stop(Walk(way, chain', org), org)
<1>4. Go(pos)
  BY <1>2, <1>3
<1>5. Shaped'
  <2>1. m_pos' \in Items \cup {Null} /\ lost' \in BOOLEAN
    BY <1>4 DEF Go, IInv, Shaped
  <2> QED
    BY <1>1, <1>3, <2>1 DEF IInv, Shaped
<1>6. ASSUME ~Masked' PROVE ~lost'
  <2>1. m_bShuffle => \E s : Lists(s, order) /\ IsChain(s, chain')
    BY <1>1, <1>3, <1>6 DEF Chained
  <2>2. order[1] \in Items /\ order[Count] \in Items
    <3>1. order # <<>> /\ order \in Seq(Nodes)
      BY <1>1 DEF IInv, Shaped
    <3> QED
      BY <3>1, EndFacts DEF Items, Count
  <2>3. m_bShuffle => chain'.tail \in Items
    <3> SUFFICES ASSUME m_bShuffle PROVE chain'.tail \in Items
      OBVIOUS
    <3>1. PICK s : Lists(s, order) /\ IsChain(s, chain')
      BY <2>1
    <3>2. Len(s) = Len(order) /\ order \in Seq(Nodes) /\ s \in Seq(Nodes) /\ Range(s) = Items
      BY <3>1 DEF Lists, IInv, Shaped, Items
    <3>3. s # <<>>
      BY <1>1, <3>2, EmptySeq
    <3> QED
      BY <3>1, <3>2, <3>3, EndFacts, ChainFacts
  <2>4. org \in Items
    BY <2>2, <2>3 DEF Origin, IInv, Shaped
  <2>5. pos \in Items
    BY <2>1, <2>4, Stays DEF IInv
  <2> QED
    BY <1>4, <2>5 DEF Go
<1> QED
  BY <1>3, <1>5, <1>6 DEF IInv, LostMasked

LEMMA IsAtEndStep ==
    ASSUME IInv, ~lost, IsAtEnd
    PROVE  IInv'
<1>1. UNCHANGED <<order, m_bShuffle, m_pos, invalid, lost>> /\ Count' = Count /\ Items' = Items
  BY DEF IsAtEnd, Count, Items
<1>2. PICK o \in Reshuffles : ReshuffleIfNeeded(o)
  BY DEF IsAtEnd
<1>3. chain' \in Chains /\ pending' \in BOOLEAN /\ Chained'
  BY <1>1, <1>2, RefreshStep
<1> QED
  BY <1>1, <1>3 DEF IInv, Shaped, LostMasked

LEMMA SetPosStep ==
    ASSUME IInv, ~lost, NEW p \in Nodes, SetPos(p)
    PROVE  IInv'
<1>1. UNCHANGED <<order, chain, m_bShuffle, invalid, pending, lost>> /\ m_pos' \in Items
  BY DEF SetPos
<1> QED
  BY <1>1 DEF IInv, Shaped, LostMasked, Chained, Count, Items

LEMMA SetCurValidStep ==
    ASSUME IInv, ~lost, NEW b \in BOOLEAN, SetCurValid(b)
    PROVE  IInv'
<1>1. /\ UNCHANGED <<order, chain, m_bShuffle, m_pos, pending, lost>>
      /\ invalid' \subseteq Items
  BY DEF SetCurValid, IInv, Shaped
<1> QED
  BY <1>1 DEF IInv, Shaped, LostMasked, Chained, Count, Items

LEMMA Step == IInv /\ [Next]_vars => IInv'
<1> SUFFICES ASSUME IInv, [Next]_vars PROVE IInv'
  OBVIOUS
<1>1. CASE UNCHANGED vars
  BY <1>1 DEF IInv, Shaped, LostMasked, Chained, Masked, Fresh, Count, Items, vars
<1>2. CASE Next
  <2> USE <1>2
  <2>0. ~lost
    BY DEF Next
  <2>1. ASSUME NEW p \in Nodes, NEW i \in 0 .. MaxLen, Insert(p, i) PROVE IInv'
    BY <2>0, <2>1, InsertStep
  <2>2. ASSUME NEW p \in Nodes, RemoveAt(p) PROVE IInv'
    BY <2>0, <2>2, RemoveStep
  <2>3. CASE RemoveAll
    BY <2>0, <2>3, RemoveAllStep
  <2>4. CASE Reorder
    BY <2>0, <2>4, ReorderStep
  <2>5. ASSUME NEW b \in BOOLEAN, SetShuffle(b) PROVE IInv'
    BY <2>0, <2>5, SetShuffleStep
  <2>6. CASE SetNext
    BY <2>0, <2>6, MoveStep DEF SetNext, Ways
  <2>7. CASE SetPrev
    BY <2>0, <2>7, MoveStep DEF SetPrev, Ways
  <2>8. CASE SetFirst
    BY <2>0, <2>8, MoveStep DEF SetFirst, Ways
  <2>9. CASE SetLast
    BY <2>0, <2>9, MoveStep DEF SetLast, Ways
  <2>10. CASE SetFirstSelected
    BY <2>0, <2>10, MoveStep DEF SetFirstSelected, Ways
  <2>11. CASE IsAtEnd
    BY <2>0, <2>11, IsAtEndStep
  <2>12. ASSUME NEW p \in Nodes, SetPos(p) PROVE IInv'
    BY <2>0, <2>12, SetPosStep
  <2>13. ASSUME NEW b \in BOOLEAN, SetCurValid(b) PROVE IInv'
    BY <2>0, <2>13, SetCurValidStep
  <2> QED
    BY <2>1, <2>2, <2>3, <2>4, <2>5, <2>6, <2>7, <2>8, <2>9, <2>10, <2>11, <2>12, <2>13
       DEF Next, Edit, Play
<1> QED
  BY <1>1, <1>2

LEMMA Inductive == Spec => []IInv
  BY Initially, Step, PTL DEF Spec

-----------------------------------------------------------------------------
(***************************************************************************)
(* The theorems.                                                           *)
(***************************************************************************)

\* The list has every item once, the current item and those marked as invalid
\* are in it, and the links of the chain are POSITIONs or null.
THEOREM TypeCorrect == Spec => []TypeOK
<1>1. IInv => TypeOK
  BY CountFacts DEF IInv, Shaped, TypeOK, Items, Count
<1> QED
  BY <1>1, Inductive, PTL

\* ReshuffleIfNeeded, RemoveAt, SetShuffle and the sorts keep the shuffled order
\* one of the items of the list, and every move in it, unless items came since
\* it was made and as many went.
THEOREM ChainStays == Spec => []ChainKept
<1>1. IInv => ChainKept
  <2> SUFFICES ASSUME IInv, ~Masked
               PROVE  ~lost /\ (m_bShuffle /\ Fresh => \E o \in Orders(order) : IsChain(o, chain))
    BY DEF ChainKept
  <2>1. \A o : Lists(o, order) => o \in Orders(order)
    BY OrdersFacts DEF IInv, Shaped
  <2> QED
    BY <2>1 DEF IInv, LostMasked, Chained, Masked
<1> QED
  BY <1>1, Inductive, PTL

\* GetNextWrap and GetPrevWrap, called until an item can be played, find the
\* first one in the order of play, or against it.
THEOREM NavigationCorrect == Spec => []NavigationFinds
<1>1. IInv => NavigationFinds
  <2> SUFFICES ASSUME IInv, InStep, NEW i \in DOMAIN PlayOrder
               PROVE  LET p == PlayOrder[i]
                      IN  /\ Stop(Walk("next", chain, p), p) = FirstPlayable(PlayOrder, i, 1)
                          /\ Stop(Walk("previous", chain, p), p)
                                 = FirstPlayable(PlayOrder, i, Len(PlayOrder) - 1)
    BY DEF NavigationFinds
  <2>1. order \in Seq(Nodes) /\ Distinct(order) /\ Lists(order, order) /\ m_bShuffle \in BOOLEAN
    BY Listed DEF IInv, Shaped
  <2>2. Lists(PlayOrder, order) /\ Follows(PlayOrder, chain)
    <3>1. CASE m_bShuffle
      <4>1. PICK o : Lists(o, order) /\ IsChain(o, chain)
        BY <3>1 DEF InStep, IInv, Chained
      <4>2. o \in Orders(order)
        BY <2>1, <4>1, OrdersFacts
      <4>3. PlayOrder \in Orders(order) /\ IsChain(PlayOrder, chain)
        BY <3>1, <4>1, <4>2 DEF PlayOrder
      <4>4. Lists(PlayOrder, order)
        BY <2>1, <4>3, OrdersFacts
      <4> QED
        BY <3>1, <4>3, <4>4, ChainFollows DEF Lists
    <3>2. CASE ~m_bShuffle
      BY <2>1, <3>2, ListFollows DEF PlayOrder
    <3> QED
      BY <2>1, <3>1, <3>2
  <2> SUFFICES ASSUME NEW o, o = PlayOrder
               PROVE  /\ Stop(Walk("next", chain, o[i]), o[i]) = FirstPlayable(o, i, 1)
                      /\ Stop(Walk("previous", chain, o[i]), o[i])
                             = FirstPlayable(o, i, Len(o) - 1)
    OBVIOUS
  <2>3. /\ Lists(o, order) /\ Follows(o, chain) /\ Len(o) = Count /\ i \in 1 .. Len(o)
        /\ Len(o) \in Nat \ {0}
    BY <2>2, RangeFacts DEF Lists, Count
  <2>4. ASSUME NEW way \in Ways
        PROVE  Stop(Walk(way, chain, o[i]), o[i])
                   = FirstPlayable(o, i, IF way = "next" THEN 1 ELSE Len(o) - 1)
    BY <2>1, <2>3, Finds
  <2> QED
    BY <2>4 DEF Ways
<1> QED
  BY <1>1, Inductive, PTL
=============================================================================
