------------------------- MODULE RoutingRulesProofs -------------------------
(***************************************************************************)
(* Proofs about RoutingRules, for every graph, every set of ids and        *)
(* matchers and any number of edits.                                       *)
(***************************************************************************)
EXTENDS RoutingRules, FiniteSetTheorems, SequenceTheorems, WellFoundedInduction, TLAPS

-----------------------------------------------------------------------------
(* Natural numbers and sequences.                                          *)

(* A set of natural numbers that is not empty has a least element.         *)
LEMMA LeastNatural ==
  ASSUME NEW T \in SUBSET Nat, T # {}
  PROVE  \E n \in T : \A m \in T : n <= m
<1> DEFINE R == OpToRel(<, Nat)
<1>1. IsWellFoundedOn(R, Nat)
  BY NatLessThanWellFounded
<1>2. \A x, y \in Nat : x < y => <<x, y>> \in R
  BY DEF OpToRel
<1> HIDE DEF R
<1>3. PICK n \in T : \A m \in T : ~(<<m, n>> \in R)
  BY <1>1, WFMin
<1>4. \A m \in T : ~(m < n)
  BY <1>2, <1>3
<1>5. QED  BY <1>4

(* Induction up to n: a set that holds 0 and every successor holds 0 .. n. *)
LEMMA InductionUpTo ==
  ASSUME NEW n \in Nat, NEW S, 0 \in S, \A m \in 0 .. n - 1 : m \in S => m + 1 \in S
  PROVE  \A m \in 0 .. n : m \in S
<1> DEFINE T == {m \in 0 .. n : m \notin S}
<1>1. SUFFICES ASSUME T # {} PROVE FALSE
  OBVIOUS
<1>2. T \in SUBSET Nat
  OBVIOUS
<1>3. PICK m \in T : \A k \in T : m <= k
  <2> HIDE DEF T
  <2>1. QED  BY <1>1, <1>2, LeastNatural
<1>4. m \in 1 .. n /\ m \notin S
  OBVIOUS
<1>5. m - 1 \in 0 .. n - 1 /\ m - 1 \notin T
  <2>1. m - 1 \in 0 .. n - 1
    BY <1>4
  <2> HIDE DEF T
  <2>2. QED  BY <1>2, <1>3, <2>1
<1>6. QED  BY <1>4, <1>5

(* The length and the elements of a sequence.                              *)
LEMMA Elements ==
  ASSUME NEW S, NEW s \in Seq(S)
  PROVE  Len(s) \in Nat /\ \A i \in 1 .. Len(s) : s[i] \in S
BY LenProperties, ElementOfSeq

(* Two sequences with the same elements, both in the order R, are the same. *)
LEMMA SameSequence ==
  ASSUME NEW S, NEW f \in Seq(S), NEW g \in Seq(S), NEW R,
         \A k \in 1 .. Len(f) : \E l \in 1 .. Len(g) : f[k] = g[l],
         \A l \in 1 .. Len(g) : \E k \in 1 .. Len(f) : g[l] = f[k],
         \A k, l \in 1 .. Len(f) : k < l => <<f[k], f[l]>> \in R /\ <<f[l], f[k]>> \notin R,
         \A k, l \in 1 .. Len(g) : k < l => <<g[k], g[l]>> \in R /\ <<g[l], g[k]>> \notin R
  PROVE  f = g
<1> DEFINE m == Len(f)
           n == Len(g)
           D == {k \in Nat : k \in 1 .. m /\ k \in 1 .. n /\ f[k] # g[k]}
<1>1. m \in Nat /\ n \in Nat
  BY Elements
<1>2. /\ \A k, l \in 1 .. m : f[k] = f[l] => k = l
      /\ \A k, l \in 1 .. n : g[k] = g[l] => k = l
  <2>1. \A k, l \in 1 .. m : k < l \/ l < k \/ k = l
    BY <1>1
  <2>2. \A k, l \in 1 .. n : k < l \/ l < k \/ k = l
    BY <1>1
  <2>3. QED  BY <2>1, <2>2
<1>3. D = {}
  <2> SUFFICES ASSUME D # {} PROVE FALSE
    OBVIOUS
  <2>1. D \in SUBSET Nat
    OBVIOUS
  <2>2. PICK k \in D : \A l \in D : k <= l
    <3> HIDE DEF D
    <3>1. QED  BY <2>1, LeastNatural
  <2>3. k \in Nat /\ k \in 1 .. m /\ k \in 1 .. n /\ f[k] # g[k]
    OBVIOUS
  <2> HIDE DEF m, n
  <2>4. \A l \in 1 .. k - 1 : l \in 1 .. m /\ l \in 1 .. n /\ f[l] = g[l]
    <3> SUFFICES ASSUME NEW l \in 1 .. k - 1
                 PROVE  l \in 1 .. m /\ l \in 1 .. n /\ f[l] = g[l]
      OBVIOUS
    <3>1. l \in 1 .. m /\ l \in 1 .. n /\ l < k
      BY <1>1, <2>3
    <3>2. l \notin D
      <4>1. ~(k <= l)
        BY <2>3, <3>1
      <4>2. QED  BY <2>2, <4>1
    <3>3. QED  BY <3>1, <3>2
  <2>5. PICK i \in 1 .. n : f[k] = g[i]
    BY <2>3 DEF m, n
  <2>6. PICK j \in 1 .. m : g[k] = f[j]
    BY <2>3 DEF m, n
  <2>7. k < i
    <3>1. i \notin 1 .. k - 1
      <4>1. i \in 1 .. k - 1 => f[i] = f[k] /\ i \in 1 .. m
        BY <2>4, <2>5
      <4>2. QED  BY <1>2, <2>3, <4>1
    <3>2. QED  BY <1>1, <2>3, <2>5, <3>1
  <2>8. k < j
    <3>1. j \notin 1 .. k - 1
      <4>1. j \in 1 .. k - 1 => g[j] = g[k] /\ j \in 1 .. n
        BY <2>4, <2>6
      <4>2. QED  BY <1>2, <2>3, <4>1
    <3>2. QED  BY <1>1, <2>3, <2>6, <3>1
  <2>9. <<f[k], g[k]>> \in R
    BY <2>3, <2>6, <2>8 DEF m, n
  <2>10. <<f[k], g[k]>> \notin R
    BY <2>3, <2>5, <2>7 DEF m, n
  <2>11. QED  BY <2>9, <2>10
<1>4. \A k \in 1 .. m : k \in 1 .. n => f[k] = g[k]
  <2>1. \A k \in 1 .. m : k \in Nat
    BY <1>1
  <2>2. QED  BY <1>3, <2>1
<1>5. m = n
  <2>1. ~(m < n)
    <3> SUFFICES ASSUME m < n PROVE FALSE
      OBVIOUS
    <3>1. m + 1 \in 1 .. n
      BY <1>1
    <3>2. PICK k \in 1 .. m : g[m + 1] = f[k]
      BY <3>1
    <3>3. k \in 1 .. n /\ k # m + 1
      BY <1>1
    <3>4. QED  BY <1>2, <1>4, <3>1, <3>2, <3>3
  <2>2. ~(n < m)
    <3> SUFFICES ASSUME n < m PROVE FALSE
      OBVIOUS
    <3>1. n + 1 \in 1 .. m
      BY <1>1
    <3>2. PICK k \in 1 .. n : f[n + 1] = g[k]
      BY <3>1
    <3>3. k \in 1 .. m /\ k # n + 1
      BY <1>1
    <3>4. QED  BY <1>2, <1>4, <3>1, <3>2, <3>3
  <2>3. QED  BY <1>1, <2>1, <2>2
<1>6. QED  BY <1>1, <1>4, <1>5, SeqEqual

(* A sequence with the elements of s that keeps their order is s.          *)
LEMMA OrderKept ==
  ASSUME NEW S, NEW s \in Seq(S), \A i, j \in 1 .. Len(s) : i # j => s[i] # s[j],
         NEW t \in Seq(S),
         \A o \in 1 .. Len(s) : \E k \in 1 .. Len(t) : t[k] = s[o],
         \A k \in 1 .. Len(t) : \E o \in 1 .. Len(s) : t[k] = s[o],
         \A k, l \in 1 .. Len(t) :
            k < l => \E i, j \in 1 .. Len(s) : i < j /\ t[k] = s[i] /\ t[l] = s[j]
  PROVE  t = s
<1> DEFINE N == Len(s)
           R == {<<s[x[1]], s[x[2]]>> : x \in {y \in (1 .. N) \X (1 .. N) : y[1] < y[2]}}
<1>1. N \in Nat
  BY Elements
<1>2. \A i, j \in 1 .. N : i < j => <<s[i], s[j]>> \in R /\ <<s[j], s[i]>> \notin R
  <2> SUFFICES ASSUME NEW i \in 1 .. N, NEW j \in 1 .. N, i < j
               PROVE  <<s[i], s[j]>> \in R /\ <<s[j], s[i]>> \notin R
    OBVIOUS
  <2>1. <<i, j>> \in {y \in (1 .. N) \X (1 .. N) : y[1] < y[2]}
    OBVIOUS
  <2>2. <<s[i], s[j]>> \in R
    <3> DEFINE x == <<i, j>>
    <3>1. <<s[x[1]], s[x[2]]>> \in R
      <4> HIDE DEF x
      <4>1. QED  BY <2>1 DEF x
    <3>2. x[1] = i /\ x[2] = j
      OBVIOUS
    <3> HIDE DEF x, R
    <3>3. QED  BY <3>1, <3>2
  <2>3. ASSUME NEW y \in (1 .. N) \X (1 .. N), y[1] < y[2],
               <<s[j], s[i]>> = <<s[y[1]], s[y[2]]>>
        PROVE  FALSE
    <3>1. y[1] \in 1 .. N /\ y[2] \in 1 .. N
      OBVIOUS
    <3>2. y[1] = j /\ y[2] = i
      BY <2>3, <3>1
    <3>3. QED  BY <1>1, <2>3, <3>1, <3>2
  <2>4. QED  BY <2>2, <2>3
<1> HIDE DEF R
<1>3. \A k, l \in 1 .. Len(t) : k < l => <<t[k], t[l]>> \in R /\ <<t[l], t[k]>> \notin R
  <2> SUFFICES ASSUME NEW k \in 1 .. Len(t), NEW l \in 1 .. Len(t), k < l
               PROVE  <<t[k], t[l]>> \in R /\ <<t[l], t[k]>> \notin R
    OBVIOUS
  <2>1. PICK i, j \in 1 .. N : i < j /\ t[k] = s[i] /\ t[l] = s[j]
    OBVIOUS
  <2>2. <<s[i], s[j]>> \in R /\ <<s[j], s[i]>> \notin R
    BY <1>2, <2>1
  <2>3. QED  BY <2>1, <2>2
<1>4. /\ \A k \in 1 .. Len(t) : \E l \in 1 .. Len(s) : t[k] = s[l]
      /\ \A l \in 1 .. Len(s) : \E k \in 1 .. Len(t) : s[l] = t[k]
  OBVIOUS
<1>5. \A k, l \in 1 .. Len(s) : k < l => <<s[k], s[l]>> \in R /\ <<s[l], s[k]>> \notin R
  BY <1>2
<1>6. QED  BY <1>3, <1>4, <1>5, SameSequence

(* The sequence with an element more, and with one less.                   *)
LEMMA Insertion ==
  ASSUME NEW S, NEW s \in Seq(S), NEW p \in 1 .. Len(s) + 1, NEW e \in S
  PROVE  LET t == InsertAt(s, p, e)
         IN  /\ t \in Seq(S) /\ Len(t) = Len(s) + 1
             /\ \A k \in 1 .. Len(t) : t[k] = IF k < p THEN s[k]
                                              ELSE IF k = p THEN e ELSE s[k - 1]
<1> DEFINE a == SubSeq(s, 1, p - 1)
           b == SubSeq(s, p, Len(s))
           ae == a \o <<e>>
           t == ae \o b
<1>1. Len(s) \in Nat /\ \A i \in 1 .. Len(s) : s[i] \in S
  BY Elements
<1>2. a \in Seq(S) /\ Len(a) = p - 1 /\ \A k \in 1 .. p - 1 : a[k] = s[k]
  <2>1. /\ SubSeq(s, 1, p - 1) \in Seq(S)
        /\ Len(SubSeq(s, 1, p - 1)) = IF 1 <= p - 1 THEN (p - 1) - 1 + 1 ELSE 0
        /\ \A i \in 1 .. (p - 1) - 1 + 1 : SubSeq(s, 1, p - 1)[i] = s[1 + i - 1]
    <3>1. /\ 1 \in 1 .. Len(s) + 1 /\ p - 1 \in 1 - 1 .. Len(s)
          /\ \A i \in 1 .. p - 1 : s[i] \in S
      BY <1>1
    <3>2. QED  BY <1>1, <3>1, SubSeqProperties
  <2>2. QED  BY <1>1, <2>1
<1>3. /\ b \in Seq(S) /\ Len(b) = Len(s) - p + 1
      /\ \A k \in 1 .. Len(s) - p + 1 : b[k] = s[p + k - 1]
  <2>1. /\ p \in 1 .. Len(s) + 1 /\ Len(s) \in p - 1 .. Len(s)
    BY <1>1
  <2>2. QED  BY <1>1, <2>1, SubSeqProperties
<1> HIDE DEF a, b
<1>4. /\ ae \in Seq(S) /\ Len(ae) = p /\ ae[p] = e /\ \A k \in 1 .. p - 1 : ae[k] = s[k]
  <2>1. <<e>> \in Seq(S) /\ Len(<<e>>) = 1 /\ <<e>>[1] = e
    OBVIOUS
  <2>2. /\ ae \in Seq(S) /\ Len(ae) = Len(a) + Len(<<e>>)
        /\ \A k \in 1 .. Len(a) + Len(<<e>>) :
              ae[k] = IF k <= Len(a) THEN a[k] ELSE <<e>>[k - Len(a)]
    BY ONLY <1>2, <2>1, ConcatProperties, SMTT(30) DEF ae
  <2> HIDE DEF ae
  <2>3. p \in Nat /\ 1 <= p
    BY <1>1
  <2>4. QED  BY ONLY <1>2, <2>1, <2>2, <2>3
<1> HIDE DEF ae
<1>5. /\ t \in Seq(S) /\ Len(t) = Len(s) + 1
      /\ \A k \in 1 .. p : t[k] = ae[k]
      /\ \A k \in p + 1 .. Len(s) + 1 : t[k] = b[k - p]
  BY <1>1, <1>3, <1>4, ConcatProperties
<1>6. InsertAt(s, p, e) = t
  BY DEF InsertAt, a, b, ae
<1> HIDE DEF t
<1>7. ASSUME NEW k \in 1 .. Len(t)
      PROVE  t[k] = IF k < p THEN s[k] ELSE IF k = p THEN e ELSE s[k - 1]
  <2>1. CASE k < p
    BY <1>1, <1>4, <1>5, <2>1
  <2>2. CASE k = p
    BY <1>1, <1>4, <1>5, <2>2
  <2>3. CASE p < k
    <3>1. k \in p + 1 .. Len(s) + 1 /\ k - p \in 1 .. Len(s) - p + 1 /\ p + (k - p) - 1 = k - 1
      BY <1>1, <1>5, <2>3
    <3>2. QED  BY <1>3, <1>5, <2>3, <3>1
  <2>4. QED  BY <1>1, <2>1, <2>2, <2>3
<1>8. QED  BY <1>5, <1>6, <1>7

LEMMA Removal ==
  ASSUME NEW S, NEW s \in Seq(S), NEW p \in 1 .. Len(s)
  PROVE  LET t == RemoveAt(s, p)
         IN  /\ t \in Seq(S) /\ Len(t) = Len(s) - 1
             /\ \A k \in 1 .. Len(t) : t[k] = IF k < p THEN s[k] ELSE s[k + 1]
<1> DEFINE a == SubSeq(s, 1, p - 1)
           b == SubSeq(s, p + 1, Len(s))
           t == a \o b
<1>1. Len(s) \in Nat /\ \A i \in 1 .. Len(s) : s[i] \in S
  BY Elements
<1>2. a \in Seq(S) /\ Len(a) = p - 1 /\ \A k \in 1 .. p - 1 : a[k] = s[k]
  <2>1. /\ 1 \in 1 .. Len(s) + 1 /\ p - 1 \in 1 - 1 .. Len(s)
    BY <1>1
  <2>2. QED  BY <1>1, <2>1, SubSeqProperties
<1>3. /\ b \in Seq(S) /\ Len(b) = Len(s) - p
      /\ \A k \in 1 .. Len(s) - p : b[k] = s[p + k]
  <2>1. /\ p + 1 \in 1 .. Len(s) + 1 /\ Len(s) \in (p + 1) - 1 .. Len(s)
    BY <1>1
  <2>2. QED  BY <1>1, <2>1, SubSeqProperties
<1> HIDE DEF a, b
<1>4. /\ t \in Seq(S) /\ Len(t) = Len(s) - 1
      /\ \A k \in 1 .. p - 1 : t[k] = a[k]
      /\ \A k \in p .. Len(s) - 1 : t[k] = b[k - (p - 1)]
  BY <1>1, <1>2, <1>3, ConcatProperties
<1>5. RemoveAt(s, p) = t
  BY DEF RemoveAt, a, b
<1> HIDE DEF t
<1>6. ASSUME NEW k \in 1 .. Len(t)
      PROVE  t[k] = IF k < p THEN s[k] ELSE s[k + 1]
  <2>1. CASE k < p
    BY <1>1, <1>2, <1>4, <2>1
  <2>2. CASE p <= k
    <3>1. k \in p .. Len(s) - 1 /\ k - (p - 1) \in 1 .. Len(s) - p /\ p + (k - (p - 1)) = k + 1
      BY <1>1, <1>4, <2>2
    <3>2. t[k] = b[k - (p - 1)]
      BY <1>4, <3>1
    <3>3. b[k - (p - 1)] = s[k + 1]
      BY <1>3, <3>1
    <3>4. ~(k < p)
      BY <1>1, <1>4, <2>2
    <3>5. QED  BY <3>2, <3>3, <3>4
  <2>3. QED  BY <1>1, <2>1, <2>2
<1>7. QED  BY <1>4, <1>5, <1>6

-----------------------------------------------------------------------------
(* Array.filter.                                                           *)

(* The place that what stands at o has among those at the places K.        *)
Nth(K, o) == Cardinality(K \cap 1 .. o)

LEMMA Counting ==
  ASSUME NEW N \in Nat, NEW K \in SUBSET (1 .. N)
  PROVE  /\ Nth(K, 0) = 0 /\ \A o \in 0 .. N : Nth(K, o) \in Nat
         /\ \A o \in 1 .. N : Nth(K, o) = IF o \in K THEN Nth(K, o - 1) + 1 ELSE Nth(K, o - 1)
         /\ \A i, j \in K : i < j => Nth(K, i) < Nth(K, j)
<1>1. \A o \in 0 .. N : IsFiniteSet(K \cap 1 .. o) /\ Nth(K, o) \in Nat
  <2> SUFFICES ASSUME NEW o \in 0 .. N
               PROVE  IsFiniteSet(K \cap 1 .. o) /\ Nth(K, o) \in Nat
    OBVIOUS
  <2>1. IsFiniteSet(1 .. o)
    BY FS_Interval
  <2>2. IsFiniteSet(K \cap 1 .. o)
    BY <2>1, FS_Subset
  <2>3. QED  BY <2>2, FS_CardinalityType DEF Nth
<1>2. Nth(K, 0) = 0
  <2>1. K \cap 1 .. 0 = {}
    OBVIOUS
  <2>2. QED  BY <2>1, FS_EmptySet DEF Nth
<1>3. ASSUME NEW o \in 1 .. N
      PROVE  Nth(K, o) = IF o \in K THEN Nth(K, o - 1) + 1 ELSE Nth(K, o - 1)
  <2>1. o - 1 \in 0 .. N
    OBVIOUS
  <2>2. CASE o \in K
    <3>1. K \cap 1 .. o = (K \cap 1 .. o - 1) \cup {o} /\ o \notin K \cap 1 .. o - 1
      BY <2>2
    <3>2. Cardinality((K \cap 1 .. o - 1) \cup {o}) = Cardinality(K \cap 1 .. o - 1) + 1
      BY <1>1, <2>1, <3>1, FS_AddElement
    <3>3. QED  BY <2>2, <3>1, <3>2 DEF Nth
  <2>3. CASE o \notin K
    <3>1. K \cap 1 .. o = K \cap 1 .. o - 1
      BY <2>3
    <3>2. QED  BY <2>3, <3>1 DEF Nth
  <2>4. QED  BY <2>2, <2>3
<1>4. ASSUME NEW i \in K, NEW j \in K, i < j
      PROVE  Nth(K, i) < Nth(K, j)
  <2>1. i \in 0 .. N /\ j \in 0 .. N
    OBVIOUS
  <2>2. K \cap 1 .. i \subseteq K \cap 1 .. j /\ j \in K \cap 1 .. j /\ j \notin K \cap 1 .. i
    BY <1>4
  <2>3. /\ Cardinality(K \cap 1 .. i) <= Cardinality(K \cap 1 .. j)
        /\ Cardinality(K \cap 1 .. i) # Cardinality(K \cap 1 .. j)
    BY <1>1, <2>1, <2>2, FS_Subset
  <2>4. QED  BY <1>1, <2>1, <2>3 DEF Nth
<1>5. QED  BY <1>1, <1>2, <1>3, <1>4

(* The recursion of At(), up to place m.                                   *)
Keeps(f, s, K, m) ==
    f = [n \in 0 .. m |-> IF n = 0 THEN <<>>
                          ELSE IF n \in K THEN Append(f[n - 1], s[n])
                          ELSE f[n - 1]]

LEMMA KeepingExists ==
  ASSUME NEW n \in Nat, NEW s, NEW K
  PROVE  \E f : Keeps(f, s, K, n)
<1> DEFINE S == {m \in 0 .. n : \E f : Keeps(f, s, K, m)}
<1>1. 0 \in S
  <2>1. Keeps([k \in 0 .. 0 |-> <<>>], s, K, 0)
    BY DEF Keeps
  <2>2. QED  BY <2>1
<1>2. ASSUME NEW m \in 0 .. n - 1, m \in S
      PROVE  m + 1 \in S
  <2>1. PICK f : Keeps(f, s, K, m)
    BY <1>2
  <2> DEFINE e == IF m + 1 \in K THEN Append(f[m], s[m + 1]) ELSE f[m]
             g == [k \in 0 .. m + 1 |-> IF k = m + 1 THEN e ELSE f[k]]
  <2>2. \A k \in 0 .. m : f[k] = IF k = 0 THEN <<>>
                                 ELSE IF k \in K THEN Append(f[k - 1], s[k]) ELSE f[k - 1]
    BY <2>1 DEF Keeps
  <2>3. \A k \in 0 .. m : g[k] = f[k]
    OBVIOUS
  <2>4. \A k \in 0 .. m + 1 : k # 0 => k - 1 \in 0 .. m
    OBVIOUS
  <2>5. g[m + 1] = e /\ m \in 0 .. m
    OBVIOUS
  <2> HIDE DEF g
  <2>6. ASSUME NEW k \in 0 .. m + 1
        PROVE  g[k] = IF k = 0 THEN <<>>
                      ELSE IF k \in K THEN Append(g[k - 1], s[k]) ELSE g[k - 1]
    <3>1. CASE k = m + 1
      <4>1. k # 0 /\ k - 1 = m
        BY <3>1
      <4>2. g[k - 1] = f[m]
        BY <2>3, <2>5, <4>1
      <4>3. QED  BY <2>5, <3>1, <4>1, <4>2
    <3>2. CASE k # m + 1
      <4>1. k \in 0 .. m
        BY <3>2
      <4>2. k # 0 => g[k - 1] = f[k - 1]
        BY <2>3, <2>4
      <4>3. QED  BY <2>2, <2>3, <4>1, <4>2
    <3>3. QED  BY <3>1, <3>2
  <2>7. g = [k \in 0 .. m + 1 |-> g[k]]
    BY DEF g
  <2>8. Keeps(g, s, K, m + 1)
    BY <2>6, <2>7 DEF Keeps
  <2>9. QED  BY <2>8
<1>3. \A m \in 0 .. n : m \in S
  <2> HIDE DEF S
  <2>1. QED  BY <1>1, <1>2, InductionUpTo
<1>4. QED  BY <1>3

(* What stands at the places K of s, each at its place among them.         *)
LEMMA Filtered ==
  ASSUME NEW S, NEW s \in Seq(S), NEW K \in SUBSET (1 .. Len(s))
  PROVE  /\ At(s, K) \in Seq(S)
         /\ \A o \in K : Nth(K, o) \in 1 .. Len(At(s, K)) /\ At(s, K)[Nth(K, o)] = s[o]
         /\ \A k \in 1 .. Len(At(s, K)) : \E o \in K : Nth(K, o) = k
<1> DEFINE N == Len(s)
           f == CHOOSE g : Keeps(g, s, K, N)
<1>1. N \in Nat /\ \A i \in 1 .. N : s[i] \in S
  BY Elements
<1>2. Keeps(f, s, K, N)
  BY <1>1, KeepingExists
<1>3. At(s, K) = f[N]
  BY DEF At, Keeps
<1> HIDE DEF f
<1>4. \A n \in 0 .. N : f[n] = IF n = 0 THEN <<>>
                               ELSE IF n \in K THEN Append(f[n - 1], s[n]) ELSE f[n - 1]
  BY <1>2 DEF Keeps
<1>5. /\ Nth(K, 0) = 0 /\ \A o \in 0 .. N : Nth(K, o) \in Nat
      /\ \A o \in 1 .. N : Nth(K, o) = IF o \in K THEN Nth(K, o - 1) + 1 ELSE Nth(K, o - 1)
  BY <1>1, Counting
<1> DEFINE P(n) == /\ f[n] \in Seq(S) /\ Len(f[n]) = Nth(K, n)
                   /\ \A o \in K : o <= n => Nth(K, o) \in 1 .. Len(f[n]) /\ f[n][Nth(K, o)] = s[o]
                   /\ \A k \in 1 .. Len(f[n]) : \E o \in K : o <= n /\ Nth(K, o) = k
           Q == {n \in 0 .. N : P(n)}
<1>6. 0 \in Q
  <2>1. f[0] = <<>> /\ 0 \in 0 .. N
    BY <1>1, <1>4
  <2>2. f[0] \in Seq(S) /\ Len(f[0]) = 0
    BY <2>1, EmptySeq
  <2>3. \A o \in K : ~(o <= 0)
    BY <1>1
  <2>4. P(0)
    BY <1>5, <2>2, <2>3
  <2>5. QED  BY <2>1, <2>4
<1>7. ASSUME NEW n \in 0 .. N - 1, n \in Q
      PROVE  n + 1 \in Q
  <2> DEFINE t == f[n]
             e == s[n + 1]
             c == Nth(K, n)
  <2>1. /\ n + 1 \in 1 .. N /\ n + 1 \in 0 .. N /\ n \in 0 .. N
        /\ f[n + 1] = IF n + 1 \in K THEN Append(t, e) ELSE t
        /\ Nth(K, n + 1) = IF n + 1 \in K THEN c + 1 ELSE c
        /\ c \in Nat
    <3>1. n + 1 \in 1 .. N /\ n + 1 \in 0 .. N /\ n + 1 # 0 /\ (n + 1) - 1 = n /\ n \in 0 .. N
      BY <1>1
    <3>2. QED  BY <1>4, <1>5, <3>1
  <2>2. /\ t \in Seq(S) /\ e \in S /\ Len(t) = c
        /\ \A o \in K : o <= n => Nth(K, o) \in 1 .. Len(t) /\ t[Nth(K, o)] = s[o]
        /\ \A k \in 1 .. Len(t) : \E o \in K : o <= n /\ Nth(K, o) = k
    BY <1>1, <1>7, <2>1
  <2>3. \A o \in K : o <= n + 1 <=> o <= n \/ o = n + 1
    BY <1>1
  <2> HIDE DEF t, c
  <2>4. CASE n + 1 \notin K
    <3>1. f[n + 1] = t /\ Nth(K, n + 1) = c
      BY <2>1, <2>4
    <3>2. \A o \in K : o <= n + 1 <=> o <= n
      BY <2>3, <2>4
    <3>3. P(n + 1)
      BY <2>2, <3>1, <3>2
    <3>4. QED  BY <2>1, <3>3
  <2>5. CASE n + 1 \in K
    <3> DEFINE u == Append(t, e)
    <3>1. f[n + 1] = u /\ Nth(K, n + 1) = c + 1
      BY <2>1, <2>5
    <3>2. /\ u \in Seq(S) /\ Len(u) = c + 1 /\ u[c + 1] = e
          /\ \A i \in 1 .. c : u[i] = t[i]
      BY <2>2, AppendProperties
    <3> HIDE DEF u
    <3>3. ASSUME NEW o \in K, o <= n + 1
          PROVE  Nth(K, o) \in 1 .. c + 1 /\ u[Nth(K, o)] = s[o]
      <4>1. CASE o <= n
        <5>1. Nth(K, o) \in 1 .. c /\ t[Nth(K, o)] = s[o]
          BY <2>2, <4>1
        <5>2. QED  BY <2>1, <3>2, <5>1
      <4>2. CASE o = n + 1
        BY <2>1, <3>1, <3>2, <4>2
      <4>3. QED  BY <2>3, <3>3, <4>1, <4>2
    <3>4. ASSUME NEW k \in 1 .. c + 1
          PROVE  \E o \in K : o <= n + 1 /\ Nth(K, o) = k
      <4>1. CASE k = c + 1
        BY <1>1, <2>5, <3>1, <4>1
      <4>2. CASE k # c + 1
        <5>1. k \in 1 .. Len(t)
          BY <2>1, <2>2, <4>2
        <5>2. QED  BY <2>2, <2>3, <5>1
      <4>3. QED  BY <4>1, <4>2
    <3>5. P(n + 1)
      BY <3>1, <3>2, <3>3, <3>4
    <3>6. QED  BY <2>1, <3>5
  <2>6. QED  BY <2>4, <2>5
<1>8. N \in Q
  <2> HIDE DEF Q
  <2>1. \A n \in 0 .. N : n \in Q
    BY <1>1, <1>6, <1>7, InductionUpTo
  <2>2. QED  BY <1>1, <2>1
<1>9. QED  BY <1>1, <1>3, <1>8

(* Nothing is added by a filter, nothing reordered, nothing at K left out. *)
LEMMA FilterKeepsTheOrder ==
  ASSUME NEW S, NEW s \in Seq(S), NEW K \in SUBSET (1 .. Len(s))
  PROVE  LET t == At(s, K)
         IN  /\ t \in Seq(S) /\ Len(t) \in Nat
             /\ \A o \in K : \E k \in 1 .. Len(t) : t[k] = s[o]
             /\ \A k \in 1 .. Len(t) : \E o \in K : t[k] = s[o]
             /\ \A k, l \in 1 .. Len(t) :
                   k < l => \E i, j \in K : i < j /\ t[k] = s[i] /\ t[l] = s[j]
<1> DEFINE t == At(s, K)
<1>1. /\ t \in Seq(S)
      /\ \A o \in K : Nth(K, o) \in 1 .. Len(t) /\ t[Nth(K, o)] = s[o]
      /\ \A k \in 1 .. Len(t) : \E o \in K : Nth(K, o) = k
  BY Filtered
<1> HIDE DEF t
<1>2. Len(t) \in Nat /\ Len(s) \in Nat
  BY <1>1, Elements
<1>3. /\ \A i, j \in K : i < j => Nth(K, i) < Nth(K, j)
      /\ \A i \in K : Nth(K, i) \in Nat
  <2> DEFINE N == Len(s)
  <2>1. N \in Nat /\ K \in SUBSET (1 .. N)
    BY <1>2
  <2> HIDE DEF N
  <2>2. /\ \A o \in 0 .. N : Nth(K, o) \in Nat
        /\ \A i, j \in K : i < j => Nth(K, i) < Nth(K, j)
    BY <2>1, Counting
  <2>3. \A i \in K : i \in 0 .. N
    BY <2>1
  <2>4. QED  BY <2>2, <2>3
<1>4. ASSUME NEW k \in 1 .. Len(t), NEW l \in 1 .. Len(t), k < l
      PROVE  \E i, j \in K : i < j /\ t[k] = s[i] /\ t[l] = s[j]
  <2>1. PICK i \in K : Nth(K, i) = k
    BY <1>1
  <2>2. PICK j \in K : Nth(K, j) = l
    BY <1>1
  <2>3. t[k] = s[i] /\ t[l] = s[j]
    BY <1>1, <2>1, <2>2
  <2>4. i < j
    <3>1. i \in Nat /\ j \in Nat
      BY <1>2
    <3>2. ~(j < i) /\ i # j
      BY <1>2, <1>3, <1>4, <2>1, <2>2
    <3>3. QED  BY <3>1, <3>2
  <2>5. QED  BY <2>3, <2>4
<1>5. QED  BY <1>1, <1>2, <1>4, ZenonT(30) DEF t

(* A filter that all pass changes nothing.                                 *)
LEMMA FilterPassed ==
  ASSUME NEW S, NEW s \in Seq(S), \A i, j \in 1 .. Len(s) : i # j => s[i] # s[j],
         NEW K, K = 1 .. Len(s)
  PROVE  At(s, K) = s
<1> DEFINE N == Len(s)
           t == At(s, K)
<1>1. N \in Nat
  BY Elements
<1>2. /\ t \in Seq(S)
      /\ \A o \in 1 .. N : \E k \in 1 .. Len(t) : t[k] = s[o]
      /\ \A k \in 1 .. Len(t) : \E o \in 1 .. N : t[k] = s[o]
      /\ \A k, l \in 1 .. Len(t) :
            k < l => \E i, j \in 1 .. N : i < j /\ t[k] = s[i] /\ t[l] = s[j]
  <2>1. K \in SUBSET (1 .. Len(s)) /\ K = 1 .. N
    OBVIOUS
  <2> HIDE DEF N
  <2>2. /\ t \in Seq(S)
        /\ \A o \in K : \E k \in 1 .. Len(t) : t[k] = s[o]
        /\ \A k \in 1 .. Len(t) : \E o \in K : t[k] = s[o]
        /\ \A k, l \in 1 .. Len(t) :
              k < l => \E i, j \in K : i < j /\ t[k] = s[i] /\ t[l] = s[j]
    BY ONLY s \in Seq(S), K \in SUBSET (1 .. Len(s)), FilterKeepsTheOrder DEF t
  <2> HIDE DEF t
  <2>3. \A i \in 1 .. N : i \in K
    BY <2>1
  <2>4. \A i \in K : i \in 1 .. N
    BY <2>1
  <2>5. ASSUME NEW k \in 1 .. Len(t), NEW l \in 1 .. Len(t), k < l
        PROVE  \E i, j \in 1 .. N : i < j /\ t[k] = s[i] /\ t[l] = s[j]
    <3>1. PICK i \in K, j \in K : i < j /\ t[k] = s[i] /\ t[l] = s[j]
      BY <2>2, <2>5
    <3>2. i \in 1 .. N /\ j \in 1 .. N
      BY <2>4
    <3>3. QED  BY <3>1, <3>2
  <2>6. \A k \in 1 .. Len(t) : \E o \in 1 .. N : t[k] = s[o]
    BY <2>2, <2>4
  <2>7. QED  BY <2>2, <2>3, <2>5, <2>6
<1> HIDE DEF t
<1>3. t = s
  BY <1>2, OrderKept
<1>4. QED  BY <1>3 DEF t

-----------------------------------------------------------------------------
(* Array.sort.                                                             *)

LEMMA PrioritiesAreNumbers == \A r \in RoutingNodes : r.priority \in Nat
BY DEF RoutingNodes

(* Where a rule is inserted: behind those of no higher priority.           *)
LEMMA Placed ==
  ASSUME NEW s \in Seq(RoutingNodes), NEW r \in RoutingNodes,
         \A k, l \in 1 .. Len(s) : k < l => s[k].priority <= s[l].priority
  PROVE  \E p \in 1 .. Len(s) + 1 :
            /\ \A k \in 1 .. Len(s) : k < p <=> s[k].priority <= r.priority
            /\ Inserted(s, r) = InsertAt(s, p, r)
<1> DEFINE N == Len(s)
           Behind(p) == \A k \in DOMAIN s : k < p <=> s[k].priority <= r.priority
           T == {k \in 1 .. N : r.priority < s[k].priority}
           q == CHOOSE p \in 1 .. N + 1 : Behind(p)
<1>1. N \in Nat /\ DOMAIN s = 1 .. N /\ r.priority \in Nat
  BY Elements, PrioritiesAreNumbers, LenProperties
<1>2. \A k \in 1 .. N : s[k].priority \in Nat
  BY Elements, PrioritiesAreNumbers
<1>3. \E p \in 1 .. N + 1 : Behind(p)
  <2>1. CASE T = {}
    <3>1. \A k \in 1 .. N : ~(r.priority < s[k].priority)
      BY <2>1
    <3>2. \A k \in 1 .. N : k < N + 1 /\ s[k].priority <= r.priority
      BY <1>1, <1>2, <3>1
    <3>3. Behind(N + 1)
      BY <1>1, <3>2
    <3>4. N + 1 \in 1 .. N + 1
      BY <1>1
    <3>5. QED  BY <3>3, <3>4
  <2>2. CASE T # {}
    <3>1. T \in SUBSET Nat
      BY <1>1
    <3>2. PICK p \in T : \A m \in T : p <= m
      <4> HIDE DEF T
      <4>1. QED  BY <2>2, <3>1, LeastNatural
    <3>3. p \in 1 .. N /\ r.priority < s[p].priority
      OBVIOUS
    <3>4. ASSUME NEW k \in 1 .. N
          PROVE  k < p <=> s[k].priority <= r.priority
      <4>1. k < p => k \notin T
        BY <1>1, <3>2, <3>3
      <4>2. k < p => ~(r.priority < s[k].priority)
        BY <4>1
      <4>3. ~(k < p) => k = p \/ p < k
        BY <1>1, <3>3
      <4>4. p < k => s[p].priority <= s[k].priority
        BY <3>3
      <4>5. QED  BY <1>1, <1>2, <3>3, <4>2, <4>3, <4>4
    <3>5. Behind(p)
      BY <1>1, <3>4
    <3>6. p \in 1 .. N + 1
      BY <1>1, <3>3
    <3>7. QED  BY <3>5, <3>6
  <2>3. QED  BY <2>1, <2>2
<1>4. q \in 1 .. N + 1 /\ Behind(q)
  BY <1>3
<1>5. Inserted(s, r) = InsertAt(s, q, r)
  BY DEF Inserted
<1> HIDE DEF q
<1>6. QED  BY <1>1, <1>4, <1>5

(* The recursion of StableSort(), up to place m.                           *)
Sorts(f, s, m) ==
    f = [n \in 0 .. m |-> IF n = 0 THEN <<>> ELSE Inserted(f[n - 1], s[n])]

LEMMA SortingExists ==
  ASSUME NEW n \in Nat, NEW s
  PROVE  \E f : Sorts(f, s, n)
<1> DEFINE S == {m \in 0 .. n : \E f : Sorts(f, s, m)}
<1>1. 0 \in S
  <2>1. Sorts([k \in 0 .. 0 |-> <<>>], s, 0)
    BY DEF Sorts
  <2>2. QED  BY <2>1
<1>2. ASSUME NEW m \in 0 .. n - 1, m \in S
      PROVE  m + 1 \in S
  <2>1. PICK f : Sorts(f, s, m)
    BY <1>2
  <2> DEFINE e == Inserted(f[m], s[m + 1])
             g == [k \in 0 .. m + 1 |-> IF k = m + 1 THEN e ELSE f[k]]
  <2>2. \A k \in 0 .. m : f[k] = IF k = 0 THEN <<>> ELSE Inserted(f[k - 1], s[k])
    BY <2>1 DEF Sorts
  <2>3. \A k \in 0 .. m : g[k] = f[k]
    OBVIOUS
  <2>4. \A k \in 0 .. m + 1 : k # 0 => k - 1 \in 0 .. m
    OBVIOUS
  <2>5. g[m + 1] = e /\ m \in 0 .. m
    OBVIOUS
  <2> HIDE DEF g
  <2>6. ASSUME NEW k \in 0 .. m + 1
        PROVE  g[k] = IF k = 0 THEN <<>> ELSE Inserted(g[k - 1], s[k])
    <3>1. CASE k = m + 1
      <4>1. k # 0 /\ k - 1 = m
        BY <3>1
      <4>2. g[k - 1] = f[m]
        BY <2>3, <2>5, <4>1
      <4>3. QED  BY <2>5, <3>1, <4>1, <4>2
    <3>2. CASE k # m + 1
      <4>1. k \in 0 .. m
        BY <3>2
      <4>2. k # 0 => g[k - 1] = f[k - 1]
        BY <2>3, <2>4
      <4>3. QED  BY <2>2, <2>3, <4>1, <4>2
    <3>3. QED  BY <3>1, <3>2
  <2>7. g = [k \in 0 .. m + 1 |-> g[k]]
    BY DEF g
  <2>8. Sorts(g, s, m + 1)
    BY <2>6, <2>7 DEF Sorts
  <2>9. QED  BY <2>8
<1>3. \A m \in 0 .. n : m \in S
  <2> HIDE DEF S
  <2>1. QED  BY <1>1, <1>2, InductionUpTo
<1>4. QED  BY <1>3

(* In a sort, what stands at i of s comes before what stands at j.         *)
Before(s, i, j) == \/ s[i].priority < s[j].priority
                   \/ s[i].priority = s[j].priority /\ i < j

(* t is what stands at 1 .. n of s, sorted.                                *)
SortOf(t, s, n) ==
    /\ t \in Seq(RoutingNodes) /\ Len(t) = n
    /\ \A o \in 1 .. n : \E k \in 1 .. n : t[k] = s[o]
    /\ \A k \in 1 .. n : \E o \in 1 .. n : t[k] = s[o]
    /\ \A k, l \in 1 .. n :
          k < l => \E i, j \in 1 .. n : t[k] = s[i] /\ t[l] = s[j] /\ Before(s, i, j)

(* The step of a sort: the next one is inserted.                           *)
LEMMA SortingStep ==
  ASSUME NEW s \in Seq(RoutingNodes), NEW n \in Nat, n + 1 \in 1 .. Len(s), NEW t,
         SortOf(t, s, n)
  PROVE  SortOf(Inserted(t, s[n + 1]), s, n + 1)
<1> DEFINE e == s[n + 1]
           u == Inserted(t, e)
<1>1. t \in Seq(RoutingNodes) /\ Len(t) = n
  BY DEF SortOf
<1>2. \A o \in 1 .. n : \E k \in 1 .. n : t[k] = s[o]
  BY DEF SortOf
<1>3. \A k \in 1 .. n : \E o \in 1 .. n : t[k] = s[o]
  BY DEF SortOf
<1>4. \A k, l \in 1 .. n :
         k < l => \E i, j \in 1 .. n : t[k] = s[i] /\ t[l] = s[j] /\ Before(s, i, j)
  BY DEF SortOf
<1>5. /\ Len(s) \in Nat /\ n \in Nat /\ n + 1 \in 1 .. Len(s) /\ e \in RoutingNodes
      /\ e.priority \in Nat
      /\ \A i \in 1 .. n + 1 : s[i].priority \in Nat
  <2>1. Len(s) \in Nat /\ \A i \in 1 .. Len(s) : s[i] \in RoutingNodes
    BY Elements
  <2>2. n \in Nat /\ n + 1 \in 1 .. Len(s) /\ \A i \in 1 .. n + 1 : i \in 1 .. Len(s)
    BY <2>1
  <2>3. QED  BY <2>1, <2>2, PrioritiesAreNumbers
<1> HIDE DEF e, u
<1>6. \A k, l \in 1 .. Len(t) : k < l => t[k].priority <= t[l].priority
  <2> SUFFICES ASSUME NEW k \in 1 .. n, NEW l \in 1 .. n, k < l
               PROVE  t[k].priority <= t[l].priority
    BY <1>1
  <2>1. PICK i \in 1 .. n, j \in 1 .. n : t[k] = s[i] /\ t[l] = s[j] /\ Before(s, i, j)
    BY <1>4
  <2>2. s[i].priority \in Nat /\ s[j].priority \in Nat
    BY <1>5
  <2>3. QED  BY <2>1, <2>2 DEF Before
<1>7. PICK p \in 1 .. n + 1 :
         /\ \A k \in 1 .. n : k < p <=> t[k].priority <= e.priority
         /\ u = InsertAt(t, p, e)
  BY <1>1, <1>5, <1>6, Placed DEF u
<1>8. /\ u \in Seq(RoutingNodes) /\ Len(u) = n + 1
      /\ \A k \in 1 .. n + 1 : u[k] = IF k < p THEN t[k] ELSE IF k = p THEN e ELSE t[k - 1]
  <2>1. /\ t \in Seq(RoutingNodes) /\ e \in RoutingNodes
        /\ p \in 1 .. Len(t) + 1 /\ Len(t) \in Nat
    BY <1>1, <1>5
  <2> DEFINE v == InsertAt(t, p, e)
  <2>2. /\ v \in Seq(RoutingNodes) /\ Len(v) = Len(t) + 1
        /\ \A k \in 1 .. Len(v) : v[k] = IF k < p THEN t[k] ELSE IF k = p THEN e ELSE t[k - 1]
    BY ONLY <2>1, Insertion DEF v
  <2> HIDE DEF v
  <2>3. u = v
    BY <1>7 DEF v
  <2>4. QED  BY <1>1, <1>5, <2>2, <2>3
<1>9. /\ \A k \in 1 .. n + 1 : k < p => k \in 1 .. n /\ u[k] = t[k]
      /\ \A k \in 1 .. n + 1 : p < k => k - 1 \in 1 .. n /\ u[k] = t[k - 1]
      /\ u[p] = e /\ p \in 1 .. n + 1
  BY <1>5, <1>7, <1>8
<1>10. ASSUME NEW o \in 1 .. n + 1
      PROVE  \E k \in 1 .. n + 1 : u[k] = s[o]
  <2>1. CASE o = n + 1
    BY <1>9, <2>1 DEF e
  <2>2. CASE o # n + 1
    <3>1. o \in 1 .. n
      BY <1>5, <2>2
    <3>2. PICK k \in 1 .. n : t[k] = s[o]
      BY <1>2, <3>1
    <3>3. CASE k < p
      <4>1. k \in 1 .. n + 1 /\ u[k] = t[k]
        BY <1>5, <1>9, <3>3
      <4>2. QED  BY <3>2, <4>1
    <3>4. CASE ~(k < p)
      <4>1. k + 1 \in 1 .. n + 1 /\ p < k + 1 /\ (k + 1) - 1 = k
        BY <1>5, <1>7, <3>4
      <4>2. u[k + 1] = t[k]
        BY <1>9, <4>1
      <4>3. QED  BY <3>2, <4>1, <4>2
    <3>5. QED  BY <3>3, <3>4
  <2>3. QED  BY <2>1, <2>2
<1>11. ASSUME NEW k \in 1 .. n + 1
      PROVE  \/ k = p /\ u[k] = e
             \/ k # p /\ \E o \in 1 .. n : u[k] = s[o]
  <2>1. k < p \/ k = p \/ p < k
    BY <1>5, <1>7
  <2>2. CASE k = p
    BY ONLY <1>9, <2>2
  <2>3. CASE k < p
    <3>1. k \in 1 .. n /\ u[k] = t[k]
      BY <1>9, <2>3
    <3>2. PICK o \in 1 .. n : t[k] = s[o]
      BY <1>3, <3>1
    <3>3. k # p
      BY <1>5, <1>7, <2>3
    <3>4. QED  BY <3>1, <3>2, <3>3
  <2>4. CASE p < k
    <3>1. k - 1 \in 1 .. n /\ u[k] = t[k - 1]
      BY <1>9, <2>4
    <3>2. PICK o \in 1 .. n : t[k - 1] = s[o]
      BY <1>3, <3>1
    <3>3. k # p
      BY <1>5, <1>7, <2>4
    <3>4. QED  BY <3>1, <3>2, <3>3
  <2>5. QED  BY <2>1, <2>2, <2>3, <2>4
<1>12. \A i \in 1 .. n : i \in 1 .. n + 1 /\ i < n + 1
  BY <1>5
<1>13. n + 1 \in 1 .. n + 1
  BY <1>5
<1>14. ASSUME NEW k \in 1 .. n + 1, NEW l \in 1 .. n + 1, k < l
       PROVE  \E i, j \in 1 .. n + 1 : u[k] = s[i] /\ u[l] = s[j] /\ Before(s, i, j)
  <2>1. CASE k # p /\ l # p
    <3> DEFINE a == IF k < p THEN k ELSE k - 1
               b == IF l < p THEN l ELSE l - 1
    <3>1. a \in 1 .. n /\ b \in 1 .. n /\ a < b /\ u[k] = t[a] /\ u[l] = t[b]
      BY <1>5, <1>7, <1>9, <1>14, <2>1
    <3> HIDE DEF a, b
    <3>2. PICK i \in 1 .. n, j \in 1 .. n : t[a] = s[i] /\ t[b] = s[j] /\ Before(s, i, j)
      BY <1>4, <3>1
    <3>3. QED  BY <1>12, <3>1, <3>2
  <2>2. CASE l = p
    <3>1. k < p /\ k \in 1 .. n /\ u[k] = t[k] /\ t[k].priority <= e.priority /\ u[l] = e
      BY <1>7, <1>9, <1>14, <2>2
    <3>2. PICK i \in 1 .. n : t[k] = s[i]
      BY <1>3, <3>1
    <3>3. s[i].priority \in Nat
      BY <1>5, <1>12
    <3>4. Before(s, i, n + 1)
      BY <1>5, <1>12, <3>1, <3>2, <3>3 DEF Before, e
    <3>5. QED  BY <1>12, <1>13, <3>1, <3>2, <3>4 DEF e
  <2>3. CASE k = p
    <3>1. p < l /\ l - 1 \in 1 .. n /\ u[l] = t[l - 1] /\ u[k] = e /\ ~(l - 1 < p)
      BY <1>5, <1>7, <1>9, <1>14, <2>3
    <3>2. ~(t[l - 1].priority <= e.priority)
      BY <1>7, <3>1
    <3>3. PICK j \in 1 .. n : t[l - 1] = s[j]
      BY <1>3, <3>1
    <3>4. s[j].priority \in Nat
      BY <1>5, <1>12
    <3>5. Before(s, n + 1, j)
      BY <1>5, <3>2, <3>3, <3>4 DEF Before, e
    <3>6. QED  BY <1>12, <1>13, <3>1, <3>3, <3>5 DEF e
  <2>4. QED  BY <2>1, <2>2, <2>3
<1>15. \A k \in 1 .. n + 1 : \E o \in 1 .. n + 1 : u[k] = s[o]
  BY <1>11, <1>12, <1>13 DEF e
<1>16. SortOf(u, s, n + 1)
  BY <1>8, <1>10, <1>14, <1>15 DEF SortOf
<1>17. QED  BY <1>16 DEF u, e

(* Array.sort: the same rules, by priority and then in their old order.    *)
LEMMA Sorting ==
  ASSUME NEW s \in Seq(RoutingNodes)
  PROVE  SortOf(StableSort(s), s, Len(s))
<1> DEFINE N == Len(s)
           f == CHOOSE g : Sorts(g, s, N)
<1>1. N \in Nat
  BY Elements
<1>2. Sorts(f, s, N)
  BY <1>1, SortingExists
<1>3. StableSort(s) = f[N]
  BY DEF StableSort, Sorts
<1> HIDE DEF f
<1>4. \A n \in 0 .. N : f[n] = IF n = 0 THEN <<>> ELSE Inserted(f[n - 1], s[n])
  BY <1>2 DEF Sorts
<1> DEFINE Q == {n \in 0 .. N : SortOf(f[n], s, n)}
<1>5. 0 \in Q
  <2>1. f[0] = <<>> /\ 0 \in 0 .. N
    BY <1>1, <1>4
  <2>2. f[0] \in Seq(RoutingNodes) /\ Len(f[0]) = 0
    BY <2>1, EmptySeq
  <2>3. SortOf(f[0], s, 0)
    BY <2>2 DEF SortOf
  <2>4. QED  BY <2>1, <2>3
<1>6. ASSUME NEW n \in 0 .. N - 1, n \in Q
      PROVE  n + 1 \in Q
  <2>1. n \in Nat /\ n + 1 \in 1 .. N /\ n + 1 \in 0 .. N /\ n + 1 # 0 /\ (n + 1) - 1 = n
    BY <1>1
  <2>2. f[n + 1] = Inserted(f[n], s[n + 1])
    BY <1>4, <2>1
  <2>3. SortOf(f[n], s, n)
    BY <1>6
  <2>4. SortOf(f[n + 1], s, n + 1)
    BY <2>1, <2>2, <2>3, SortingStep
  <2>5. QED  BY <2>1, <2>4
<1>7. N \in Q
  <2> HIDE DEF Q
  <2>1. \A n \in 0 .. N : n \in Q
    BY <1>1, <1>5, <1>6, InductionUpTo
  <2>2. QED  BY <1>1, <2>1
<1>8. QED  BY <1>3, <1>7

(* What is sorted already stays as it is.                                  *)
LEMMA SortedStays ==
  ASSUME NEW s \in Seq(RoutingNodes), \A i, j \in 1 .. Len(s) : i # j => s[i] # s[j],
         \A i, j \in 1 .. Len(s) : i < j => s[i].priority <= s[j].priority
  PROVE  StableSort(s) = s
<1> DEFINE N == Len(s)
           t == StableSort(s)
<1>1. SortOf(t, s, N)
  BY Sorting
<1> HIDE DEF t
<1>2. N \in Nat /\ \A i \in 1 .. N : s[i].priority \in Nat
  BY Elements, PrioritiesAreNumbers
<1>3. /\ t \in Seq(RoutingNodes) /\ Len(t) = N
      /\ \A o \in 1 .. N : \E k \in 1 .. N : t[k] = s[o]
      /\ \A k \in 1 .. N : \E o \in 1 .. N : t[k] = s[o]
  BY <1>1 DEF SortOf
<1>4. ASSUME NEW k \in 1 .. N, NEW l \in 1 .. N, k < l
      PROVE  \E i, j \in 1 .. N : i < j /\ t[k] = s[i] /\ t[l] = s[j]
  <2>1. PICK i \in 1 .. N, j \in 1 .. N : t[k] = s[i] /\ t[l] = s[j] /\ Before(s, i, j)
    BY <1>1, <1>4 DEF SortOf
  <2>2. s[i].priority \in Nat /\ s[j].priority \in Nat /\ i \in Nat /\ j \in Nat
    BY <1>2
  <2>3. ~(j < i) /\ i # j
    BY <2>1, <2>2 DEF Before
  <2>4. QED  BY <2>1, <2>2, <2>3
<1>5. t = s
  <2>1. \A k, l \in 1 .. Len(t) :
           k < l => \E i, j \in 1 .. Len(s) : i < j /\ t[k] = s[i] /\ t[l] = s[j]
    <3>1. Len(t) = N
      BY <1>3
    <3> SUFFICES ASSUME NEW k \in 1 .. N, NEW l \in 1 .. N, k < l
                 PROVE  \E i, j \in 1 .. Len(s) : i < j /\ t[k] = s[i] /\ t[l] = s[j]
      BY <3>1
    <3>2. QED  BY <1>4
  <2>2. /\ \A o \in 1 .. Len(s) : \E k \in 1 .. Len(t) : t[k] = s[o]
        /\ \A k \in 1 .. Len(t) : \E o \in 1 .. Len(s) : t[k] = s[o]
    BY <1>3
  <2>3. QED  BY <1>3, <2>1, <2>2, OrderKept
<1>6. QED  BY <1>5 DEF t

-----------------------------------------------------------------------------
(* The two rankings.                                                       *)

(* Two versions of a rule that differ at most in the priority.             *)
Same(a, b) == /\ a.id = b.id /\ a.kind = b.kind /\ a.filled = b.filled
              /\ a.target = b.target /\ a.disabled = b.disabled

Distinct(s) == \A i, j \in 1 .. Len(s) : i # j => s[i].id # s[j].id

(* A rule with another priority.                                           *)
LEMMA NewPriority ==
  ASSUME NEW r \in RoutingNodes, NEW p \in Nat
  PROVE  LET q == [r EXCEPT !.priority = p]
         IN  q \in RoutingNodes /\ Same(q, r) /\ q.priority = p
BY DEF RoutingNodes, Same

(* A rule that has a priority keeps it.                                    *)
LEMMA OldPriority ==
  ASSUME NEW r \in RoutingNodes
  PROVE  [r EXCEPT !.priority = r.priority] = r
BY DEF RoutingNodes

LEMMA Numbered ==
  ASSUME NEW s \in Seq(RoutingNodes)
  PROVE  LET w == WithPriority(s)
         IN  /\ w \in Seq(RoutingNodes) /\ Len(w) = Len(s)
             /\ \A i \in 1 .. Len(s) :
                   /\ Same(w[i], s[i])
                   /\ w[i].priority = IF s[i].priority = Unset THEN 10 * i ELSE s[i].priority
             /\ (\A i \in 1 .. Len(s) : s[i].priority # Unset) => w = s
<1> DEFINE w == WithPriority(s)
           p(i) == IF s[i].priority = Unset THEN 10 * i ELSE s[i].priority
<1>1. /\ Len(s) \in Nat /\ DOMAIN s = 1 .. Len(s)
      /\ \A i \in 1 .. Len(s) : s[i] \in RoutingNodes /\ s[i].priority \in Nat
  BY Elements, PrioritiesAreNumbers, LenProperties
<1>2. \A i \in 1 .. Len(s) : p(i) \in Nat
  BY <1>1
<1>3. w = [i \in 1 .. Len(s) |-> [s[i] EXCEPT !.priority = p(i)]]
  BY <1>1 DEF WithPriority
<1> HIDE DEF w, p
<1>4. \A i \in 1 .. Len(s) : w[i] \in RoutingNodes /\ Same(w[i], s[i]) /\ w[i].priority = p(i)
  BY <1>1, <1>2, <1>3, NewPriority
<1>5. w \in Seq(RoutingNodes) /\ Len(w) = Len(s)
  BY <1>1, <1>3, <1>4
<1>6. ASSUME \A i \in 1 .. Len(s) : s[i].priority # Unset
      PROVE  w = s
  <2>1. \A i \in 1 .. Len(s) : p(i) = s[i].priority
    BY <1>6 DEF p
  <2>2. \A i \in 1 .. Len(s) : w[i] = [s[i] EXCEPT !.priority = s[i].priority]
    BY <1>3, <2>1
  <2>3. \A i \in 1 .. Len(s) : w[i] = s[i]
    BY <1>1, <2>2, OldPriority
  <2>4. QED  BY <1>5, <2>3, SeqEqual
<1>7. QED  BY <1>4, <1>5, <1>6 DEF w, p

(* A ranking shows every rule once, by a priority above 0.                 *)
RankOf(t, s) ==
    /\ t \in Seq(RoutingNodes) /\ Len(t) = Len(s) /\ Distinct(t)
    /\ \A o \in 1 .. Len(s) : \E k \in 1 .. Len(s) : Same(t[k], s[o])
    /\ \A k \in 1 .. Len(s) : \E o \in 1 .. Len(s) : Same(t[k], s[o])
    /\ \A k, l \in 1 .. Len(s) : k < l => t[k].priority <= t[l].priority

LEMMA Ranking ==
  ASSUME NEW s \in Seq(RoutingNodes), Distinct(s)
  PROVE  RankOf(StableSort(WithPriority(s)), s)
<1> DEFINE N == Len(s)
           w == WithPriority(s)
           t == StableSort(w)
<1>1. /\ w \in Seq(RoutingNodes) /\ Len(w) = N
      /\ \A i \in 1 .. N : Same(w[i], s[i])
  BY Numbered
<1> HIDE DEF w
<1>2. SortOf(t, w, N)
  BY <1>1, Sorting
<1> HIDE DEF t
<1>3. N \in Nat /\ \A i \in 1 .. N : w[i].priority \in Nat
  BY <1>1, Elements, PrioritiesAreNumbers
<1>4. t \in Seq(RoutingNodes) /\ Len(t) = N
  BY <1>2 DEF SortOf
<1>5. ASSUME NEW k \in 1 .. N, NEW l \in 1 .. N, k < l
      PROVE  t[k].priority <= t[l].priority /\ t[k].id # t[l].id
  <2>1. PICK i \in 1 .. N, j \in 1 .. N : t[k] = w[i] /\ t[l] = w[j] /\ Before(w, i, j)
    BY <1>2, <1>5 DEF SortOf
  <2>2. w[i].priority <= w[j].priority /\ i # j
    BY <1>3, <2>1 DEF Before
  <2>3. s[i].id # s[j].id
    BY <2>2 DEF Distinct
  <2>4. w[i].id = s[i].id /\ w[j].id = s[j].id
    BY <1>1 DEF Same
  <2>5. QED  BY <2>1, <2>2, <2>3, <2>4
<1>6. Distinct(t)
  <2>1. \A k, l \in 1 .. N : k # l => k < l \/ l < k
    BY <1>3
  <2>2. QED  BY <1>4, <1>5, <2>1 DEF Distinct
<1>7. \A o \in 1 .. N : \E k \in 1 .. N : Same(t[k], s[o])
  <2> SUFFICES ASSUME NEW o \in 1 .. N
               PROVE  \E k \in 1 .. N : Same(t[k], s[o])
    OBVIOUS
  <2>1. PICK k \in 1 .. N : t[k] = w[o]
    BY <1>2 DEF SortOf
  <2>2. QED  BY <1>1, <2>1
<1>8. \A k \in 1 .. N : \E o \in 1 .. N : Same(t[k], s[o])
  <2> SUFFICES ASSUME NEW k \in 1 .. N
               PROVE  \E o \in 1 .. N : Same(t[k], s[o])
    OBVIOUS
  <2>1. PICK o \in 1 .. N : t[k] = w[o]
    BY <1>2 DEF SortOf
  <2>2. QED  BY <1>1, <2>1
<1>9. RankOf(t, s)
  BY <1>4, <1>5, <1>6, <1>7, <1>8 DEF RankOf
<1>10. QED  BY <1>9 DEF t, w


(* A filter keeps a list in which every rule is there once.                *)
LEMMA FilteredOnce ==
  ASSUME NEW s \in Seq(RoutingNodes), Distinct(s), NEW K \in SUBSET (1 .. Len(s))
  PROVE  Distinct(At(s, K))
<1> DEFINE e == At(s, K)
<1>1. /\ e \in Seq(RoutingNodes) /\ Len(e) \in Nat
      /\ \A k, l \in 1 .. Len(e) :
            k < l => \E i, j \in K : i < j /\ e[k] = s[i] /\ e[l] = s[j]
  BY FilterKeepsTheOrder
<1> HIDE DEF e
<1>2. ASSUME NEW k \in 1 .. Len(e), NEW l \in 1 .. Len(e), k < l
      PROVE  e[k].id # e[l].id
  <2>1. PICK i \in K, j \in K : i < j /\ e[k] = s[i] /\ e[l] = s[j]
    BY <1>1, <1>2
  <2>2. i # j /\ i \in 1 .. Len(s) /\ j \in 1 .. Len(s)
    <3>1. i \in 1 .. Len(s) /\ j \in 1 .. Len(s) /\ Len(s) \in Nat
      BY Elements
    <3>2. QED  BY <2>1, <3>1
  <2>3. QED  BY <2>1, <2>2 DEF Distinct
<1>3. \A k, l \in 1 .. Len(e) : k # l => k < l \/ l < k
  BY <1>1
<1>4. Distinct(e)
  BY <1>2, <1>3 DEF Distinct
<1>5. QED  BY <1>4 DEF e

(* The rules that are matched: the enabled ones, by priority.              *)
LEMMA Ranked ==
  ASSUME NEW rs, WellFormed(rs)
  PROVE  LET R == rankRoutingRules(rs)
         IN  /\ R \in Seq(RoutingNodes) /\ Len(R) \in Nat /\ Distinct(R)
             /\ \A i \in EnabledIn(rs) : \E k \in 1 .. Len(R) : Same(R[k], rs[i])
             /\ \A k \in 1 .. Len(R) : \E i \in EnabledIn(rs) : Same(R[k], rs[i])
             /\ \A k, l \in 1 .. Len(R) : k < l => R[k].priority <= R[l].priority
<1> DEFINE K == EnabledIn(rs)
           e == At(rs, K)
           R == rankRoutingRules(rs)
<1>1. rs \in Seq(RoutingNodes) /\ Distinct(rs) /\ K \in SUBSET (1 .. Len(rs))
  BY LenProperties DEF WellFormed, Distinct, EnabledIn
<1>2. R = StableSort(WithPriority(e))
  BY DEF rankRoutingRules
<1> HIDE DEF K, R
<1>3. /\ e \in Seq(RoutingNodes) /\ Len(e) \in Nat
      /\ \A o \in K : \E k \in 1 .. Len(e) : e[k] = rs[o]
      /\ \A k \in 1 .. Len(e) : \E o \in K : e[k] = rs[o]
  BY <1>1, FilterKeepsTheOrder
<1> HIDE DEF e
<1>4. Distinct(e)
  BY <1>1, FilteredOnce DEF e
<1>5. RankOf(R, e)
  BY <1>2, <1>3, <1>4, Ranking
<1>6. R \in Seq(RoutingNodes) /\ Len(R) = Len(e) /\ Distinct(R)
  BY <1>5 DEF RankOf
<1>7. \A k, l \in 1 .. Len(R) : k < l => R[k].priority <= R[l].priority
  BY <1>5, <1>6 DEF RankOf
<1>8. ASSUME NEW i \in K
      PROVE  \E k \in 1 .. Len(R) : Same(R[k], rs[i])
  <2>1. PICK o \in 1 .. Len(e) : e[o] = rs[i]
    BY <1>3
  <2>2. PICK k \in 1 .. Len(e) : Same(R[k], e[o])
    BY <1>5 DEF RankOf
  <2>3. QED  BY <1>6, <2>1, <2>2
<1>9. ASSUME NEW k \in 1 .. Len(R)
      PROVE  \E i \in K : Same(R[k], rs[i])
  <2>1. PICK o \in 1 .. Len(e) : Same(R[k], e[o])
    BY <1>5, <1>6 DEF RankOf
  <2>2. PICK i \in K : e[o] = rs[i]
    BY <1>3
  <2>3. QED  BY <2>1, <2>2
<1>10. QED  BY <1>3, <1>6, <1>7, <1>8, <1>9 DEF K, R

-----------------------------------------------------------------------------
(* What a target writes when it accepts the project.                       *)

(* The kinds of a rule that a target takes have a rule in its output.      *)
LEMMA SupportedIsLowered == \A t \in Targets : Supported(t) \subseteq Lowered(t)
BY DEF Targets, Supported, Lowered, SingBoxMatchers, SurgeMatchers, LoonMatchers,
       ShadowrocketMatchers, MihomoRules, SingBoxRules, SurgeRules, LoonRules,
       ShadowrocketRules, MatcherKinds, Services, LocalKinds

(* Two versions of a rule compile, or neither does.                        *)
LEMMA SameCompiles ==
  ASSUME NEW a, NEW b, Same(a, b), Compiles(b)
  PROVE  Compiles(a)
BY DEF Same, Compiles

(* The routes that Surge merges are in the order in which they were given. *)
LEMMA SurgeMerges ==
  ASSUME NEW s \in Seq(RoutingNodes), Distinct(s),
         \A i, j \in 1 .. Len(s) : i < j => s[i].priority <= s[j].priority
  PROVE  orderedSurgeRoutes(s) = s
<1> DEFINE N == Len(s)
           native == NativeIn(s)
           K == (1 .. N) \ native
           u == UniversalIn(s)
           merged == [o \in 1 .. N |-> IF o \in native THEN s[o]
                                       ELSE u[Cardinality((1 .. o) \ native)]]
<1>1. N \in Nat /\ DOMAIN s = 1 .. N
  BY Elements, LenProperties
<1>2. u = At(s, K)
  BY <1>1 DEF UniversalIn
<1>3. orderedSurgeRoutes(s) = StableSort(merged)
  BY <1>1 DEF orderedSurgeRoutes
<1> HIDE DEF native, u
<1>4. K \in SUBSET (1 .. N)
  OBVIOUS
<1>5. \A o \in K : u[Nth(K, o)] = s[o]
  BY <1>1, <1>2, <1>4, Filtered
<1>6. \A o \in 1 .. N : (1 .. o) \ native = K \cap 1 .. o
  BY <1>1
<1>7. \A o \in 1 .. N : Cardinality((1 .. o) \ native) = Nth(K, o)
  BY <1>6 DEF Nth
<1>8. \A o \in 1 .. N : merged[o] = s[o]
  BY <1>5, <1>7
<1>9. s = [o \in 1 .. N |-> s[o]]
  BY <1>1
<1>10. merged = s
  <2>1. merged = [o \in 1 .. N |-> merged[o]]
    OBVIOUS
  <2> HIDE DEF merged
  <2>2. QED  BY <1>8, <1>9, <2>1
<1>11. \A i, j \in 1 .. N : i # j => s[i] # s[j]
  BY DEF Distinct
<1> HIDE DEF merged
<1>12. StableSort(s) = s
  BY <1>11, SortedStays
<1>13. QED  BY <1>3, <1>10, <1>12


(* A project that is accepted is written as it is ranked.                  *)
LEMMA Accepted ==
  ASSUME TypeOK, NEW t \in Targets, Accepts(t)
  PROVE  LET R == rankRoutingRules(rules)
         IN  /\ RulesOf(t) = IF t = "loon" THEN At(R, FirstOfService(R)) ELSE R
             /\ \A k \in 1 .. Len(R) : R[k].kind \in Supported(t)
             /\ t = "loon" => LoonOrderIsKept(R)
             /\ t = "shadowrocket" => ShadowrocketOrderIsKept(R)
<1> DEFINE R == rankRoutingRules(rules)
           N == Len(R)
<1>1. WellFormed(rules) /\ strategies \in [Strategies -> {"on", "off", "gone"}]
  BY DEF TypeOK
<1>2. /\ R \in Seq(RoutingNodes) /\ N \in Nat /\ Distinct(R)
      /\ \A k \in 1 .. N : \E i \in EnabledIn(rules) : Same(R[k], rules[i])
      /\ \A k, l \in 1 .. N : k < l => R[k].priority <= R[l].priority
  BY <1>1, Ranked
<1> HIDE DEF R
<1>3. DOMAIN R = 1 .. N
  BY <1>2, LenProperties
<1>4. \A i, j \in 1 .. N : i # j => R[i] # R[j]
  BY <1>2 DEF Distinct
<1>5. \A k \in 1 .. N : Compiles(R[k])
  <2>1. \A i \in EnabledIn(rules) : Compiles(rules[i])
    BY DEF Accepts, GraphCompiles
  <2>2. QED  BY <1>2, <2>1, SameCompiles
<1>6. Emitted = R
  <2>1. Emitted = At(R, {k \in DOMAIN R : Compiles(R[k])})
    BY DEF Emitted, R
  <2>2. {k \in DOMAIN R : Compiles(R[k])} = 1 .. N
    BY <1>3, <1>5
  <2>3. At(R, 1 .. N) = R
    BY <1>2, <1>4, FilterPassed
  <2>4. QED  BY <2>1, <2>2, <2>3
<1>7. \A k \in 1 .. N : R[k].kind \in Supported(t)
  BY <1>3, <1>6 DEF Accepts
<1>8. \A k \in 1 .. N : HasPolicy(R[k])
  <2> SUFFICES ASSUME NEW k \in 1 .. N, R[k].target \in Strategies
               PROVE  strategies[R[k].target] = "on"
    BY DEF HasPolicy
  <2>1. R[k].target = "n" \/ R[k].target = "s"
    BY DEF Strategies
  <2>2. Resolves(R[k].target)
    BY <1>5 DEF Compiles
  <2>3. R[k].target = "n" => strategies["n"] = "on"
    BY <2>2 DEF Resolves, nativeStrategyTarget, compileRouteTarget
  <2>4. R[k].target = "s" => strategies["s"] # "gone"
    BY <2>2 DEF Resolves, nativeStrategyTarget, compileRouteTarget
  <2>5. RouteTargetsExist
    BY DEF Accepts, GraphCompiles
  <2>6. R[k].target = "s" => strategies["s"] # "off"
    BY <1>3, <1>6, <2>5 DEF RouteTargetsExist
  <2>7. strategies["s"] \in {"on", "off", "gone"}
    BY <1>1 DEF Strategies
  <2>8. QED  BY <2>1, <2>3, <2>4, <2>6, <2>7
<1>9. t # "surge" => UniversalIn(R) = R
  <2> SUFFICES ASSUME t # "surge" PROVE UniversalIn(R) = R
    OBVIOUS
  <2>1. NativeIn(R) = {}
    BY <1>6 DEF Accepts
  <2>2. (DOMAIN R) \ NativeIn(R) = 1 .. N
    BY <1>3, <2>1
  <2>3. At(R, 1 .. N) = R
    BY <1>2, <1>4, FilterPassed
  <2>4. QED  BY <2>2, <2>3 DEF UniversalIn
<1> DEFINE sorted == IF t = "surge" THEN orderedSurgeRoutes(Emitted)
                     ELSE StableSort(UniversalIn(Emitted))
           written == At(sorted, {k \in DOMAIN sorted :
                                     sorted[k].kind \in Lowered(t) /\ HasPolicy(sorted[k])})
<1>10. sorted = R
  <2>1. orderedSurgeRoutes(R) = R
    BY <1>2, SurgeMerges
  <2>2. StableSort(R) = R
    BY <1>2, <1>4, SortedStays
  <2>3. QED  BY <1>6, <1>9, <2>1, <2>2
<1>11. RulesOf(t) = IF t = "loon" THEN At(written, FirstOfService(written)) ELSE written
  BY DEF RulesOf
<1> HIDE DEF sorted
<1>12. written = R
  <2>1. \A k \in 1 .. N : R[k].kind \in Lowered(t)
    BY <1>7, SupportedIsLowered
  <2>2. {k \in DOMAIN R : R[k].kind \in Lowered(t) /\ HasPolicy(R[k])} = 1 .. N
    BY <1>3, <1>8, <2>1
  <2>3. At(R, 1 .. N) = R
    BY <1>2, <1>4, FilterPassed
  <2>4. QED  BY <1>10, <2>2, <2>3
<1> HIDE DEF written
<1>13. RulesOf(t) = IF t = "loon" THEN At(R, FirstOfService(R)) ELSE R
  BY <1>11, <1>12
<1>14. t = "loon" => LoonOrderIsKept(R)
  BY <1>6, <1>9 DEF Accepts
<1>15. t = "shadowrocket" => ShadowrocketOrderIsKept(R)
  BY <1>6, <1>9 DEF Accepts
<1>16. QED  BY <1>7, <1>13, <1>14, <1>15 DEF R

(* Of the rules of a service Loon writes the first, and every local rule.  *)
LEMMA LoonWrites ==
  ASSUME NEW s \in Seq(RoutingNodes)
  PROVE  LET out == At(s, FirstOfService(s))
         IN  /\ \A k \in 1 .. Len(s) :
                   \E j \in 1 .. Len(s), a \in 1 .. Len(out) :
                      /\ out[a] = s[j] /\ s[j].kind = s[k].kind
                      /\ s[k].kind \notin Services => j = k
             /\ \A k, l \in 1 .. Len(s) :
                   k < l /\ s[k].kind \notin Services /\ s[l].kind \notin Services =>
                      \E a, b \in 1 .. Len(out) : a < b /\ out[a] = s[k] /\ out[b] = s[l]
<1> DEFINE N == Len(s)
           F == FirstOfService(s)
           out == At(s, F)
<1>1. N \in Nat /\ DOMAIN s = 1 .. N
  BY Elements, LenProperties
<1>2. /\ F \in SUBSET (1 .. N)
      /\ \A k \in 1 .. N : s[k].kind \notin Services => k \in F
      /\ \A k \in 1 .. N : (\A j \in 1 .. k - 1 : s[j].kind # s[k].kind) => k \in F
  BY <1>1 DEF FirstOfService
<1> HIDE DEF F
<1>3. /\ out \in Seq(RoutingNodes)
      /\ \A o \in F : Nth(F, o) \in 1 .. Len(out) /\ out[Nth(F, o)] = s[o]
  BY <1>2, Filtered
<1>4. \A i, j \in F : i < j => Nth(F, i) < Nth(F, j)
  BY <1>1, <1>2, Counting
<1> HIDE DEF out
<1>5. ASSUME NEW k \in 1 .. N
      PROVE  \E j \in F : s[j].kind = s[k].kind /\ (s[k].kind \notin Services => j = k)
  <2>1. CASE s[k].kind \notin Services
    BY <1>2, <2>1
  <2>2. CASE s[k].kind \in Services
    <3> DEFINE T == {j \in 1 .. N : s[j].kind = s[k].kind}
    <3>1. T \in SUBSET Nat /\ T # {}
      BY <1>1
    <3>2. PICK m \in T : \A j \in T : m <= j
      <4> HIDE DEF T
      <4>1. QED  BY <3>1, LeastNatural
    <3>3. m \in 1 .. N /\ s[m].kind = s[k].kind
      OBVIOUS
    <3>4. ASSUME NEW j \in 1 .. m - 1
          PROVE  s[j].kind # s[m].kind
      <4>1. j \in 1 .. N /\ ~(m <= j)
        BY <1>1, <3>3
      <4>2. j \notin T
        BY <3>2, <4>1
      <4>3. QED  BY <3>3, <4>1, <4>2
    <3>5. m \in F
      BY <1>2, <3>3, <3>4
    <3>6. QED  BY <2>2, <3>3, <3>5
  <2>3. QED  BY <2>1, <2>2
<1>6. ASSUME NEW k \in 1 .. N
      PROVE  \E j \in 1 .. N, a \in 1 .. Len(out) :
                /\ out[a] = s[j] /\ s[j].kind = s[k].kind
                /\ s[k].kind \notin Services => j = k
  <2>1. PICK j \in F : s[j].kind = s[k].kind /\ (s[k].kind \notin Services => j = k)
    BY <1>5
  <2>2. j \in 1 .. N /\ Nth(F, j) \in 1 .. Len(out) /\ out[Nth(F, j)] = s[j]
    BY <1>2, <1>3
  <2>3. QED  BY <2>1, <2>2
<1>7. ASSUME NEW k \in 1 .. N, NEW l \in 1 .. N,
             k < l, s[k].kind \notin Services, s[l].kind \notin Services
      PROVE  \E a, b \in 1 .. Len(out) : a < b /\ out[a] = s[k] /\ out[b] = s[l]
  <2>1. k \in F /\ l \in F
    BY <1>2, <1>7
  <2>2. Nth(F, k) < Nth(F, l)
    BY <1>4, <1>7, <2>1
  <2>3. QED  BY <1>3, <2>1, <2>2
<1>8. QED  BY <1>6, <1>7 DEF out, F


(* TypeOK => NothingIsDropped, without a look at the steps.                *)
LEMMA AcceptedIsComplete ==
  ASSUME TypeOK
  PROVE  NothingIsDropped
<1> SUFFICES ASSUME NEW t \in Targets, Accepts(t)
             PROVE  /\ \A i \in EnabledIn(rules) :
                          \E k \in DOMAIN RulesOf(t) :
                             /\ Decides(RulesOf(t)[k], rules[i])
                             /\ RulesOf(t)[k].target = rules[i].target
                    /\ final \in Strategies => strategies[final] = "on"
  BY DEF NothingIsDropped
<1> DEFINE R == rankRoutingRules(rules)
           out == RulesOf(t)
<1>1. /\ R \in Seq(RoutingNodes) /\ Len(R) \in Nat
      /\ \A i \in EnabledIn(rules) : \E k \in 1 .. Len(R) : Same(R[k], rules[i])
  <2>1. WellFormed(rules)
    BY DEF TypeOK
  <2>2. QED  BY <2>1, Ranked
<1>2. out = IF t = "loon" THEN At(R, FirstOfService(R)) ELSE R
  BY Accepted
<1>3. t = "loon" => LoonOrderIsKept(R)
  BY Accepted
<1> HIDE DEF R, out
<1>4. ASSUME NEW i \in EnabledIn(rules)
      PROVE  \E k \in DOMAIN out : Decides(out[k], rules[i]) /\ out[k].target = rules[i].target
  <2>1. PICK k \in 1 .. Len(R) : Same(R[k], rules[i])
    BY <1>1
  <2>2. CASE t # "loon"
    <3>1. out = R /\ DOMAIN R = 1 .. Len(R)
      BY <1>1, <1>2, <2>2, LenProperties
    <3>2. QED  BY <2>1, <3>1 DEF Decides, Same
  <2>3. CASE t = "loon"
    <3>1. out = At(R, FirstOfService(R))
      BY <1>2, <2>3
    <3>2. PICK j \in 1 .. Len(R), a \in 1 .. Len(out) :
             /\ out[a] = R[j] /\ R[j].kind = R[k].kind
             /\ R[k].kind \notin Services => j = k
      BY <1>1, <3>1, LoonWrites, ZenonT(30)
    <3>3. a \in DOMAIN out
      <4>1. out \in Seq(RoutingNodes)
        <5>1. FirstOfService(R) \in SUBSET (1 .. Len(R))
          BY <1>1, LenProperties DEF FirstOfService
        <5>2. QED  BY <1>1, <3>1, <5>1, Filtered
      <4>2. QED  BY <3>2, <4>1, LenProperties
    <3>4. Decides(out[a], rules[i])
      BY <2>1, <3>2 DEF Decides, Same
    <3>5. R[j].target = R[k].target
      <4>1. CASE R[k].kind \notin Services
        BY <3>2, <4>1
      <4>2. CASE R[k].kind \in Services
        <5>1. \A x, y \in DOMAIN R :
                 R[x].kind \in Services /\ R[y].kind \in Services => R[x].target = R[y].target
          BY <1>3, <2>3 DEF LoonOrderIsKept
        <5>2. j \in DOMAIN R /\ k \in DOMAIN R
          BY <1>1, LenProperties
        <5>3. QED  BY <3>2, <4>2, <5>1, <5>2
      <4>3. QED  BY <4>1, <4>2
    <3>6. out[a].target = rules[i].target
      BY <2>1, <3>2, <3>5 DEF Same
    <3>7. QED  BY <3>3, <3>4, <3>6
  <2>4. QED  BY <2>2, <2>3
<1>5. ASSUME final \in Strategies
      PROVE  strategies[final] = "on"
  <2>1. final = "n" \/ final = "s"
    BY <1>5 DEF Strategies
  <2>2. Resolves(final) /\ RouteTargetsExist
    BY DEF Accepts, GraphCompiles
  <2>3. final = "n" => strategies["n"] = "on"
    BY <2>2 DEF Resolves, nativeStrategyTarget, compileRouteTarget
  <2>4. final = "s" => strategies["s"] # "gone" /\ strategies["s"] # "off"
    BY <2>2 DEF Resolves, nativeStrategyTarget, compileRouteTarget, RouteTargetsExist
  <2>5. strategies["s"] \in {"on", "off", "gone"}
    BY DEF TypeOK, Strategies
  <2>6. QED  BY <2>1, <2>3, <2>4, <2>5
<1>6. QED  BY <1>4, <1>5 DEF out

(* TypeOK => TargetsKeepTheOrder: the orders that Loon and Shadowrocket do *)
(* not keep are the ones their compatibility checks refuse.                *)
LEMMA AcceptedIsInOrder ==
  ASSUME TypeOK
  PROVE  TargetsKeepTheOrder
<1> SUFFICES ASSUME NEW t \in Targets, Accepts(t),
                    NEW i \in DOMAIN rankRoutingRules(rules),
                    NEW j \in DOMAIN rankRoutingRules(rules), i < j,
                    rankRoutingRules(rules)[i].target # rankRoutingRules(rules)[j].target
             PROVE  \E a, b \in DOMAIN RulesOf(t) :
                       /\ Decides(RulesOf(t)[a], rankRoutingRules(rules)[i])
                       /\ Decides(RulesOf(t)[b], rankRoutingRules(rules)[j])
                       /\ MatchesFirst(t, RulesOf(t), a, b)
  BY DEF TargetsKeepTheOrder
<1> DEFINE R == rankRoutingRules(rules)
           out == RulesOf(t)
<1>1. R \in Seq(RoutingNodes) /\ Len(R) \in Nat
  <2>1. WellFormed(rules)
    BY DEF TypeOK
  <2>2. QED  BY <2>1, Ranked
<1>2. /\ out = IF t = "loon" THEN At(R, FirstOfService(R)) ELSE R
      /\ \A k \in 1 .. Len(R) : R[k].kind \in Supported(t)
      /\ t = "loon" => LoonOrderIsKept(R)
      /\ t = "shadowrocket" => ShadowrocketOrderIsKept(R)
  BY Accepted
<1>3. i \in DOMAIN R /\ j \in DOMAIN R /\ R[i].target # R[j].target
  OBVIOUS
<1> SUFFICES \E a, b \in DOMAIN out :
                Decides(out[a], R[i]) /\ Decides(out[b], R[j]) /\ MatchesFirst(t, out, a, b)
  OBVIOUS
<1> HIDE DEF R, out
<1>4. /\ DOMAIN R = 1 .. Len(R) /\ i \in 1 .. Len(R) /\ j \in 1 .. Len(R)
  BY <1>1, <1>3, LenProperties
<1>5. CASE t = "shadowrocket"
  <2>1. out = R
    BY <1>2, <1>5
  <2>2. {R[i].kind, R[j].kind} # {"ip", "geo-ip"}
    <3>1. ~(Has(R, {"ip"}) /\ Has(R, {"geo-ip"}))
      BY <1>2, <1>5 DEF ShadowrocketOrderIsKept
    <3>2. QED  BY <1>3, <3>1 DEF Has
  <2>3. MatchesFirst(t, out, i, j)
    BY <1>5, <2>1, <2>2 DEF MatchesFirst
  <2>4. QED  BY <1>3, <2>1, <2>3 DEF Decides
<1>6. CASE t \notin {"loon", "shadowrocket"}
  <2>1. out = R
    BY <1>2, <1>6
  <2>2. MatchesFirst(t, out, i, j)
    BY <1>6 DEF MatchesFirst
  <2>3. QED  BY <1>3, <2>1, <2>2 DEF Decides
<1>7. CASE t = "loon"
  <2>1. out = At(R, FirstOfService(R)) /\ LoonOrderIsKept(R)
    BY <1>2, <1>7
  <2>2. DOMAIN out = 1 .. Len(out)
    <3>1. FirstOfService(R) \in SUBSET (1 .. Len(R))
      BY <1>4 DEF FirstOfService
    <3>2. out \in Seq(RoutingNodes)
      BY <1>1, <2>1, <3>1, Filtered
    <3>3. QED  BY <3>2, LenProperties
  <2>3. /\ R[i].kind \in Services \cup {"domain", "ip", "geo-ip"}
        /\ R[j].kind \in Services \cup {"domain", "ip", "geo-ip"}
    BY <1>2, <1>4, <1>7 DEF Supported, LoonMatchers
  <2>4. "domain" \notin Services /\ "ip" \notin Services /\ "geo-ip" \notin Services
    BY DEF Services
  <2>5. R[i].kind \notin Services
    <3> SUFFICES ASSUME R[i].kind \in Services PROVE FALSE
      OBVIOUS
    <3>1. R[j].kind \notin Services
      BY <1>3, <2>1 DEF LoonOrderIsKept
    <3>2. R[j].kind = "domain" => j < i
      BY <1>3, <2>1 DEF LoonOrderIsKept
    <3>3. R[j].kind # "domain"
      BY <1>1, <1>4, <3>2
    <3>4. Has(R, Services) /\ Has(R, {"ip", "geo-ip"})
      BY <1>3, <2>3, <3>1, <3>3 DEF Has
    <3>5. QED  BY <2>1, <3>4 DEF LoonOrderIsKept
  <2>6. CASE R[j].kind \in Services
    <3>1. R[i].kind = "domain"
      <4>1. Has(R, Services)
        BY <1>3, <2>6 DEF Has
      <4>2. ~Has(R, {"ip", "geo-ip"})
        BY <2>1, <4>1 DEF LoonOrderIsKept
      <4>3. R[i].kind # "ip" /\ R[i].kind # "geo-ip"
        BY <1>3, <4>2 DEF Has
      <4>4. QED  BY <2>3, <2>5, <4>3
    <3>2. PICK x \in 1 .. Len(R), a \in 1 .. Len(out) :
             /\ out[a] = R[x] /\ R[x].kind = R[i].kind
             /\ R[i].kind \notin Services => x = i
      BY <1>1, <1>4, <2>1, LoonWrites, ZenonT(30)
    <3>3. PICK y \in 1 .. Len(R), b \in 1 .. Len(out) :
             /\ out[b] = R[y] /\ R[y].kind = R[j].kind
             /\ R[j].kind \notin Services => y = j
      BY <1>1, <1>4, <2>1, LoonWrites, ZenonT(30)
    <3>4. Decides(out[a], R[i]) /\ Decides(out[b], R[j])
      BY <2>5, <2>6, <3>2, <3>3 DEF Decides
    <3>5. MatchesFirst(t, out, a, b)
      BY <1>7, <2>4, <2>6, <3>1, <3>2, <3>3 DEF MatchesFirst
    <3>6. QED  BY <2>2, <3>4, <3>5
  <2>7. CASE R[j].kind \notin Services
    <3>1. \A k, l \in 1 .. Len(R) :
             k < l /\ R[k].kind \notin Services /\ R[l].kind \notin Services =>
                \E a, b \in 1 .. Len(out) : a < b /\ out[a] = R[k] /\ out[b] = R[l]
      <4> DEFINE o == At(R, FirstOfService(R))
      <4>1. \A k, l \in 1 .. Len(R) :
               k < l /\ R[k].kind \notin Services /\ R[l].kind \notin Services =>
                  \E a, b \in 1 .. Len(o) : a < b /\ o[a] = R[k] /\ o[b] = R[l]
        BY ONLY <1>1, LoonWrites
      <4>2. out = o
        BY <2>1
      <4> HIDE DEF o
      <4>3. QED  BY ONLY <4>1, <4>2, SMTT(30)
    <3>2. PICK a \in 1 .. Len(out), b \in 1 .. Len(out) : a < b /\ out[a] = R[i] /\ out[b] = R[j]
      BY <1>4, <2>5, <2>7, <3>1
    <3>3. R[i].kind = "domain" <=> R[j].kind = "domain"
      <4>1. ~(Has(R, {"domain"}) /\ Has(R, {"ip", "geo-ip"}))
        BY <2>1 DEF LoonOrderIsKept
      <4>2. QED  BY <1>3, <2>3, <2>5, <2>7, <4>1 DEF Has
    <3>4. MatchesFirst(t, out, a, b)
      BY <1>7, <2>5, <2>7, <3>2, <3>3 DEF MatchesFirst
    <3>5. QED  BY <2>2, <3>2, <3>4 DEF Decides
  <2>8. QED  BY <2>6, <2>7
<1>8. QED  BY <1>5, <1>6, <1>7


-----------------------------------------------------------------------------
(* Moving a rule.                                                          *)

(* The place of a rule in a list that has every rule once.                 *)
LEMMA Placing ==
  ASSUME NEW s \in Seq(RoutingNodes), Distinct(s), NEW k \in 1 .. Len(s), NEW id, s[k].id = id
  PROVE  Place(s, id) = k
<1>1. DOMAIN s = 1 .. Len(s)
  BY LenProperties
<1>2. \A l \in 1 .. Len(s) : s[l].id = id => l = k
  BY DEF Distinct
<1>3. QED  BY <1>1, <1>2 DEF Place

(* Some rule of each list has the id of each rule of the other.            *)
SameIds(s, t) ==
    /\ Len(t) = Len(s)
    /\ \A o \in 1 .. Len(s) : \E k \in 1 .. Len(s) : t[k].id = s[o].id
    /\ \A k \in 1 .. Len(s) : \E o \in 1 .. Len(s) : t[k].id = s[o].id

(* What the routing page lists: every rule, once.                          *)
LEMMA Listed ==
  ASSUME NEW rs, WellFormed(rs)
  PROVE  LET W == rankWorkspaceRoutingRules(rs)
         IN  W \in Seq(RoutingNodes) /\ Distinct(W) /\ SameIds(rs, W)
<1> DEFINE W == rankWorkspaceRoutingRules(rs)
<1>1. rs \in Seq(RoutingNodes) /\ Distinct(rs)
  BY LenProperties DEF WellFormed, Distinct
<1>2. RankOf(W, rs)
  BY <1>1, Ranking DEF rankWorkspaceRoutingRules
<1> HIDE DEF W
<1>3. W \in Seq(RoutingNodes) /\ Distinct(W) /\ Len(W) = Len(rs)
  BY <1>2 DEF RankOf
<1>4. \A o \in 1 .. Len(rs) : \E k \in 1 .. Len(rs) : W[k].id = rs[o].id
  BY <1>2 DEF RankOf, Same
<1>5. \A k \in 1 .. Len(rs) : \E o \in 1 .. Len(rs) : W[k].id = rs[o].id
  BY <1>2 DEF RankOf, Same
<1>6. QED  BY <1>3, <1>4, <1>5 DEF W, SameIds

(* A rule is taken out of a list and put back in another place.            *)
LEMMA Moved ==
  ASSUME NEW W \in Seq(RoutingNodes), Distinct(W),
         NEW from \in 1 .. Len(W), NEW to \in 1 .. Len(W)
  PROVE  LET V == RemoveAt(W, from)
             M == InsertAt(V, to, W[from])
         IN  /\ V \in Seq(RoutingNodes) /\ Len(V) = Len(W) - 1
             /\ M \in Seq(RoutingNodes) /\ Len(M) = Len(W) /\ Distinct(M)
             /\ \A k \in 1 .. Len(W) :
                   M[k] = IF k < to THEN V[k] ELSE IF k = to THEN W[from] ELSE V[k - 1]
             /\ SameIds(W, M)
<1> DEFINE N == Len(W)
           V == RemoveAt(W, from)
           e == W[from]
           M == InsertAt(V, to, e)
<1>1. N \in Nat /\ \A k \in 1 .. N : W[k] \in RoutingNodes
  BY Elements
<1>2. /\ V \in Seq(RoutingNodes) /\ Len(V) = N - 1
      /\ \A k \in 1 .. N - 1 : V[k] = IF k < from THEN W[k] ELSE W[k + 1]
  <2>1. /\ V \in Seq(RoutingNodes) /\ Len(V) = N - 1
        /\ \A k \in 1 .. Len(V) : V[k] = IF k < from THEN W[k] ELSE W[k + 1]
    BY Removal
  <2> HIDE DEF V
  <2>2. QED  BY <2>1
<1> HIDE DEF V
<1>3. /\ M \in Seq(RoutingNodes) /\ Len(M) = N
      /\ \A k \in 1 .. N : M[k] = IF k < to THEN V[k] ELSE IF k = to THEN W[from] ELSE V[k - 1]
  <2>1. /\ V \in Seq(RoutingNodes) /\ Len(V) \in Nat
        /\ to \in 1 .. Len(V) + 1 /\ e \in RoutingNodes
    BY <1>1, <1>2
  <2> HIDE DEF e
  <2>2. /\ M \in Seq(RoutingNodes) /\ Len(M) = Len(V) + 1
        /\ \A k \in 1 .. Len(M) :
              M[k] = IF k < to THEN V[k] ELSE IF k = to THEN e ELSE V[k - 1]
    <3> DEFINE v == InsertAt(V, to, e)
    <3>1. /\ v \in Seq(RoutingNodes) /\ Len(v) = Len(V) + 1
          /\ \A k \in 1 .. Len(v) :
                v[k] = IF k < to THEN V[k] ELSE IF k = to THEN e ELSE V[k - 1]
      BY ONLY <2>1, Insertion DEF v
    <3>2. M = v
      OBVIOUS
    <3> HIDE DEF v, M
    <3>3. QED  BY ONLY <3>1, <3>2
  <2> HIDE DEF M
  <2>3. QED  BY <1>1, <1>2, <2>2 DEF e
<1> HIDE DEF M
<1> DEFINE g == [k \in 1 .. N |-> IF k = to THEN from
                                  ELSE LET m == IF k < to THEN k ELSE k - 1
                                       IN  IF m < from THEN m ELSE m + 1]
<1>4. \A k \in 1 .. N : g[k] \in 1 .. N /\ M[k] = W[g[k]]
  <2> SUFFICES ASSUME NEW k \in 1 .. N
               PROVE  g[k] \in 1 .. N /\ M[k] = W[g[k]]
    OBVIOUS
  <2>1. CASE k = to
    BY <1>1, <1>3, <2>1
  <2>2. CASE k # to
    <3> DEFINE m == IF k < to THEN k ELSE k - 1
    <3>1. m \in 1 .. N - 1 /\ M[k] = V[m]
      BY <1>1, <1>3, <2>2
    <3>2. g[k] = IF m < from THEN m ELSE m + 1
      BY <2>2
    <3> HIDE DEF m, g
    <3>3. M[k] = W[g[k]]
      BY <1>2, <3>1, <3>2
    <3>4. g[k] \in 1 .. N
      BY <1>1, <3>1, <3>2
    <3>5. QED  BY <3>3, <3>4
  <2>3. QED  BY <2>1, <2>2
<1>5. \A k, l \in 1 .. N : k # l => g[k] # g[l]
  BY <1>1
<1>6. \A o \in 1 .. N : \E k \in 1 .. N : g[k] = o
  <2> SUFFICES ASSUME NEW o \in 1 .. N
               PROVE  \E k \in 1 .. N : g[k] = o
    OBVIOUS
  <2> DEFINE m == IF o < from THEN o ELSE o - 1
             k == IF o = from THEN to ELSE IF m < to THEN m ELSE m + 1
  <2>1. k \in 1 .. N /\ g[k] = o
    BY <1>1
  <2>2. QED  BY <2>1
<1> HIDE DEF g
<1>7. Distinct(M)
  <2> SUFFICES ASSUME NEW k \in 1 .. N, NEW l \in 1 .. N, k # l
               PROVE  M[k].id # M[l].id
    BY <1>3 DEF Distinct
  <2>1. g[k] \in 1 .. N /\ g[l] \in 1 .. N /\ g[k] # g[l]
    BY <1>4, <1>5
  <2>2. W[g[k]].id # W[g[l]].id
    BY <2>1 DEF Distinct
  <2>3. QED  BY <1>4, <2>2
<1>8. SameIds(W, M)
  <2>1. \A o \in 1 .. N : \E k \in 1 .. N : M[k].id = W[o].id
    <3> SUFFICES ASSUME NEW o \in 1 .. N
                 PROVE  \E k \in 1 .. N : M[k].id = W[o].id
      OBVIOUS
    <3>1. PICK k \in 1 .. N : g[k] = o
      BY <1>6
    <3>2. M[k] = W[o]
      BY <1>4, <3>1
    <3>3. QED  BY <3>2
  <2>2. \A k \in 1 .. N : \E o \in 1 .. N : M[k].id = W[o].id
    BY <1>4
  <2>3. QED  BY <1>3, <2>1, <2>2 DEF SameIds
<1>9. QED  BY <1>2, <1>3, <1>7, <1>8 DEF V, M

(* The rules are stored with the priorities of their places.               *)
LEMMA Stored ==
  ASSUME NEW rs, WellFormed(rs), NEW M \in Seq(RoutingNodes), Distinct(M), SameIds(rs, M)
  PROVE  LET new == Renumbered(M, rs)
         IN  /\ WellFormed(new) /\ Len(new) = Len(rs)
             /\ \A o \in 1 .. Len(rs) :
                   /\ Same(new[o], rs[o])
                   /\ Place(M, rs[o].id) \in 1 .. Len(rs)
                   /\ M[Place(M, rs[o].id)].id = rs[o].id
                   /\ new[o].priority = 10 * Place(M, rs[o].id)
<1> DEFINE N == Len(rs)
           p(o) == Place(M, rs[o].id)
           new == Renumbered(M, rs)
<1>1. /\ N \in Nat /\ DOMAIN rs = 1 .. N /\ rs \in Seq(RoutingNodes) /\ Distinct(rs)
      /\ \A o \in 1 .. N : rs[o] \in RoutingNodes
  BY LenProperties, ElementOfSeq DEF WellFormed, Distinct
<1>2. ASSUME NEW o \in 1 .. N
      PROVE  p(o) \in 1 .. N /\ M[p(o)].id = rs[o].id
  <2>1. PICK k \in 1 .. N : M[k].id = rs[o].id
    BY DEF SameIds
  <2>2. Len(M) = N
    BY DEF SameIds
  <2>3. Place(M, rs[o].id) = k
    BY <2>1, <2>2, Placing
  <2>4. QED  BY <2>1, <2>3
<1>3. new = [o \in 1 .. N |-> [rs[o] EXCEPT !.priority = 10 * p(o)]]
  BY <1>1 DEF Renumbered
<1> HIDE DEF new, p
<1>4. \A o \in 1 .. N : 10 * p(o) \in Nat
  BY <1>2
<1>5. \A o \in 1 .. N :
         new[o] \in RoutingNodes /\ Same(new[o], rs[o]) /\ new[o].priority = 10 * p(o)
  BY <1>1, <1>3, <1>4, NewPriority
<1>6. new \in Seq(RoutingNodes) /\ Len(new) = N /\ DOMAIN new = 1 .. N
  <2>1. \A o \in 1 .. N : new[o] \in RoutingNodes
    BY <1>5
  <2>2. DOMAIN new = 1 .. N /\ new = [o \in 1 .. N |-> new[o]]
    BY <1>3
  <2>3. QED  BY <1>1, <2>1, <2>2
<1>7. N <= MaxRules
  BY DEF WellFormed
<1>8. \A i, j \in 1 .. N : i # j => new[i].id # new[j].id
  BY <1>1, <1>5 DEF Distinct, Same
<1>9. WellFormed(new)
  BY <1>6, <1>7, <1>8 DEF WellFormed
<1>10. QED  BY <1>2, <1>5, <1>6, <1>9 DEF new, p


LEMMA Moving ==
  ASSUME NEW rs, WellFormed(rs), NEW i \in DOMAIN rs, NEW to \in DOMAIN rs
  PROVE  LET W == rankWorkspaceRoutingRules(rs)
             from == Place(W, rs[i].id)
             M == InsertAt(RemoveAt(W, from), to, W[from])
             new == moveRoutingRuleToIndex(rs, rs[i].id, to)
         IN  /\ from \in 1 .. Len(W) /\ W[from].id = rs[i].id /\ to \in 1 .. Len(W)
             /\ M \in Seq(RoutingNodes) /\ Distinct(M) /\ SameIds(rs, M)
             /\ new = Renumbered(M, rs) /\ WellFormed(new) /\ Len(new) = Len(rs)
<1> DEFINE N == Len(rs)
           W == rankWorkspaceRoutingRules(rs)
           from == Place(W, rs[i].id)
           M == InsertAt(RemoveAt(W, from), to, W[from])
           new == moveRoutingRuleToIndex(rs, rs[i].id, to)
<1>1. new = Renumbered(M, rs)
  BY DEF moveRoutingRuleToIndex
<1>2. N \in Nat /\ i \in 1 .. N /\ to \in 1 .. N
  BY LenProperties DEF WellFormed
<1>3. W \in Seq(RoutingNodes) /\ Distinct(W) /\ SameIds(rs, W)
  BY Listed
<1> HIDE DEF W, new
<1>4. Len(W) = N
  BY <1>3 DEF SameIds
<1>5. from \in 1 .. Len(W) /\ W[from].id = rs[i].id
  <2>1. PICK k \in 1 .. N : W[k].id = rs[i].id
    BY <1>2, <1>3 DEF SameIds
  <2>2. Place(W, rs[i].id) = k
    BY <1>3, <1>4, <2>1, Placing
  <2>3. QED  BY <1>4, <2>1, <2>2
<1> HIDE DEF from
<1>6. M \in Seq(RoutingNodes) /\ Distinct(M) /\ SameIds(W, M)
  BY <1>2, <1>3, <1>4, <1>5, Moved
<1> HIDE DEF M
<1>7. SameIds(rs, M)
  <2>1. Len(M) = N
    BY <1>4, <1>6 DEF SameIds
  <2>2. ASSUME NEW o \in 1 .. N
        PROVE  \E k \in 1 .. N : M[k].id = rs[o].id
    <3>1. PICK j \in 1 .. N : W[j].id = rs[o].id
      BY <1>3 DEF SameIds
    <3>2. PICK k \in 1 .. N : M[k].id = W[j].id
      BY <1>4, <1>6 DEF SameIds
    <3>3. QED  BY <3>1, <3>2
  <2>3. ASSUME NEW k \in 1 .. N
        PROVE  \E o \in 1 .. N : M[k].id = rs[o].id
    <3>1. PICK j \in 1 .. N : M[k].id = W[j].id
      BY <1>4, <1>6 DEF SameIds
    <3>2. PICK o \in 1 .. N : W[j].id = rs[o].id
      BY <1>3 DEF SameIds
    <3>3. QED  BY <3>1, <3>2
  <2>4. QED  BY <2>1, <2>2, <2>3 DEF SameIds
<1>8. WellFormed(Renumbered(M, rs)) /\ Len(Renumbered(M, rs)) = N
  BY <1>6, <1>7, Stored
<1>9. QED  BY <1>1, <1>2, <1>4, <1>5, <1>6, <1>7, <1>8 DEF W, from, M, new

-----------------------------------------------------------------------------
(* Types.                                                                  *)

LEMMA Appended ==
  ASSUME NEW rs, WellFormed(rs), Len(rs) < MaxRules,
         NEW r \in RoutingNodes, \A i \in DOMAIN rs : rs[i].id # r.id
  PROVE  WellFormed(Append(rs, r))
<1> DEFINE t == Append(rs, r)
<1>1. /\ rs \in Seq(RoutingNodes) /\ Len(rs) \in Nat /\ DOMAIN rs = 1 .. Len(rs)
      /\ \A i, j \in DOMAIN rs : i # j => rs[i].id # rs[j].id
  BY LenProperties DEF WellFormed
<1>2. /\ t \in Seq(RoutingNodes) /\ Len(t) = Len(rs) + 1 /\ t[Len(rs) + 1] = r
      /\ \A i \in 1 .. Len(rs) : t[i] = rs[i]
  BY <1>1, AppendProperties
<1> HIDE DEF t
<1>3. DOMAIN t = 1 .. Len(rs) + 1
  BY <1>2, LenProperties
<1>4. Len(t) <= MaxRules
  BY <1>1, <1>2, BoundsAssumption
<1>5. ASSUME NEW i \in DOMAIN t, NEW j \in DOMAIN t, i # j
      PROVE  t[i].id # t[j].id
  <2>1. (i \in 1 .. Len(rs) \/ i = Len(rs) + 1) /\ (j \in 1 .. Len(rs) \/ j = Len(rs) + 1)
    BY <1>1, <1>3
  <2>2. QED  BY <1>1, <1>2, <1>5, <2>1
<1>6. QED  BY <1>2, <1>4, <1>5 DEF WellFormed, t

LEMMA Changed ==
  ASSUME NEW rs, WellFormed(rs), NEW i \in DOMAIN rs,
         NEW r \in RoutingNodes, r.id = rs[i].id
  PROVE  WellFormed([rs EXCEPT ![i] = r])
<1> DEFINE t == [rs EXCEPT ![i] = r]
<1>1. /\ rs \in Seq(RoutingNodes) /\ Len(rs) \in Nat /\ DOMAIN rs = 1 .. Len(rs)
      /\ \A k, l \in DOMAIN rs : k # l => rs[k].id # rs[l].id
  BY LenProperties DEF WellFormed
<1>2. /\ t \in Seq(RoutingNodes) /\ Len(t) = Len(rs) /\ DOMAIN t = DOMAIN rs
      /\ \A k \in DOMAIN rs : t[k] = IF k = i THEN r ELSE rs[k]
  <2>1. DOMAIN t = 1 .. Len(rs) /\ \A k \in 1 .. Len(rs) : t[k] = IF k = i THEN r ELSE rs[k]
    BY <1>1
  <2>2. \A k \in 1 .. Len(rs) : t[k] \in RoutingNodes
    BY <1>1, <2>1, ElementOfSeq
  <2>3. t = [k \in 1 .. Len(rs) |-> t[k]]
    BY <1>1
  <2> HIDE DEF t
  <2>4. QED  BY <1>1, <2>1, <2>2, <2>3
<1> HIDE DEF t
<1>3. \A k \in DOMAIN rs : t[k].id = rs[k].id
  BY <1>2
<1>4. Len(rs) <= MaxRules
  BY DEF WellFormed
<1>5. QED  BY <1>1, <1>2, <1>3, <1>4 DEF WellFormed, t

LEMMA Removed ==
  ASSUME NEW rs, WellFormed(rs), NEW i \in DOMAIN rs
  PROVE  WellFormed(RemoveAt(rs, i))
<1> DEFINE t == RemoveAt(rs, i)
<1>1. /\ rs \in Seq(RoutingNodes) /\ Len(rs) \in Nat /\ DOMAIN rs = 1 .. Len(rs)
      /\ Len(rs) <= MaxRules
  BY LenProperties DEF WellFormed
<1>2. /\ t \in Seq(RoutingNodes) /\ Len(t) = Len(rs) - 1
      /\ \A k \in 1 .. Len(t) : t[k] = IF k < i THEN rs[k] ELSE rs[k + 1]
  BY <1>1, Removal
<1> HIDE DEF t
<1>3. DOMAIN t = 1 .. Len(rs) - 1
  BY <1>2, LenProperties
<1>4. Len(t) <= MaxRules
  BY <1>1, <1>2, BoundsAssumption
<1>5. ASSUME NEW k \in DOMAIN t, NEW l \in DOMAIN t, k # l
      PROVE  t[k].id # t[l].id
  <2> DEFINE a == IF k < i THEN k ELSE k + 1
             b == IF l < i THEN l ELSE l + 1
  <2>1. a \in DOMAIN rs /\ b \in DOMAIN rs /\ a # b
    BY <1>1, <1>3, <1>5
  <2>2. t[k] = rs[a] /\ t[l] = rs[b]
    BY <1>1, <1>2, <1>3
  <2> HIDE DEF a, b
  <2>3. QED  BY <2>1, <2>2 DEF WellFormed
<1>6. QED  BY <1>2, <1>4, <1>5 DEF WellFormed, t


(* Types: an edit leaves a graph whose rules are nodes with ids of their   *)
(* own, a move too (useBuilderStore.ts:343-392).                           *)
LEMMA NextKeepsTypes == TypeOK /\ [Next]_vars => TypeOK'
<1> SUFFICES ASSUME TypeOK, [Next]_vars PROVE TypeOK'
  OBVIOUS
<1>1. /\ WellFormed(rules) /\ rules \in Seq(RoutingNodes) /\ DOMAIN rules = 1 .. Len(rules)
      /\ Len(rules) \in Nat /\ \A i \in DOMAIN rules : rules[i] \in RoutingNodes
  BY LenProperties, ElementOfSeq DEF TypeOK, WellFormed
<1>2. /\ strategies \in [Strategies -> {"on", "off", "gone"}] /\ final \in RouteTargets
      /\ edits \in 0 .. MaxEdits
  BY DEF TypeOK
<1>3. ASSUME Edit PROVE edits' \in 0 .. MaxEdits
  BY <1>2, <1>3, BoundsAssumption DEF Edit
<1>4. ASSUME NEW rs, WellFormed(rs), SetRules(rs) PROVE TypeOK'
  <2>1. Edit /\ rules' = rs /\ strategies' = strategies /\ final' = final
    BY <1>4 DEF SetRules
  <2>2. WellFormed(rules')
    BY <1>4, <2>1
  <2>3. edits' \in 0 .. MaxEdits
    BY <1>3, <2>1
  <2>4. QED  BY <1>2, <2>1, <2>2, <2>3 DEF TypeOK
<1>5. ASSUME NEW kind \in Kinds, AddRule(kind) PROVE TypeOK'
  <2>1. PICK id \in Fresh : SetRules(Append(rules, Rule(id, kind)))
    BY <1>5 DEF AddRule
  <2>2. Rule(id, kind) \in RoutingNodes /\ Rule(id, kind).id = id
    BY KindsAssumption DEF Rule, RoutingNodes, Fresh, Unset
  <2>3. \A i \in DOMAIN rules : rules[i].id # id
    BY DEF Fresh
  <2>4. Len(rules) < MaxRules
    BY <1>5 DEF AddRule
  <2>5. WellFormed(Append(rules, Rule(id, kind)))
    BY <1>1, <2>2, <2>3, <2>4, Appended
  <2>6. QED  BY <1>4, <2>1, <2>5
<1>6. ASSUME NEW i \in DOMAIN rules, Duplicate(i) PROVE TypeOK'
  <2>1. PICK id \in Fresh : SetRules(Append(rules, [rules[i] EXCEPT !.id = id]))
    BY <1>6 DEF Duplicate
  <2> DEFINE r == [rules[i] EXCEPT !.id = id]
  <2>2. r \in RoutingNodes /\ r.id = id
    <3>1. rules[i] \in RoutingNodes /\ id \in Ids
      BY <1>1 DEF Fresh
    <3>2. QED  BY <3>1 DEF RoutingNodes
  <2> HIDE DEF r
  <2>3. \A k \in DOMAIN rules : rules[k].id # id
    BY DEF Fresh
  <2>4. Len(rules) < MaxRules
    BY <1>6 DEF Duplicate
  <2>5. WellFormed(Append(rules, r))
    BY <1>1, <2>2, <2>3, <2>4, Appended
  <2>6. QED  BY <1>4, <2>1, <2>5 DEF r
<1>7. ASSUME NEW i \in DOMAIN rules, removeNode(i) PROVE TypeOK'
  BY <1>1, <1>4, <1>7, Removed DEF removeNode
<1>8. ASSUME NEW i \in DOMAIN rules, Fill(i) PROVE TypeOK'
  <2> DEFINE r == [rules[i] EXCEPT !.filled = TRUE]
  <2>1. r \in RoutingNodes /\ r.id = rules[i].id
    <3>1. rules[i] \in RoutingNodes
      BY <1>1
    <3>2. QED  BY <3>1 DEF RoutingNodes
  <2>2. [rules EXCEPT ![i].filled = TRUE] = [rules EXCEPT ![i] = r]
    OBVIOUS
  <2> HIDE DEF r
  <2>3. WellFormed([rules EXCEPT ![i] = r])
    BY <1>1, <2>1, Changed
  <2>4. SetRules([rules EXCEPT ![i] = r])
    BY <1>8, <2>2 DEF Fill
  <2>5. QED  BY <1>4, <2>3, <2>4
<1>9. ASSUME NEW i \in DOMAIN rules, ToggleDisabled(i) PROVE TypeOK'
  <2> DEFINE r == [rules[i] EXCEPT !.disabled = ~@]
  <2>1. r \in RoutingNodes /\ r.id = rules[i].id
    <3>1. rules[i] \in RoutingNodes
      BY <1>1
    <3>2. QED  BY <3>1 DEF RoutingNodes
  <2>2. [rules EXCEPT ![i].disabled = ~@] = [rules EXCEPT ![i] = r]
    OBVIOUS
  <2> HIDE DEF r
  <2>3. WellFormed([rules EXCEPT ![i] = r])
    BY <1>1, <2>1, Changed
  <2>4. SetRules([rules EXCEPT ![i] = r])
    BY <1>9, <2>2 DEF ToggleDisabled
  <2>5. QED  BY <1>4, <2>3, <2>4
<1>10. ASSUME NEW i \in DOMAIN rules, NEW t \in RouteTargets, setRoutingTarget(i, t)
       PROVE  TypeOK'
  <2> DEFINE r == [rules[i] EXCEPT !.target = t]
  <2>1. r \in RoutingNodes /\ r.id = rules[i].id
    <3>1. rules[i] \in RoutingNodes
      BY <1>1
    <3>2. QED  BY <3>1 DEF RoutingNodes
  <2>2. [rules EXCEPT ![i].target = t] = [rules EXCEPT ![i] = r]
    OBVIOUS
  <2> HIDE DEF r
  <2>3. WellFormed([rules EXCEPT ![i] = r])
    BY <1>1, <2>1, Changed
  <2>4. SetRules([rules EXCEPT ![i] = r])
    BY <1>10, <2>2 DEF setRoutingTarget
  <2>5. QED  BY <1>4, <2>3, <2>4
<1>11. ASSUME NEW i \in DOMAIN rules, NEW to \in DOMAIN rules, Move(i, to) PROVE TypeOK'
  <2>1. WellFormed(moveRoutingRuleToIndex(rules, rules[i].id, to))
    BY <1>1, Moving
  <2>2. SetRules(moveRoutingRuleToIndex(rules, rules[i].id, to))
    BY <1>11 DEF Move
  <2>3. QED  BY <1>4, <2>1, <2>2
<1>12. ASSUME NEW t \in RouteTargets, SetFinal(t) PROVE TypeOK'
  <2>1. edits' \in 0 .. MaxEdits
    BY <1>3, <1>12 DEF SetFinal
  <2>2. rules' = rules /\ strategies' = strategies /\ final' = t
    BY <1>12 DEF SetFinal
  <2>3. QED  BY <1>1, <1>2, <2>1, <2>2 DEF TypeOK
<1>13. ASSUME NEW x \in Strategies, NEW status \in {"on", "off", "gone"},
              EditStrategy(x, status)
       PROVE  TypeOK'
  <2>1. edits' \in 0 .. MaxEdits
    BY <1>3, <1>13 DEF EditStrategy
  <2>2. rules' = rules /\ final' = final
    BY <1>13 DEF EditStrategy
  <2>3. strategies' \in [Strategies -> {"on", "off", "gone"}]
    BY <1>2, <1>13 DEF EditStrategy
  <2>4. QED  BY <1>1, <1>2, <2>1, <2>2, <2>3 DEF TypeOK
<1>14. CASE UNCHANGED vars
  <2>1. rules' = rules /\ strategies' = strategies /\ final' = final /\ edits' = edits
    BY <1>14 DEF vars
  <2>2. QED  BY <1>1, <1>2, <2>1 DEF TypeOK
<1>15. QED
  BY <1>5, <1>6, <1>7, <1>8, <1>9, <1>10, <1>11, <1>12, <1>13, <1>14 DEF Next

LEMMA InitHasTypes == Init => TypeOK
<1> SUFFICES ASSUME Init PROVE TypeOK
  OBVIOUS
<1>1. WellFormed(rules)
  BY StartsAssumption DEF Init
<1>2. strategies \in [Strategies -> {"on", "off", "gone"}] /\ final \in RouteTargets
  BY DEF Init, RouteTargets
<1>3. edits \in 0 .. MaxEdits
  BY BoundsAssumption DEF Init
<1>4. QED  BY <1>1, <1>2, <1>3 DEF TypeOK

(* Every rule is a routing node with a matcher the user may pick, and no   *)
(* two have the same id, whatever was added, copied, moved or removed      *)
(* (useBuilderStore.ts:343-392).                                           *)
THEOREM TypeCorrect == Spec => []TypeOK
BY InitHasTypes, NextKeepsTypes, PTL DEF Spec

(* If one enabled rule precedes another that sends traffic elsewhere, the  *)
(* client of every target that accepts the project matches it first        *)
(* (compileRouting.ts, surge/rules.ts 49-61, loon/compatibility.ts 115-255,*)
(* shadowrocket/routing.ts 14-37).                                         *)
THEOREM OrderIsKept == Spec => []TargetsKeepTheOrder
<1>1. TypeOK => TargetsKeepTheOrder
  BY AcceptedIsInOrder
<1>2. QED  BY <1>1, TypeCorrect, PTL

(* A target that accepts the project leaves out no enabled rule and names  *)
(* no strategy it has not written (rules.ts, routing.ts and compatibility.ts*)
(* of each target, validateIR.ts:196-200).                                 *)
THEOREM EveryRuleIsWritten == Spec => []NothingIsDropped
<1>1. TypeOK => NothingIsDropped
  BY AcceptedIsComplete
<1>2. QED  BY <1>1, TypeCorrect, PTL


-----------------------------------------------------------------------------
(* What a move shows.                                                      *)

(* The list without one rule.                                              *)
LEMMA AllButOne ==
  ASSUME NEW s \in Seq(RoutingNodes), Distinct(s), NEW p \in 1 .. Len(s),
         NEW K, K = (1 .. Len(s)) \ {p}
  PROVE  At(s, K) = RemoveAt(s, p)
<1> DEFINE N == Len(s)
           t == At(s, K)
           v == RemoveAt(s, p)
<1>1. N \in Nat /\ K \in SUBSET (1 .. Len(s)) /\ s \in Seq(RoutingNodes)
  BY Elements
<1>2. /\ t \in Seq(RoutingNodes)
      /\ \A o \in K : \E k \in 1 .. Len(t) : t[k] = s[o]
      /\ \A k \in 1 .. Len(t) : \E o \in K : t[k] = s[o]
      /\ \A k, l \in 1 .. Len(t) :
            k < l => \E i, j \in K : i < j /\ t[k] = s[i] /\ t[l] = s[j]
  BY ONLY <1>1, FilterKeepsTheOrder DEF t
<1>3. /\ v \in Seq(RoutingNodes) /\ Len(v) = N - 1
      /\ \A k \in 1 .. Len(v) : v[k] = IF k < p THEN s[k] ELSE s[k + 1]
  BY Removal
<1> HIDE DEF t, v
<1> DEFINE h == [o \in K |-> IF o < p THEN o ELSE o - 1]
<1>4. \A o \in K : h[o] \in 1 .. Len(v) /\ v[h[o]] = s[o]
  BY <1>1, <1>3
<1>5. \A i, j \in K : i < j => h[i] < h[j]
  BY <1>1
<1> HIDE DEF h
<1>6. ASSUME NEW k \in 1 .. Len(v)
      PROVE  \E o \in K : v[k] = s[o]
  <2> DEFINE o == IF k < p THEN k ELSE k + 1
  <2>1. o \in K /\ v[k] = s[o]
    BY <1>1, <1>3
  <2>2. QED  BY <2>1
<1>7. \A i, j \in 1 .. Len(v) : i # j => v[i] # v[j]
  <2> SUFFICES ASSUME NEW i \in 1 .. Len(v), NEW j \in 1 .. Len(v), i # j
               PROVE  v[i] # v[j]
    OBVIOUS
  <2> DEFINE a == IF i < p THEN i ELSE i + 1
             b == IF j < p THEN j ELSE j + 1
  <2>1. a \in 1 .. N /\ b \in 1 .. N /\ a # b /\ v[i] = s[a] /\ v[j] = s[b]
    BY <1>1, <1>3
  <2> HIDE DEF a, b
  <2>2. QED  BY <2>1 DEF Distinct
<1>8. \A o \in 1 .. Len(v) : \E k \in 1 .. Len(t) : t[k] = v[o]
  <2> SUFFICES ASSUME NEW o \in 1 .. Len(v)
               PROVE  \E k \in 1 .. Len(t) : t[k] = v[o]
    OBVIOUS
  <2>1. PICK x \in K : v[o] = s[x]
    BY <1>6
  <2>2. PICK k \in 1 .. Len(t) : t[k] = s[x]
    BY <1>2
  <2>3. QED  BY <2>1, <2>2
<1>9. \A k \in 1 .. Len(t) : \E o \in 1 .. Len(v) : t[k] = v[o]
  <2> SUFFICES ASSUME NEW k \in 1 .. Len(t)
               PROVE  \E o \in 1 .. Len(v) : t[k] = v[o]
    OBVIOUS
  <2>1. PICK x \in K : t[k] = s[x]
    BY <1>2
  <2>2. QED  BY <1>4, <2>1
<1>10. \A k, l \in 1 .. Len(t) :
          k < l => \E i, j \in 1 .. Len(v) : i < j /\ t[k] = v[i] /\ t[l] = v[j]
  <2> SUFFICES ASSUME NEW k \in 1 .. Len(t), NEW l \in 1 .. Len(t), k < l
               PROVE  \E i, j \in 1 .. Len(v) : i < j /\ t[k] = v[i] /\ t[l] = v[j]
    OBVIOUS
  <2>1. PICK i \in K, j \in K : i < j /\ t[k] = s[i] /\ t[l] = s[j]
    BY <1>2
  <2>2. /\ h[i] \in 1 .. Len(v) /\ h[j] \in 1 .. Len(v) /\ h[i] < h[j]
        /\ t[k] = v[h[i]] /\ t[l] = v[h[j]]
    BY <1>4, <1>5, <2>1
  <2>3. QED  BY <2>2
<1>11. t = v
  BY <1>2, <1>3, <1>7, <1>8, <1>9, <1>10, OrderKept
<1>12. QED  BY <1>11 DEF t, v

(* Stored priorities are places: the list is shown as it was stored.       *)
LEMMA Shown ==
  ASSUME NEW rs, WellFormed(rs), NEW M \in Seq(RoutingNodes), Distinct(M), SameIds(rs, M)
  PROVE  LET new == Renumbered(M, rs)
             A == rankWorkspaceRoutingRules(new)
         IN  /\ SortOf(A, new, Len(rs))
             /\ \A k \in 1 .. Len(rs) : A[k].id = M[k].id /\ A[k].priority = 10 * k
             /\ \A o \in 1 .. Len(rs) : new[o].priority # Unset
<1> DEFINE N == Len(rs)
           new == Renumbered(M, rs)
           A == rankWorkspaceRoutingRules(new)
           p(o) == Place(M, rs[o].id)
<1>1. /\ WellFormed(new) /\ Len(new) = N
      /\ \A o \in 1 .. N : /\ Same(new[o], rs[o]) /\ p(o) \in 1 .. N
                           /\ M[p(o)].id = rs[o].id /\ new[o].priority = 10 * p(o)
  BY Stored
<1> HIDE DEF new, p
<1>2. N \in Nat /\ rs \in Seq(RoutingNodes) /\ new \in Seq(RoutingNodes) /\ Len(M) = N
  BY <1>1, LenProperties DEF WellFormed, SameIds
<1>3. \A o \in 1 .. N : new[o].priority # Unset
  BY <1>1, <1>2 DEF Unset
<1>4. WithPriority(new) = new
  BY <1>1, <1>2, <1>3, Numbered
<1>5. A = StableSort(new)
  BY <1>4 DEF rankWorkspaceRoutingRules
<1>6. SortOf(A, new, N)
  BY <1>1, <1>2, <1>5, Sorting
<1> HIDE DEF A
<1>7. A \in Seq(RoutingNodes) /\ Len(A) = N
  BY <1>6 DEF SortOf
<1>8. \A o \in 1 .. N : new[o].id = rs[o].id
  BY <1>1 DEF Same
<1>9. \A i, j \in 1 .. N : i # j => p(i) # p(j)
  <2> SUFFICES ASSUME NEW i \in 1 .. N, NEW j \in 1 .. N, i # j
               PROVE  p(i) # p(j)
    OBVIOUS
  <2>1. rs[i].id # rs[j].id
    BY <1>2, LenProperties DEF WellFormed
  <2>2. QED  BY <1>1, <2>1
<1> DEFINE f == [k \in 1 .. N |-> A[k].id]
           g == [k \in 1 .. N |-> M[k].id]
<1>10. /\ f \in Seq(Ids) /\ g \in Seq(Ids) /\ Len(f) = N /\ Len(g) = N
       /\ \A k \in 1 .. N : f[k] = A[k].id /\ g[k] = M[k].id
  <2>1. \A k \in 1 .. N : A[k] \in RoutingNodes /\ M[k] \in RoutingNodes
    BY <1>2, <1>7, ElementOfSeq
  <2>2. \A k \in 1 .. N : A[k].id \in Ids /\ M[k].id \in Ids
    BY <2>1 DEF RoutingNodes
  <2>3. QED  BY <1>2, <2>2
<1> HIDE DEF f, g
<1>11. \A i, j \in 1 .. N : i # j => g[i] # g[j]
  BY <1>2, <1>10 DEF Distinct
<1>12. \A o \in 1 .. N : \E k \in 1 .. N : f[k] = g[o]
  <2> SUFFICES ASSUME NEW o \in 1 .. N
               PROVE  \E k \in 1 .. N : f[k] = g[o]
    OBVIOUS
  <2>1. PICK j \in 1 .. N : M[o].id = rs[j].id
    BY DEF SameIds
  <2>2. PICK k \in 1 .. N : A[k] = new[j]
    BY <1>6 DEF SortOf
  <2>3. QED  BY <1>8, <1>10, <2>1, <2>2
<1>13. \A k \in 1 .. N : \E o \in 1 .. N : f[k] = g[o]
  <2> SUFFICES ASSUME NEW k \in 1 .. N
               PROVE  \E o \in 1 .. N : f[k] = g[o]
    OBVIOUS
  <2>1. PICK j \in 1 .. N : A[k] = new[j]
    BY <1>6 DEF SortOf
  <2>2. p(j) \in 1 .. N /\ M[p(j)].id = rs[j].id
    BY <1>1
  <2>3. g[p(j)] = M[p(j)].id /\ f[k] = rs[j].id
    BY <1>8, <1>10, <2>1, <2>2
  <2>4. QED  BY <2>2, <2>3
<1>14. \A k, l \in 1 .. N :
          k < l => \E i, j \in 1 .. N : i < j /\ f[k] = g[i] /\ f[l] = g[j]
  <2> SUFFICES ASSUME NEW k \in 1 .. N, NEW l \in 1 .. N, k < l
               PROVE  \E i, j \in 1 .. N : i < j /\ f[k] = g[i] /\ f[l] = g[j]
    OBVIOUS
  <2>1. PICK i \in 1 .. N, j \in 1 .. N : A[k] = new[i] /\ A[l] = new[j] /\ Before(new, i, j)
    BY <1>6 DEF SortOf
  <2>2. /\ p(i) \in 1 .. N /\ p(j) \in 1 .. N
        /\ new[i].priority = 10 * p(i) /\ new[j].priority = 10 * p(j)
    BY <1>1
  <2>3. i # j => p(i) # p(j)
    BY <1>9
  <2>4. p(i) < p(j)
    BY <1>2, <2>1, <2>2, <2>3 DEF Before
  <2>5. f[k] = g[p(i)] /\ f[l] = g[p(j)]
    <3>1. M[p(i)].id = rs[i].id /\ M[p(j)].id = rs[j].id
      BY <1>1
    <3>2. g[p(i)] = M[p(i)].id /\ g[p(j)] = M[p(j)].id
      BY <1>10, <2>2
    <3>3. f[k] = rs[i].id /\ f[l] = rs[j].id
      BY <1>8, <1>10, <2>1
    <3>4. QED  BY <3>1, <3>2, <3>3
  <2>6. QED  BY <2>2, <2>4, <2>5
<1>15. f = g
  <2>1. \A i, j \in 1 .. Len(g) : i # j => g[i] # g[j]
    BY <1>10, <1>11
  <2>2. /\ \A o \in 1 .. Len(g) : \E k \in 1 .. Len(f) : f[k] = g[o]
        /\ \A k \in 1 .. Len(f) : \E o \in 1 .. Len(g) : f[k] = g[o]
    BY <1>10, <1>12, <1>13
  <2>3. \A k, l \in 1 .. Len(f) :
           k < l => \E i, j \in 1 .. Len(g) : i < j /\ f[k] = g[i] /\ f[l] = g[j]
    BY <1>10, <1>14
  <2>4. QED  BY <1>10, <2>1, <2>2, <2>3, OrderKept
<1>16. ASSUME NEW k \in 1 .. N
       PROVE  A[k].id = M[k].id /\ A[k].priority = 10 * k
  <2>1. A[k].id = M[k].id
    BY <1>10, <1>15
  <2>2. PICK j \in 1 .. N : A[k] = new[j]
    BY <1>6 DEF SortOf
  <2>3. g[p(j)] = g[k] /\ p(j) \in 1 .. N
    <3>1. p(j) \in 1 .. N /\ M[p(j)].id = rs[j].id
      BY <1>1
    <3>2. g[p(j)] = M[p(j)].id /\ g[k] = M[k].id /\ A[k].id = rs[j].id
      BY <1>8, <1>10, <2>2, <3>1
    <3>3. QED  BY <2>1, <3>1, <3>2
  <2>4. p(j) = k
    BY <1>11, <2>3
  <2>5. QED  BY <1>1, <2>1, <2>2, <2>4
<1>17. QED  BY <1>3, <1>6, <1>16 DEF new, A


(* The enabled rules are matched in the order in which the list, sorted by *)
(* priorities that differ, shows them.                                     *)
LEMMA MatchedAsShown ==
  ASSUME NEW new, WellFormed(new), \A o \in 1 .. Len(new) : new[o].priority # Unset,
         NEW A, SortOf(A, new, Len(new)),
         \A k \in 1 .. Len(new) : A[k].priority = 10 * k
  PROVE  rankRoutingRules(new) = At(A, EnabledIn(A))
<1> DEFINE N == Len(new)
           E == EnabledIn(new)
           F == EnabledIn(A)
           B == At(new, E)
           C == At(A, F)
           T == rankRoutingRules(new)
<1>1. N \in Nat /\ new \in Seq(RoutingNodes) /\ DOMAIN new = 1 .. N /\ Distinct(new)
  BY LenProperties DEF WellFormed, Distinct
<1>2. /\ A \in Seq(RoutingNodes) /\ Len(A) = N /\ DOMAIN A = 1 .. N
  BY LenProperties DEF SortOf
<1>3. /\ \A o \in 1 .. N : \E k \in 1 .. N : A[k] = new[o]
      /\ \A k \in 1 .. N : \E o \in 1 .. N : A[k] = new[o]
  BY DEF SortOf
<1>4. /\ E \in SUBSET (1 .. Len(new)) /\ F \in SUBSET (1 .. Len(A))
      /\ \A o \in 1 .. N : o \in E <=> ~new[o].disabled
      /\ \A k \in 1 .. N : k \in F <=> ~A[k].disabled
  BY <1>1, <1>2 DEF EnabledIn
<1>5. T = StableSort(WithPriority(B))
  BY DEF rankRoutingRules
<1> HIDE DEF E, F
<1>6. /\ B \in Seq(RoutingNodes) /\ Len(B) \in Nat
      /\ \A o \in E : \E k \in 1 .. Len(B) : B[k] = new[o]
      /\ \A k \in 1 .. Len(B) : \E o \in E : B[k] = new[o]
  BY <1>1, <1>4, FilterKeepsTheOrder
<1>7. Distinct(B)
  BY <1>1, <1>4, FilteredOnce
<1>8. /\ C \in Seq(RoutingNodes) /\ Len(C) \in Nat
      /\ \A o \in F : \E k \in 1 .. Len(C) : C[k] = A[o]
      /\ \A k \in 1 .. Len(C) : \E o \in F : C[k] = A[o]
      /\ \A k, l \in 1 .. Len(C) :
            k < l => \E i, j \in F : i < j /\ C[k] = A[i] /\ C[l] = A[j]
  BY <1>2, <1>4, FilterKeepsTheOrder
<1> HIDE DEF B, C, T
<1>9. WithPriority(B) = B
  <2>1. ASSUME NEW k \in 1 .. Len(B)
        PROVE  B[k].priority # Unset
    <3>1. PICK o \in E : B[k] = new[o]
      BY <1>6
    <3>2. o \in 1 .. Len(new)
      BY <1>4
    <3>3. QED  BY <3>1, <3>2
  <2>2. QED  BY <1>6, <2>1, Numbered
<1>10. SortOf(T, B, Len(B))
  BY <1>5, <1>6, <1>9, Sorting
<1>11. T \in Seq(RoutingNodes) /\ Len(T) = Len(B)
  BY <1>10 DEF SortOf
<1>12. ASSUME NEW x \in 1 .. Len(C), NEW y \in 1 .. Len(C), x < y
       PROVE  C[x].priority < C[y].priority
  <2>1. PICK i \in F, j \in F : i < j /\ C[x] = A[i] /\ C[y] = A[j]
    BY <1>8, <1>12
  <2>2. i \in 1 .. N /\ j \in 1 .. N
    BY <1>2, <1>4
  <2>3. A[i].priority = 10 * i /\ A[j].priority = 10 * j
    BY <2>2
  <2>4. QED  BY <1>1, <2>1, <2>2, <2>3
<1>13. \A x \in 1 .. Len(C) : C[x].priority \in Nat
  BY <1>8, Elements, PrioritiesAreNumbers
<1>14. \A x, y \in 1 .. Len(C) : x # y => C[x] # C[y]
  <2>1. \A x, y \in 1 .. Len(C) : x # y => x < y \/ y < x
    BY <1>8
  <2>2. QED  BY <1>12, <1>13, <2>1
<1>15. \A o \in 1 .. Len(C) : \E k \in 1 .. Len(T) : T[k] = C[o]
  <2> SUFFICES ASSUME NEW o \in 1 .. Len(C)
               PROVE  \E k \in 1 .. Len(T) : T[k] = C[o]
    OBVIOUS
  <2>1. PICK a \in F : C[o] = A[a]
    BY <1>8
  <2>2. a \in 1 .. N /\ ~A[a].disabled
    BY <1>2, <1>4
  <2>3. PICK i \in 1 .. N : A[a] = new[i]
    BY <1>3, <2>2
  <2>4. i \in E
    BY <1>4, <2>2, <2>3
  <2>5. PICK b \in 1 .. Len(B) : B[b] = new[i]
    BY <1>6, <2>4
  <2>6. PICK k \in 1 .. Len(B) : T[k] = B[b]
    BY <1>10 DEF SortOf
  <2>7. QED  BY <1>11, <2>1, <2>3, <2>5, <2>6
<1>16. \A k \in 1 .. Len(T) : \E o \in 1 .. Len(C) : T[k] = C[o]
  <2> SUFFICES ASSUME NEW k \in 1 .. Len(T)
               PROVE  \E o \in 1 .. Len(C) : T[k] = C[o]
    OBVIOUS
  <2>1. PICK b \in 1 .. Len(B) : T[k] = B[b]
    BY <1>10, <1>11 DEF SortOf
  <2>2. PICK i \in E : B[b] = new[i]
    BY <1>6
  <2>3. i \in 1 .. N /\ ~new[i].disabled
    BY <1>4
  <2>4. PICK a \in 1 .. N : A[a] = new[i]
    BY <1>3, <2>3
  <2>5. a \in F
    BY <1>4, <2>3, <2>4
  <2>6. PICK o \in 1 .. Len(C) : C[o] = A[a]
    BY <1>8, <2>5
  <2>7. QED  BY <2>1, <2>2, <2>4, <2>6
<1>17. ASSUME NEW k \in 1 .. Len(T), NEW l \in 1 .. Len(T), k < l
       PROVE  \E i, j \in 1 .. Len(C) : i < j /\ T[k] = C[i] /\ T[l] = C[j]
  <2>1. PICK i \in 1 .. Len(B), j \in 1 .. Len(B) :
           T[k] = B[i] /\ T[l] = B[j] /\ Before(B, i, j)
    <3>1. k \in 1 .. Len(B) /\ l \in 1 .. Len(B)
      BY <1>11
    <3>2. QED  BY <1>10, <1>17, <3>1, ZenonT(30) DEF SortOf
  <2>2. PICK x \in 1 .. Len(C) : T[k] = C[x]
    BY <1>16
  <2>3. PICK y \in 1 .. Len(C) : T[l] = C[y]
    BY <1>16
  <2>4. C[x].priority \in Nat /\ C[y].priority \in Nat /\ x \in Nat /\ y \in Nat
    BY <1>8, <1>13
  <2>5. x # y
    <3>1. i # j
      <4>1. B[i].priority \in Nat /\ i \in Nat
        BY <1>6, <2>1, <2>2, <2>4
      <4>2. ~Before(B, i, i)
        BY <4>1 DEF Before
      <4>3. QED  BY <2>1, <4>2
    <3>2. B[i] # B[j]
      BY <1>7, <3>1 DEF Distinct
    <3>3. QED  BY <2>1, <2>2, <2>3, <3>2
  <2>6. ~(y < x)
    <3>1. C[x].priority <= C[y].priority
      BY <2>1, <2>2, <2>3, <2>4, SMTT(30) DEF Before
    <3>2. y < x => C[y].priority < C[x].priority
      BY <1>12
    <3>3. QED  BY <2>4, <3>1, <3>2
  <2>7. QED  BY <2>2, <2>3, <2>4, <2>5, <2>6
<1>18. T = C
  BY <1>8, <1>11, <1>14, <1>15, <1>16, <1>17, OrderKept
<1>19. QED  BY <1>18 DEF T, C, F

(* Every rule of a list but one.                                           *)
OthersIn(s, id) == {k \in DOMAIN s : s[k].id # id}

(* A shows W with the rule at `from' moved to `to'.                        *)
Rearranged(A, W, from, to) ==
    LET M == InsertAt(RemoveAt(W, from), to, W[from])
    IN  Len(A) = Len(W) /\ \A k \in 1 .. Len(W) : A[k].id = M[k].id

(* The other rules are in both lists in one order.                         *)
LEMMA OthersStay ==
  ASSUME NEW W \in Seq(RoutingNodes), Distinct(W), NEW A \in Seq(RoutingNodes), Distinct(A),
         NEW from \in 1 .. Len(W), NEW to \in 1 .. Len(W), Rearranged(A, W, from, to)
  PROVE  /\ A[to].id = W[from].id
         /\ IdsOf(At(A, OthersIn(A, W[from].id))) = IdsOf(At(W, OthersIn(W, W[from].id)))
<1> DEFINE N == Len(W)
           id == W[from].id
           M == InsertAt(RemoveAt(W, from), to, W[from])
           V == RemoveAt(W, from)
           X == RemoveAt(A, to)
           K == OthersIn(A, id)
           L == OthersIn(W, id)
<1>1. N \in Nat /\ DOMAIN A = 1 .. N /\ DOMAIN W = 1 .. N /\ Len(A) = N
  BY Elements, LenProperties DEF Rearranged
<1>2. /\ V \in Seq(RoutingNodes) /\ Len(V) = N - 1
      /\ \A k \in 1 .. N :
            M[k] = IF k < to THEN V[k] ELSE IF k = to THEN W[from] ELSE V[k - 1]
  <2> DEFINE Y == InsertAt(V, to, W[from])
  <2>1. /\ V \in Seq(RoutingNodes) /\ Len(V) = N - 1
        /\ \A k \in 1 .. N :
              Y[k] = IF k < to THEN V[k] ELSE IF k = to THEN W[from] ELSE V[k - 1]
    BY Moved
  <2>2. M = Y
    OBVIOUS
  <2> HIDE DEF V, Y
  <2>3. QED  BY <2>1, <2>2
<1>3. /\ X \in Seq(RoutingNodes) /\ Len(X) = N - 1
      /\ \A k \in 1 .. N - 1 : X[k] = IF k < to THEN A[k] ELSE A[k + 1]
  <2>1. /\ X \in Seq(RoutingNodes) /\ Len(X) = Len(A) - 1
        /\ \A k \in 1 .. Len(X) : X[k] = IF k < to THEN A[k] ELSE A[k + 1]
    BY <1>1, Removal
  <2> HIDE DEF X
  <2>2. QED  BY <1>1, <2>1
<1>4. \A k \in 1 .. N : A[k].id = M[k].id
  BY DEF Rearranged
<1> HIDE DEF M, id
<1>5. A[to].id = id
  BY <1>2, <1>4 DEF id
<1>6. K = (1 .. Len(A)) \ {to}
  <2>1. \A k \in 1 .. N : k # to => A[k].id # id
    BY <1>1, <1>5 DEF Distinct
  <2>2. QED  BY <1>1, <1>5, <2>1 DEF OthersIn
<1>7. L = (1 .. Len(W)) \ {from}
  <2>1. \A k \in 1 .. N : k # from => W[k].id # id
    BY DEF Distinct, id
  <2>2. QED  BY <1>1, <2>1 DEF OthersIn, id
<1> HIDE DEF K, L
<1>8. At(A, K) = X /\ At(W, L) = V
  <2>1. At(A, K) = X
    BY <1>1, <1>6, AllButOne
  <2>2. At(W, L) = V
    BY <1>7, AllButOne
  <2>3. QED  BY <2>1, <2>2
<1> HIDE DEF X, V
<1>9. DOMAIN X = 1 .. N - 1 /\ DOMAIN V = 1 .. N - 1
  BY <1>2, <1>3, LenProperties
<1>10. ASSUME NEW k \in 1 .. N - 1
       PROVE  X[k].id = V[k].id
  <2>1. CASE k < to
    <3>1. k \in 1 .. N /\ M[k] = V[k]
      BY <1>1, <1>2, <2>1
    <3>2. X[k] = A[k]
      BY <1>3, <2>1
    <3>3. QED  BY <1>4, <3>1, <3>2
  <2>2. CASE ~(k < to)
    <3>1. k + 1 \in 1 .. N /\ ~(k + 1 < to) /\ k + 1 # to /\ (k + 1) - 1 = k
      BY <1>1, <2>2
    <3>2. M[k + 1] = V[k]
      BY <1>2, <3>1
    <3>3. X[k] = A[k + 1]
      BY <1>3, <2>2
    <3>4. QED  BY <1>4, <3>1, <3>2, <3>3
  <2>3. QED  BY <2>1, <2>2
<1>11. IdsOf(X) = IdsOf(V)
  BY <1>9, <1>10 DEF IdsOf
<1>12. QED  BY <1>5, <1>8, <1>11 DEF K, L, id


LEMMA MovedIsShown ==
  ASSUME NEW rs, WellFormed(rs), NEW i \in DOMAIN rs, NEW to \in DOMAIN rs
  PROVE  LET id == rs[i].id
             new == moveRoutingRuleToIndex(rs, id, to)
             before == rankWorkspaceRoutingRules(rs)
             after == rankWorkspaceRoutingRules(new)
         IN  /\ Place(after, id) = to
             /\ IdsOf(At(after, OthersIn(after, id))) = IdsOf(At(before, OthersIn(before, id)))
             /\ IdsOf(rankRoutingRules(new)) = IdsOf(At(after, EnabledIn(after)))
<1> DEFINE N == Len(rs)
           id == rs[i].id
           new == moveRoutingRuleToIndex(rs, id, to)
           W == rankWorkspaceRoutingRules(rs)
           A == rankWorkspaceRoutingRules(new)
           from == Place(W, id)
           M == InsertAt(RemoveAt(W, from), to, W[from])
<1>1. /\ from \in 1 .. Len(W) /\ W[from].id = id /\ to \in 1 .. Len(W)
      /\ M \in Seq(RoutingNodes) /\ Distinct(M) /\ SameIds(rs, M)
      /\ new = Renumbered(M, rs) /\ WellFormed(new) /\ Len(new) = N
  BY Moving
<1>2. W \in Seq(RoutingNodes) /\ Distinct(W) /\ Len(W) = N
  BY Listed DEF SameIds
<1> HIDE DEF id, W, new, from
<1>3. /\ SortOf(A, new, N)
      /\ \A k \in 1 .. N : A[k].id = M[k].id /\ A[k].priority = 10 * k
      /\ \A o \in 1 .. N : new[o].priority # Unset
  <2> HIDE DEF M, A
  <2> DEFINE r == Renumbered(M, rs)
             B == rankWorkspaceRoutingRules(r)
  <2>1. /\ SortOf(B, r, N)
        /\ \A k \in 1 .. N : B[k].id = M[k].id /\ B[k].priority = 10 * k
        /\ \A o \in 1 .. N : r[o].priority # Unset
    BY <1>1, Shown
  <2>2. new = r /\ A = B
    BY <1>1 DEF A
  <2> HIDE DEF r, B
  <2>3. QED  BY <2>1, <2>2
<1> HIDE DEF A
<1>4. A \in Seq(RoutingNodes) /\ Len(A) = N /\ DOMAIN A = 1 .. N
  BY <1>3, LenProperties DEF SortOf
<1>5. Distinct(A)
  BY <1>1, <1>3, <1>4 DEF Distinct, SameIds
<1>6. /\ A[to].id = id
      /\ IdsOf(At(A, OthersIn(A, id))) = IdsOf(At(W, OthersIn(W, id)))
  <2>1. Rearranged(A, W, from, to)
    BY <1>2, <1>3, <1>4 DEF Rearranged
  <2> HIDE DEF M
  <2>2. /\ A[to].id = W[from].id
        /\ IdsOf(At(A, OthersIn(A, W[from].id))) = IdsOf(At(W, OthersIn(W, W[from].id)))
    BY <1>1, <1>2, <1>4, <1>5, <2>1, OthersStay
  <2>3. QED  BY <1>1, <2>2
<1>7. Place(A, id) = to
  BY <1>1, <1>2, <1>4, <1>5, <1>6, Placing
<1>8. rankRoutingRules(new) = At(A, EnabledIn(A))
  BY <1>1, <1>3, MatchedAsShown
<1>9. QED  BY <1>6, <1>7, <1>8 DEF id, W, A, new

(* A move puts the rule where the user dropped it, moves no other rule, and*)
(* from then on the rules are matched in the order that is shown, whichever*)
(* were disabled or had no priority (routeProductModel.ts 85-111).         *)
THEOREM MovesAreSeen == Spec => MoveIsSeen
<1>1. ASSUME TypeOK,
             NEW i \in DOMAIN rules, NEW to \in DOMAIN rules, Move(i, to)
      PROVE  LET id == rules[i].id
                 Others(s) == {k \in DOMAIN s : s[k].id # id}
                 before == rankWorkspaceRoutingRules(rules)
                 after == rankWorkspaceRoutingRules(rules')
             IN  /\ Place(after, id) = to
                 /\ IdsOf(At(after, Others(after))) = IdsOf(At(before, Others(before)))
                 /\ IdsOf(rankRoutingRules(rules')) = IdsOf(At(after, EnabledIn(after)))
  <2>1. rules' = moveRoutingRuleToIndex(rules, rules[i].id, to)
    BY <1>1 DEF Move, SetRules
  <2>2. WellFormed(rules)
    BY <1>1 DEF TypeOK
  <2> DEFINE id == rules[i].id
             new == moveRoutingRuleToIndex(rules, id, to)
             W == rankWorkspaceRoutingRules(rules)
             A == rankWorkspaceRoutingRules(new)
  <2>3. /\ Place(A, id) = to
        /\ IdsOf(At(A, OthersIn(A, id))) = IdsOf(At(W, OthersIn(W, id)))
        /\ IdsOf(rankRoutingRules(new)) = IdsOf(At(A, EnabledIn(A)))
    BY <2>2, MovedIsShown, Zenon
  <2>4. rules' = new
    BY <2>1
  <2> HIDE DEF new
  <2>5. QED  BY <2>3, <2>4 DEF OthersIn
<1>2. TypeOK /\ [Next]_vars =>
         [\A i, to \in DOMAIN rules : Move(i, to) =>
             LET id == rules[i].id
                 Others(s) == {k \in DOMAIN s : s[k].id # id}
                 before == rankWorkspaceRoutingRules(rules)
                 after == rankWorkspaceRoutingRules(rules')
             IN  /\ Place(after, id) = to
                 /\ IdsOf(At(after, Others(after))) = IdsOf(At(before, Others(before)))
                 /\ IdsOf(rankRoutingRules(rules')) = IdsOf(At(after, EnabledIn(after)))]_vars
  BY <1>1
<1>3. QED  BY <1>2, TypeCorrect, PTL DEF Spec, MoveIsSeen

=============================================================================
