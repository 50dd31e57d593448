------------------------ MODULE ProjectWorkspaceProofs ------------------------
(***************************************************************************)
(* Proofs about ProjectWorkspace, for every number of tabs, projects and   *)
(* edits.                                                                  *)
(***************************************************************************)
EXTENDS ProjectWorkspace, SequenceTheorems, WellFoundedInduction, TLAPS

-----------------------------------------------------------------------------
(* Sequences of ids.                                                       *)

\* A set of natural numbers that is not empty has a least element.
LEMMA LeastNatural ==
  ASSUME NEW T \in SUBSET Nat, T # {}
  PROVE  \E n \in T : \A m \in T : n <= m
<1> DEFINE R == OpToRel(<, Nat)
<1>1. IsWellFoundedOn(R, Nat)
  BY NatLessThanWellFounded
<1>2. \A x, y \in Nat : x < y => <<x, y>> \in R
  BY DEF OpToRel
<1> HIDE DEF R
<1>3. PICK n \in T : \A m \in T : ~(<<m, n>> \in R)
  BY <1>1, WFMin
<1>4. \A m \in T : ~(m < n)
  BY <1>2, <1>3
<1>5. QED  BY <1>4

\* Induction up to n: a set that holds 0 and every successor holds 0 .. n.
LEMMA InductionUpTo ==
  ASSUME NEW n \in Nat, NEW S, 0 \in S, \A m \in 0 .. n - 1 : m \in S => m + 1 \in S
  PROVE  \A m \in 0 .. n : m \in S
<1> DEFINE T == {m \in 0 .. n : m \notin S}
<1>1. SUFFICES ASSUME T # {} PROVE FALSE
  OBVIOUS
<1>2. T \in SUBSET Nat
  OBVIOUS
<1>3. PICK m \in T : \A k \in T : m <= k
  <2> HIDE DEF T
  <2>1. QED  BY <1>1, <1>2, LeastNatural
<1>4. m \in 1 .. n /\ m \notin S
  OBVIOUS
<1>5. m - 1 \in 0 .. n - 1 /\ m - 1 \notin T
  <2>1. m - 1 \in 0 .. n - 1
    BY <1>4
  <2> HIDE DEF T
  <2>2. QED  BY <1>2, <1>3, <2>1
<1>6. QED  BY <1>4, <1>5

\* The length and the elements of a sequence.
LEMMA Elements ==
  ASSUME NEW S, NEW s \in Seq(S)
  PROVE  Len(s) \in Nat /\ \A i \in 1 .. Len(s) : s[i] \in S
BY LenProperties, ElementOfSeq

\* The recursion of Without(), up to position m.
Filters(f, s, x, m) ==
    f = [n \in 0 .. m |-> IF n = 0 THEN <<>>
                          ELSE IF s[n] = x THEN f[n - 1]
                          ELSE Append(f[n - 1], s[n])]

LEMMA FilterExists ==
  ASSUME NEW n \in Nat, NEW s, NEW x
  PROVE  \E f : Filters(f, s, x, n)
<1> DEFINE S == {m \in 0 .. n : \E f : Filters(f, s, x, m)}
<1>1. 0 \in S
  <2>1. Filters([k \in 0 .. 0 |-> <<>>], s, x, 0)
    BY DEF Filters
  <2>2. QED  BY <2>1
<1>2. ASSUME NEW m \in 0 .. n - 1, m \in S
      PROVE  m + 1 \in S
  <2>1. PICK f : Filters(f, s, x, m)
    BY <1>2
  <2> DEFINE e == IF s[m + 1] = x THEN f[m] ELSE Append(f[m], s[m + 1])
             g == [k \in 0 .. m + 1 |-> IF k = m + 1 THEN e ELSE f[k]]
  <2>2. \A k \in 0 .. m : f[k] = IF k = 0 THEN <<>> ELSE IF s[k] = x THEN f[k - 1]
                                 ELSE Append(f[k - 1], s[k])
    BY <2>1 DEF Filters
  <2>3. \A k \in 0 .. m : g[k] = f[k]
    OBVIOUS
  <2>4. \A k \in 0 .. m + 1 : k # 0 => k - 1 \in 0 .. m
    OBVIOUS
  <2>5. g[m + 1] = e /\ m \in 0 .. m
    OBVIOUS
  <2> HIDE DEF g
  <2>6. \A k \in 0 .. m + 1 : g[k] = IF k = 0 THEN <<>> ELSE IF s[k] = x THEN g[k - 1]
                                     ELSE Append(g[k - 1], s[k])
    <3> SUFFICES ASSUME NEW k \in 0 .. m + 1
                 PROVE  g[k] = IF k = 0 THEN <<>> ELSE IF s[k] = x THEN g[k - 1]
                               ELSE Append(g[k - 1], s[k])
      OBVIOUS
    <3>1. CASE k = m + 1
      <4>1. k # 0 /\ k - 1 = m
        BY <3>1
      <4>2. g[k - 1] = f[m]
        BY <2>3, <2>5, <4>1
      <4>3. QED  BY <2>5, <3>1, <4>1, <4>2
    <3>2. CASE k # m + 1
      <4>1. k \in 0 .. m
        BY <3>2
      <4>2. k # 0 => g[k - 1] = f[k - 1]
        BY <2>3, <2>4
      <4>3. QED  BY <2>2, <2>3, <4>1, <4>2
    <3>3. QED  BY <3>1, <3>2
  <2>7. g = [k \in 0 .. m + 1 |-> g[k]]
    BY DEF g
  <2>8. Filters(g, s, x, m + 1)
    BY <2>6, <2>7 DEF Filters
  <2>9. QED  BY <2>8
<1>3. \A m \in 0 .. n : m \in S
  <2> HIDE DEF S
  <2>1. QED  BY <1>1, <1>2, InductionUpTo
<1>4. QED  BY <1>3

\* No element of s occurs twice.
NoneTwice(s) == \A j, k \in 1 .. Len(s) : s[j] = s[k] => j = k

\* What is left of a sequence without x: the other elements, none more often.
LEMMA WithoutOne ==
  ASSUME NEW S, NEW s \in Seq(S), NEW x
  PROVE  /\ Without(s, x) \in Seq(S)
         /\ \A y : Contains(Without(s, x), y) <=> Contains(s, y) /\ y # x
         /\ NoneTwice(s) => NoneTwice(Without(s, x))
<1> DEFINE N == Len(s)
           f == CHOOSE g : Filters(g, s, x, N)
<1>1. N \in Nat /\ \A i \in 1 .. N : s[i] \in S
  BY Elements
<1>2. Filters(f, s, x, N)
  BY <1>1, FilterExists
<1>3. Without(s, x) = f[N]
  BY DEF Without, Filters
<1> HIDE DEF f
<1>4. \A n \in 0 .. N : f[n] = IF n = 0 THEN <<>> ELSE IF s[n] = x THEN f[n - 1]
                               ELSE Append(f[n - 1], s[n])
  BY <1>2 DEF Filters
<1> DEFINE P(n) == /\ f[n] \in Seq(S)
                   /\ \A y : Contains(f[n], y) <=> y # x /\ \E i \in 1 .. n : s[i] = y
                   /\ NoneTwice(s) => NoneTwice(f[n])
           Q == {n \in 0 .. N : P(n)}
<1>5. 0 \in Q
  <2>1. f[0] = <<>> /\ 0 \in 0 .. N
    BY <1>1, <1>4
  <2>2. f[0] \in Seq(S) /\ Len(f[0]) = 0
    BY <2>1, EmptySeq
  <2>3. \A y : ~Contains(f[0], y)
    BY <2>2 DEF Contains
  <2>4. NoneTwice(f[0])
    BY <2>2 DEF NoneTwice
  <2>5. P(0)
    BY <2>2, <2>3, <2>4
  <2>6. QED  BY <2>1, <2>5
<1>6. ASSUME NEW n \in 0 .. N - 1, n \in Q
      PROVE  n + 1 \in Q
  <2> DEFINE t == f[n]
             e == s[n + 1]
  <2>1. /\ n + 1 \in 1 .. N /\ n + 1 \in 0 .. N
        /\ f[n + 1] = IF e = x THEN t ELSE Append(t, e)
    <3>1. n + 1 \in 1 .. N /\ n + 1 \in 0 .. N /\ n + 1 # 0 /\ (n + 1) - 1 = n
      BY <1>1
    <3>2. QED  BY <1>4, <3>1
  <2>2. t \in Seq(S) /\ e \in S
    BY <1>1, <1>6, <2>1
  <2>3. \A y : (\E i \in 1 .. n + 1 : s[i] = y) <=> (\E i \in 1 .. n : s[i] = y) \/ y = e
    BY <1>1
  <2>4. \A y : Contains(t, y) <=> y # x /\ \E i \in 1 .. n : s[i] = y
    BY <1>6
  <2>5. NoneTwice(s) => NoneTwice(t)
    BY <1>6
  <2> HIDE DEF t, e
  <2>6. CASE e = x
    <3>1. f[n + 1] = t
      BY <2>1, <2>6
    <3>2. \A y : Contains(t, y) <=> y # x /\ \E i \in 1 .. n + 1 : s[i] = y
      BY <2>3, <2>4, <2>6
    <3>3. P(n + 1)
      BY <2>2, <2>5, <3>1, <3>2
    <3>4. QED  BY <2>1, <3>3
  <2>7. CASE e # x
    <3> DEFINE u == Append(t, e)
    <3>1. f[n + 1] = u
      BY <2>1, <2>7
    <3>2. /\ u \in Seq(S) /\ Len(u) = Len(t) + 1 /\ u[Len(t) + 1] = e
          /\ \A i \in 1 .. Len(t) : u[i] = t[i]
          /\ Len(t) \in Nat
      BY <2>2, AppendProperties, Elements
    <3> HIDE DEF u
    <3>3. \A y : Contains(u, y) <=> Contains(t, y) \/ y = e
      BY <3>2 DEF Contains
    <3>4. \A y : Contains(u, y) <=> y # x /\ \E i \in 1 .. n + 1 : s[i] = y
      BY <2>3, <2>4, <2>7, <3>3
    <3>5. ASSUME NoneTwice(s) PROVE NoneTwice(u)
      <4>1. ~Contains(t, e)
        <5>1. \A i \in 1 .. n : s[i] # e
          <6> SUFFICES ASSUME NEW i \in 1 .. n, s[i] = e PROVE FALSE
            OBVIOUS
          <6>1. i \in 1 .. N /\ i # n + 1
            BY <1>1
          <6>2. QED  BY <2>1, <3>5, <6>1 DEF NoneTwice, e
        <5>2. QED  BY <2>4, <5>1
      <4>2. \A i \in 1 .. Len(t) : t[i] # e
        BY <4>1 DEF Contains
      <4>3. NoneTwice(t)
        BY <2>5, <3>5
      <4>4. QED  BY <3>2, <4>2, <4>3 DEF NoneTwice
    <3>6. P(n + 1)
      BY <3>1, <3>2, <3>4, <3>5
    <3>7. QED  BY <2>1, <3>6
  <2>8. QED  BY <2>6, <2>7
<1>7. N \in Q
  <2> HIDE DEF Q
  <2>1. \A n \in 0 .. N : n \in Q
    BY <1>1, <1>5, <1>6, InductionUpTo
  <2>2. QED  BY <1>1, <2>1
<1>8. QED  BY <1>3, <1>7 DEF Contains

-----------------------------------------------------------------------------
(* The disk.                                                               *)

Slot == [project : Projects, content : Content]

Disks == [index : StoredIndex \cup {None, Corrupt}, legacy : Slot \cup {None},
          items : [Projects -> Items]]

\* Project p is still in the slot of an older release.
Pending(d, p) == d.index = None /\ d.legacy # None /\ d.legacy.project = p

SoundIndex(i) == NoneTwice(i.ids) /\ (i.active # None => Contains(i.ids, i.active))

\* A well-formed disk: while the slot is moved, its item holds nothing else.
Good(d) ==
    /\ d \in Disks
    /\ SoundIndex(IndexOf(d))
    /\ d.index = None /\ d.legacy # None => d.items[d.legacy.project] \in {None, d.legacy.content}

\* The migration is done or there is none to do, and the index can be read.
Settled(d) == d.index # Corrupt /\ (d.index = None => d.legacy = None)

\* What the writes from d to e leave as it was for project q.
Untouched(d, e, q) ==
    /\ Pending(e, q) => Pending(d, q)
    /\ Findable(d, q) => Findable(e, q)
    /\ Stored(e, q) <=> Stored(d, q)
    /\ e.items[q] = d.items[q] \/ (Pending(d, q) /\ d.items[q] = None)

LEMMA Constants ==
  /\ None # Corrupt /\ None \notin Projects /\ None \notin Content /\ Corrupt \notin Content
  /\ None \notin StoredIndex /\ Corrupt \notin StoredIndex
  /\ Demo \in Projects /\ MaxEdits \in Nat
BY NoneAssumption, CorruptAssumption, IndexAssumption, DemoAssumption, EditsAssumption

LEMMA Fields ==
  ASSUME NEW d \in Disks
  PROVE  /\ d.index \in StoredIndex \cup {None, Corrupt}
         /\ d.legacy # None => d.legacy.project \in Projects /\ d.legacy.content \in Content
         /\ d.legacy \in Slot \cup {None}
         /\ d.items \in [Projects -> Items]
         /\ IndexOf(d) \in StoredIndex
         /\ IndexOf(d).ids \in Seq(Projects) /\ IndexOf(d).active \in Projects \cup {None}
<1>1. EmptyIndex \in StoredIndex
  BY EmptySeq DEF EmptyIndex, StoredIndex
<1>2. IndexOf(d) \in StoredIndex
  BY <1>1 DEF IndexOf, Disks
<1>3. QED  BY <1>2 DEF Disks, Slot, StoredIndex

LEMMA ItemWritten ==
  ASSUME NEW d \in Disks, NEW p \in Projects, NEW c \in Items
  PROVE  /\ WithItem(d, p, c) \in Disks
         /\ WithItem(d, p, c).index = d.index /\ WithItem(d, p, c).legacy = d.legacy
         /\ IndexOf(WithItem(d, p, c)) = IndexOf(d)
         /\ \A q \in Projects : WithItem(d, p, c).items[q] = IF q = p THEN c ELSE d.items[q]
BY DEF WithItem, Disks, IndexOf

LEMMA IndexWritten ==
  ASSUME NEW d \in Disks, NEW i \in StoredIndex
  PROVE  /\ WithIndex(d, i) \in Disks
         /\ WithIndex(d, i).index = i /\ WithIndex(d, i).legacy = d.legacy
         /\ WithIndex(d, i).items = d.items
         /\ IndexOf(WithIndex(d, i)) = i
         /\ i # None /\ i # Corrupt
BY Constants DEF WithIndex, Disks, IndexOf

LEMMA UntouchedTransitive ==
  ASSUME NEW d, NEW e, NEW f, NEW q, Untouched(d, e, q), Untouched(e, f, q)
  PROVE  Untouched(d, f, q)
BY DEF Untouched

LEMMA UntouchedReflexive == \A d, q : Untouched(d, d, q)
BY DEF Untouched

\* The index of one project.
LEMMA SingleIndex ==
  ASSUME NEW p \in Projects
  PROVE  LET i == [ids |-> <<p>>, active |-> p]
         IN  i \in StoredIndex /\ SoundIndex(i) /\ Contains(i.ids, p)
<1>1. <<p>> \in Seq(Projects) /\ Len(<<p>>) = 1 /\ <<p>>[1] = p
  OBVIOUS
<1>2. NoneTwice(<<p>>) /\ Contains(<<p>>, p)
  BY <1>1 DEF NoneTwice, Contains
<1>3. QED  BY <1>1, <1>2 DEF StoredIndex, SoundIndex

\* readIndex(): the writes of the migration, up to where it ends.
LEMMA ReadOutcomes ==
  ASSUME NEW d, NEW o \in ReadIndex(d)
  PROVE  \/ d.index = Corrupt /\ o = Thrown(d)
         \/ Settled(d) /\ o = Ok(d)
         \/ /\ d.index = None /\ d.legacy # None
            /\ LET p == d.legacy.project
                   d1 == WithItem(d, p, d.legacy.content)
                   d2 == WithIndex(d1, [ids |-> <<p>>, active |-> p])
                   d3 == [d2 EXCEPT !.legacy = None]
               IN  /\ o.disk \in {d, d1, d2, d3}
                   /\ o.end = "ok" => o.disk = d3
<1>1. CASE d.index = Corrupt
  BY <1>1 DEF ReadIndex
<1>2. CASE d.index # Corrupt /\ (d.index # None \/ d.legacy = None)
  BY <1>2 DEF ReadIndex, Settled
<1>3. CASE d.index # Corrupt /\ d.index = None /\ d.legacy # None
  BY <1>3 DEF ReadIndex, Then, Put, Ok, Thrown, Dead
<1>4. QED  BY <1>1, <1>2, <1>3

LEMMA ReadKeeps ==
  ASSUME NEW d, Good(d), NEW o \in ReadIndex(d)
  PROVE  /\ Good(o.disk)
         /\ \A q \in Projects : Untouched(d, o.disk, q)
         /\ o.end = "ok" => Settled(o.disk)
         /\ o.disk.index = Corrupt <=> d.index = Corrupt
         /\ Settled(d) => o = Ok(d)
<1>1. CASE d.index = Corrupt /\ o = Thrown(d)
  BY <1>1, UntouchedReflexive DEF Thrown, Settled
<1>2. CASE Settled(d) /\ o = Ok(d)
  BY <1>2, UntouchedReflexive DEF Ok
<1>3. CASE d.index = None /\ d.legacy # None
  <2> DEFINE p == d.legacy.project
             c == d.legacy.content
             i == [ids |-> <<p>>, active |-> p]
             d1 == WithItem(d, p, c)
             d2 == WithIndex(d1, i)
             d3 == [d2 EXCEPT !.legacy = None]
  <2>1. o.disk \in {d, d1, d2, d3} /\ (o.end = "ok" => o.disk = d3)
    BY <1>3, ReadOutcomes, Constants DEF Settled
  <2>2. /\ d \in Disks /\ p \in Projects /\ c \in Content /\ c \in Items
        /\ d.items[p] \in {None, c}
    BY <1>3, Fields DEF Good, Items
  <2>3. i \in StoredIndex /\ SoundIndex(i) /\ Contains(i.ids, p)
    BY <2>2, SingleIndex
  <2> HIDE DEF i
  <2>4. /\ d1 \in Disks /\ d1.index = None /\ d1.legacy = d.legacy
        /\ IndexOf(d1) = IndexOf(d)
        /\ \A q \in Projects : d1.items[q] = IF q = p THEN c ELSE d.items[q]
    BY <1>3, <2>2, ItemWritten
  <2> HIDE DEF d1
  <2>5. /\ d2 \in Disks /\ d2.index = i /\ d2.legacy = d.legacy /\ d2.items = d1.items
        /\ IndexOf(d2) = i /\ i # None /\ i # Corrupt
    BY <2>3, <2>4, IndexWritten
  <2> HIDE DEF d2
  <2>6. /\ d3 \in Disks /\ d3.index = i /\ d3.items = d1.items
        /\ IndexOf(d3) = i
    BY <2>5 DEF Disks, IndexOf
  <2> HIDE DEF d3
  <2>7. Good(d1) /\ Good(d2) /\ Good(d3)
    BY <2>2, <2>3, <2>4, <2>5, <2>6 DEF Good
  <2>8. ASSUME NEW q \in Projects
        PROVE  Untouched(d, d1, q) /\ Untouched(d, d2, q) /\ Untouched(d, d3, q)
    <3>1. /\ d1.items[q] = IF q = p THEN c ELSE d.items[q]
          /\ d2.items[q] = d1.items[q] /\ d3.items[q] = d1.items[q]
          /\ c # None /\ (q = p => d.items[q] \in {None, c})
      BY <2>2, <2>4, <2>5, <2>6, Constants
    <3>2. Pending(d, q) <=> q = p
      BY <1>3 DEF Pending
    <3>3. ~Findable(d, q) \/ q = p
      <4>1. IndexOf(d).ids = <<>>
        BY <1>3 DEF IndexOf, EmptyIndex
      <4>2. QED  BY <4>1 DEF Findable, Contains
    <3>4. Untouched(d, d1, q)
      BY <1>3, <2>4, <3>1, <3>2, <3>3 DEF Untouched, Pending, Findable, Stored
    <3>5. Untouched(d, d2, q)
      BY <1>3, <2>3, <2>5, <3>1, <3>2, <3>3 DEF Untouched, Pending, Findable, Stored
    <3>6. Untouched(d, d3, q)
      BY <1>3, <2>3, <2>5, <2>6, <3>1, <3>2, <3>3 DEF Untouched, Pending, Findable, Stored
    <3>7. QED  BY <3>4, <3>5, <3>6
  <2>9. Settled(d3) /\ ~Settled(d)
    BY <1>3, <2>5, <2>6, Constants DEF Settled
  <2>10. d1.index # Corrupt /\ d2.index # Corrupt /\ d3.index # Corrupt /\ d.index # Corrupt
    BY <1>3, <2>4, <2>5, <2>6, Constants
  <2>11. QED  BY <2>1, <2>7, <2>8, <2>9, <2>10, UntouchedReflexive
<1>4. QED  BY <1>1, <1>2, <1>3, ReadOutcomes

\* The index that save() writes.
InFront(i, p, activate) ==
    [ids |-> <<p>> \o Without(i.ids, p),
     active |-> IF ~activate /\ i.active # None THEN i.active ELSE p]

\* How far save() came when it wrote to this disk.
SavedUpTo(e, p, c, activate, o) ==
    LET d1 == WithItem(e, p, c)
        d2 == WithIndex(d1, InFront(IndexOf(d1), p, activate))
    IN  /\ o.disk \in {e, d1, d2}
        /\ o.end = "ok" => o.disk = d2

\* save(): it reads the index, then writes the item, then the index.
LEMMA SaveOutcomes ==
  ASSUME NEW d, NEW p, NEW c, NEW activate \in BOOLEAN, NEW o \in Save(d, p, c, activate)
  PROVE  \E r \in ReadIndex(d) : IF r.end = "ok" THEN SavedUpTo(r.disk, p, c, activate, o)
                                 ELSE o = r
<1> DEFINE WriteItem(e) == Put(e, WithItem(e, p, c))
           Next2(e) == WithIndex(e, InFront(IndexOf(e), p, activate))
           WriteIndex(e) == Put(e, Next2(e))
<1>1. o \in Then(Then(ReadIndex(d), WriteItem), WriteIndex)
  BY DEF Save, InFront
<1>2. \E m \in Then(ReadIndex(d), WriteItem) :
         o \in IF m.end = "ok" THEN WriteIndex(m.disk) ELSE {m}
  BY <1>1 DEF Then
<1>3. PICK r, m :
        /\ r \in ReadIndex(d)
        /\ m \in IF r.end = "ok" THEN Put(r.disk, WithItem(r.disk, p, c)) ELSE {r}
        /\ o \in IF m.end = "ok" THEN Put(m.disk, Next2(m.disk)) ELSE {m}
  BY <1>2 DEF Then
<1> HIDE DEF Next2
<1>4. CASE r.end # "ok"
  BY <1>3, <1>4
<1>5. CASE r.end = "ok"
  <2>1. m \in Put(r.disk, WithItem(r.disk, p, c))
    BY <1>3, <1>5
  <2> DEFINE d1 == WithItem(r.disk, p, c)
  <2>2. m = Ok(d1) \/ (m.disk = r.disk /\ m.end # "ok")
    BY <2>1 DEF Put, Ok, Thrown, Dead
  <2>3. CASE m = Ok(d1)
    <3>1. o \in Put(d1, Next2(d1))
      BY <1>3, <2>3 DEF Ok
    <3>2. o.disk \in {d1, Next2(d1)} /\ (o.end = "ok" => o.disk = Next2(d1))
      BY <3>1 DEF Put, Ok, Thrown, Dead
    <3>3. QED  BY <1>3, <1>5, <3>2 DEF SavedUpTo, Next2
  <2>4. CASE m.disk = r.disk /\ m.end # "ok"
    <3>1. o.disk = r.disk /\ o.end # "ok"
      BY <1>3, <2>4
    <3>2. QED  BY <1>3, <1>5, <3>1 DEF SavedUpTo
  <2>5. QED  BY <2>2, <2>3, <2>4
<1>6. QED  BY <1>4, <1>5

\* The index with p in front of the others.
LEMMA IndexInFront ==
  ASSUME NEW i \in StoredIndex, SoundIndex(i), NEW p \in Projects,
         NEW active \in {i.active, p}, active # None
  PROVE  LET j == [ids |-> <<p>> \o Without(i.ids, p), active |-> active]
         IN  /\ j \in StoredIndex /\ SoundIndex(j)
             /\ \A q : Contains(j.ids, q) <=> q = p \/ Contains(i.ids, q)
<1> DEFINE w == Without(i.ids, p)
           s == <<p>> \o w
<1>1. i.ids \in Seq(Projects) /\ i.active \in Projects \cup {None}
  BY DEF StoredIndex
<1>2. /\ w \in Seq(Projects)
      /\ \A y : Contains(w, y) <=> Contains(i.ids, y) /\ y # p
      /\ NoneTwice(i.ids) => NoneTwice(w)
  BY <1>1, WithoutOne
<1> HIDE DEF w
<1>3. /\ s \in Seq(Projects) /\ Len(s) = Len(w) + 1 /\ Len(w) \in Nat
      /\ s[1] = p /\ \A k \in 1 .. Len(w) : s[k + 1] = w[k]
  <2>1. <<p>> \in Seq(Projects) /\ Len(<<p>>) = 1 /\ <<p>>[1] = p
    OBVIOUS
  <2>2. QED  BY <1>2, <2>1, ConcatProperties, Elements
<1> HIDE DEF s
<1>4. \A k \in 1 .. Len(s) : k = 1 \/ (k - 1 \in 1 .. Len(w) /\ s[k] = w[k - 1])
  <2> SUFFICES ASSUME NEW k \in 1 .. Len(s), k # 1
               PROVE  k - 1 \in 1 .. Len(w) /\ s[k] = w[k - 1]
    OBVIOUS
  <2>1. k - 1 \in 1 .. Len(w) /\ (k - 1) + 1 = k
    BY <1>3
  <2>2. QED  BY <1>3, <2>1
<1>5. \A q : Contains(s, q) <=> q = p \/ Contains(w, q)
  <2>1. \A k \in 1 .. Len(w) : k + 1 \in 1 .. Len(s)
    BY <1>3
  <2>2. 1 \in 1 .. Len(s)
    BY <1>3
  <2>3. ASSUME NEW q, Contains(s, q)
        PROVE  q = p \/ Contains(w, q)
    <3>1. PICK k \in 1 .. Len(s) : s[k] = q
      BY <2>3 DEF Contains
    <3>2. CASE k = 1
      BY <1>3, <3>1, <3>2
    <3>3. CASE k # 1
      <4>1. k - 1 \in 1 .. Len(w) /\ w[k - 1] = q
        BY <1>4, <3>1, <3>3
      <4>2. QED  BY <4>1 DEF Contains
    <3>4. QED  BY <3>2, <3>3
  <2>4. ASSUME NEW q, Contains(w, q)
        PROVE  Contains(s, q)
    <3>1. PICK k \in 1 .. Len(w) : w[k] = q
      BY <2>4 DEF Contains
    <3>2. s[k + 1] = q /\ k + 1 \in 1 .. Len(s)
      BY <1>3, <2>1, <3>1
    <3>3. QED  BY <3>2 DEF Contains
  <2>5. Contains(s, p)
    BY <1>3, <2>2 DEF Contains
  <2>6. QED  BY <2>3, <2>4, <2>5
<1>6. NoneTwice(s)
  <2>1. \A k \in 1 .. Len(w) : w[k] # p
    BY <1>2 DEF Contains
  <2>2. NoneTwice(w)
    BY <1>2 DEF SoundIndex
  <2> SUFFICES ASSUME NEW j \in 1 .. Len(s), NEW k \in 1 .. Len(s), s[j] = s[k]
               PROVE  j = k
    BY DEF NoneTwice
  <2>3. CASE j = 1 \/ k = 1
    BY <1>3, <1>4, <2>1, <2>3
  <2>4. CASE j # 1 /\ k # 1
    <3>1. j - 1 = k - 1
      BY <1>4, <2>2, <2>4 DEF NoneTwice
    <3>2. QED  BY <3>1
  <2>5. QED  BY <2>3, <2>4
<1>7. Contains(s, active)
  BY <1>2, <1>5 DEF SoundIndex
<1>8. active \in Projects
  BY <1>1
<1>9. QED  BY <1>2, <1>3, <1>5, <1>6, <1>7, <1>8 DEF StoredIndex, SoundIndex, s, w

\* save(): what the other projects find of theirs, and what is found of this
\* one, however far it came.
LEMMA SaveKeeps ==
  ASSUME NEW d, Good(d), NEW p \in Projects, NEW c \in Content, NEW activate \in BOOLEAN,
         NEW o \in Save(d, p, c, activate)
  PROVE  /\ Good(o.disk)
         /\ \A q \in Projects \ {p} : Untouched(d, o.disk, q)
         /\ Findable(d, p) => Findable(o.disk, p)
         /\ Pending(o.disk, p) => Pending(d, p)
         /\ Untouched(d, o.disk, p) \/ o.disk.items[p] = c
         /\ o.disk.index = Corrupt <=> d.index = Corrupt
         /\ o.end = "ok" => /\ o.disk.items[p] = c
                            /\ Findable(o.disk, p)
                            /\ Settled(o.disk)
<1>1. PICK r \in ReadIndex(d) : IF r.end = "ok" THEN SavedUpTo(r.disk, p, c, activate, o)
                                ELSE o = r
  BY SaveOutcomes
<1>2. /\ Good(r.disk) /\ \A q \in Projects : Untouched(d, r.disk, q)
      /\ r.end = "ok" => Settled(r.disk)
      /\ r.disk.index = Corrupt <=> d.index = Corrupt
  BY ReadKeeps
<1>3. CASE r.end # "ok" /\ o = r
  BY <1>2, <1>3 DEF Untouched
<1>4. CASE r.end = "ok"
  <2> DEFINE e == r.disk
             d1 == WithItem(e, p, c)
             i == IndexOf(e)
             active == IF ~activate /\ i.active # None THEN i.active ELSE p
             j == InFront(i, p, activate)
             d2 == WithIndex(d1, j)
  <2>1. e \in Disks /\ SoundIndex(i) /\ Settled(e) /\ i \in StoredIndex /\ c \in Items
    BY <1>2, <1>4, Fields DEF Good, Items
  <2>2. /\ d1 \in Disks /\ d1.index = e.index /\ d1.legacy = e.legacy /\ IndexOf(d1) = i
        /\ \A q \in Projects : d1.items[q] = IF q = p THEN c ELSE e.items[q]
    BY <2>1, ItemWritten
  <2>3. o.disk \in {e, d1, d2} /\ (o.end = "ok" => o.disk = d2)
    <3>1. IndexOf(d1) = i
      BY <2>2
    <3>2. QED  BY <1>1, <1>4, <3>1 DEF SavedUpTo
  <2>4. /\ j \in StoredIndex /\ SoundIndex(j)
        /\ \A q : Contains(j.ids, q) <=> q = p \/ Contains(i.ids, q)
    <3>1. active \in {i.active, p} /\ active # None
      BY <2>1, Constants
    <3>2. j = [ids |-> <<p>> \o Without(i.ids, p), active |-> active]
      BY DEF InFront
    <3> HIDE DEF active, j
    <3>3. QED  BY <2>1, <3>1, <3>2, IndexInFront
  <2> HIDE DEF d1, j
  <2>5. /\ d2 \in Disks /\ d2.index = j /\ d2.legacy = e.legacy /\ d2.items = d1.items
        /\ IndexOf(d2) = j /\ j # None /\ j # Corrupt
    BY <2>2, <2>4, IndexWritten
  <2> HIDE DEF d2, e, i
  <2>6. e.index # Corrupt /\ (e.index = None => e.legacy = None)
    BY <2>1 DEF Settled
  <2>7. Good(e) /\ Good(d1) /\ Good(d2)
    BY <1>2, <2>1, <2>2, <2>4, <2>5, <2>6 DEF Good, e
  <2>8. ASSUME NEW q \in Projects \ {p}
        PROVE  Untouched(e, d1, q) /\ Untouched(e, d2, q)
    <3>1. d1.items[q] = e.items[q] /\ d2.items[q] = e.items[q]
      BY <2>2, <2>5
    <3>2. Contains(i.ids, q) => Contains(j.ids, q)
      BY <2>4
    <3>3. i = IndexOf(e)
      BY DEF i, e
    <3>4. Untouched(e, d1, q)
      BY <2>2, <2>6, <3>1, <3>3 DEF Untouched, Pending, Findable, Stored
    <3>5. Untouched(e, d2, q)
      BY <2>2, <2>5, <2>6, <3>1, <3>2, <3>3 DEF Untouched, Pending, Findable, Stored
    <3>6. QED  BY <3>4, <3>5
  <2>9. /\ ~Pending(e, p) /\ ~Pending(d1, p) /\ ~Pending(d2, p)
        /\ d1.items[p] = c /\ d2.items[p] = c /\ c # None
    BY <2>2, <2>5, <2>6, Constants DEF Pending
  <2>10. Findable(d2, p) /\ (Findable(e, p) => Findable(d1, p))
    <3>1. i = IndexOf(e)
      BY DEF i, e
    <3>2. QED  BY <2>2, <2>4, <2>5, <2>6, <2>9, <3>1 DEF Findable
  <2>11. Settled(d2) /\ e.index # Corrupt /\ d1.index # Corrupt /\ d2.index # Corrupt
    BY <2>2, <2>5, <2>6 DEF Settled
  <2>12. \A q \in Projects : Untouched(d, e, q)
    BY <1>2 DEF e
  <2>13. /\ \A q \in Projects \ {p} : Untouched(d, o.disk, q)
    BY <2>3, <2>8, <2>12, UntouchedTransitive
  <2>14. Findable(d, p) => Findable(e, p)
    BY <2>12 DEF Untouched
  <2>15. o.disk.index = Corrupt <=> d.index = Corrupt
    BY <1>2, <2>3, <2>11 DEF e
  <2>16. CASE o.disk = e
    <3>1. o.disk # d2 \/ o.disk = d2
      OBVIOUS
    <3>2. QED  BY <2>3, <2>7, <2>9, <2>10, <2>11, <2>12, <2>13, <2>14, <2>15, <2>16
  <2>17. CASE o.disk = d1
    BY <2>3, <2>7, <2>9, <2>10, <2>11, <2>13, <2>14, <2>15, <2>17
  <2>18. CASE o.disk = d2
    BY <2>3, <2>7, <2>9, <2>10, <2>11, <2>13, <2>14, <2>15, <2>18
  <2>19. QED  BY <2>3, <2>16, <2>17, <2>18
<1>5. QED  BY <1>1, <1>3, <1>4

\* load() of a project that is there: it is listed, and no longer pending.
LEMMA LoadedIsStored ==
  ASSUME NEW d \in Disks, NEW p, Loaded(d, p) # None
  PROVE  /\ p \in Projects /\ Contains(IndexOf(d).ids, p)
         /\ Loaded(d, p) = d.items[p] /\ Loaded(d, p) \in Items
         /\ d.index # None /\ d.index # Corrupt
         /\ Stored(d, p) /\ ~Pending(d, p)
<1>1. Contains(IndexOf(d).ids, p) /\ Loaded(d, p) = d.items[p]
  BY DEF Loaded
<1>2. p \in Projects
  BY <1>1, Fields, Elements DEF Contains
<1>3. d.items[p] \in Items
  BY <1>2, Fields
<1>4. d.index # None /\ d.index # Corrupt
  <2>1. CASE d.index \in {None, Corrupt}
    <3>1. IndexOf(d).ids = <<>>
      BY <2>1 DEF IndexOf, EmptyIndex
    <3>2. QED  BY <1>1, <3>1 DEF Contains
  <2>2. QED  BY <2>1
<1>5. QED  BY <1>1, <1>2, <1>3, <1>4 DEF Stored, Pending

\* The index that clear() writes.
Dropped(i, p) ==
    LET others == Without(i.ids, p)
        next == IF others = <<>> THEN None ELSE Head(others)
    IN  [ids |-> others, active |-> IF i.active = p THEN next ELSE i.active]

LEMMA IndexWithout ==
  ASSUME NEW i \in StoredIndex, SoundIndex(i), NEW p \in Projects
  PROVE  /\ Dropped(i, p) \in StoredIndex /\ SoundIndex(Dropped(i, p))
         /\ \A q : Contains(Dropped(i, p).ids, q) <=> Contains(i.ids, q) /\ q # p
<1> DEFINE w == Without(i.ids, p)
           next == IF w = <<>> THEN None ELSE Head(w)
           active == IF i.active = p THEN next ELSE i.active
<1>1. i.ids \in Seq(Projects) /\ i.active \in Projects \cup {None}
  BY DEF StoredIndex
<1>2. /\ w \in Seq(Projects)
      /\ \A y : Contains(w, y) <=> Contains(i.ids, y) /\ y # p
      /\ NoneTwice(i.ids) => NoneTwice(w)
  BY <1>1, WithoutOne
<1>3. Dropped(i, p) = [ids |-> w, active |-> active]
  BY DEF Dropped
<1> HIDE DEF w
<1>4. next # None => next \in Projects /\ Contains(w, next)
  <2> SUFFICES ASSUME w # <<>> PROVE Head(w) \in Projects /\ Contains(w, Head(w))
    OBVIOUS
  <2>1. Head(w) = w[1] /\ Len(w) \in Nat /\ Len(w) # 0
    BY <1>2
  <2>2. 1 \in 1 .. Len(w)
    BY <2>1
  <2>3. QED  BY <1>2, <2>1, <2>2, Elements DEF Contains
<1> HIDE DEF next
<1>5. active \in Projects \cup {None} /\ (active # None => Contains(w, active))
  BY <1>1, <1>2, <1>4 DEF SoundIndex
<1>6. QED  BY <1>2, <1>3, <1>5 DEF StoredIndex, SoundIndex

\* How far clear() came when it wrote to this disk.
ClearedUpTo(e, p, o) ==
    LET d1 == WithItem(e, p, None)
        d2 == WithIndex(d1, Dropped(IndexOf(d1), p))
    IN  IF Contains(IndexOf(e).ids, p)
        THEN o.disk \in {e, d1, d2} /\ (o.end = "ok" => o.disk = d2)
        ELSE o.disk = e

\* clear(): it reads the index, then removes the item, then writes the index.
LEMMA ClearOutcomes ==
  ASSUME NEW d, NEW p, NEW o \in Clear(d, p)
  PROVE  \E r \in ReadIndex(d) : IF r.end = "ok" THEN ClearedUpTo(r.disk, p, o) ELSE o = r
<1> DEFINE Drop(e) == {Ok(WithItem(e, p, None)), Dead(e)}
           Next2(e) == WithIndex(e, Dropped(IndexOf(e), p))
           WriteIndex(e) == Put(e, Next2(e))
           Listed(e) == IF Contains(IndexOf(e).ids, p)
                        THEN Then(Drop(e), WriteIndex)
                        ELSE {Ok(e)}
<1>1. o \in Then(ReadIndex(d), Listed)
  BY DEF Clear, Dropped
<1>2. \E r \in ReadIndex(d) : o \in IF r.end = "ok" THEN Listed(r.disk) ELSE {r}
  BY <1>1 DEF Then
<1>3. \E r \in ReadIndex(d) :
         IF r.end = "ok"
         THEN IF Contains(IndexOf(r.disk).ids, p)
              THEN \E m \in Drop(r.disk) :
                      o \in IF m.end = "ok" THEN WriteIndex(m.disk) ELSE {m}
              ELSE o = Ok(r.disk)
         ELSE o = r
  BY <1>2 DEF Then
<1>4. PICK r \in ReadIndex(d) :
         IF r.end = "ok"
         THEN IF Contains(IndexOf(r.disk).ids, p)
              THEN \E m \in {Ok(WithItem(r.disk, p, None)), Dead(r.disk)} :
                      o \in IF m.end = "ok" THEN Put(m.disk, Next2(m.disk)) ELSE {m}
              ELSE o = Ok(r.disk)
         ELSE o = r
  BY <1>3
<1> HIDE DEF Next2
<1>5. CASE r.end # "ok"
  BY <1>4, <1>5
<1>6. CASE r.end = "ok" /\ ~Contains(IndexOf(r.disk).ids, p)
  BY <1>4, <1>6 DEF ClearedUpTo, Ok
<1>7. CASE r.end = "ok" /\ Contains(IndexOf(r.disk).ids, p)
  <2> DEFINE d1 == WithItem(r.disk, p, None)
  <2>1. o \in Put(d1, Next2(d1)) \/ o = Dead(r.disk)
    BY <1>4, <1>7 DEF Ok, Dead
  <2>2. o.disk \in {r.disk, d1, Next2(d1)} /\ (o.end = "ok" => o.disk = Next2(d1))
    BY <2>1 DEF Put, Ok, Thrown, Dead
  <2>3. QED  BY <1>7, <2>2 DEF ClearedUpTo, Next2
<1>8. QED  BY <1>5, <1>6, <1>7

\* clear(): the others keep what they have, and the project itself is either
\* untouched or gone from the disk.
LEMMA ClearKeeps ==
  ASSUME NEW d, Good(d), NEW p \in Projects, NEW o \in Clear(d, p)
  PROVE  /\ Good(o.disk)
         /\ \A q \in Projects \ {p} : Untouched(d, o.disk, q)
         /\ Untouched(d, o.disk, p) \/ (Stored(d, p) => ~Stored(o.disk, p))
         /\ Stored(o.disk, p) => Stored(d, p)
         /\ Pending(o.disk, p) => Pending(d, p)
         /\ Untouched(d, o.disk, p) \/ o.disk.items[p] = None
         /\ o.disk.index = Corrupt <=> d.index = Corrupt
         /\ d.index # Corrupt => (o.end = "ok" => Settled(o.disk))
<1>1. PICK r \in ReadIndex(d) : IF r.end = "ok" THEN ClearedUpTo(r.disk, p, o) ELSE o = r
  BY ClearOutcomes
<1>2. /\ Good(r.disk) /\ \A q \in Projects : Untouched(d, r.disk, q)
      /\ r.end = "ok" => Settled(r.disk)
      /\ r.disk.index = Corrupt <=> d.index = Corrupt
  BY ReadKeeps
<1>3. CASE r.end # "ok" /\ o = r
  BY <1>2, <1>3 DEF Untouched
<1>4. CASE r.end = "ok" /\ ~Contains(IndexOf(r.disk).ids, p)
  <2>1. o.disk = r.disk
    BY <1>1, <1>4 DEF ClearedUpTo
  <2>2. QED  BY <1>2, <1>4, <2>1 DEF Untouched
<1>5. CASE r.end = "ok" /\ Contains(IndexOf(r.disk).ids, p)
  <2> DEFINE e == r.disk
             d1 == WithItem(e, p, None)
             i == IndexOf(e)
             j == Dropped(i, p)
             d2 == WithIndex(d1, j)
  <2>1. e \in Disks /\ SoundIndex(i) /\ Settled(e) /\ i \in StoredIndex /\ None \in Items
    BY <1>2, <1>5, Fields DEF Good, Items
  <2>2. /\ d1 \in Disks /\ d1.index = e.index /\ d1.legacy = e.legacy /\ IndexOf(d1) = i
        /\ \A q \in Projects : d1.items[q] = IF q = p THEN None ELSE e.items[q]
    BY <2>1, ItemWritten
  <2>3. o.disk \in {e, d1, d2} /\ (o.end = "ok" => o.disk = d2)
    <3>1. IndexOf(d1) = i
      BY <2>2
    <3>2. QED  BY <1>1, <1>5, <3>1 DEF ClearedUpTo
  <2>4. /\ j \in StoredIndex /\ SoundIndex(j)
        /\ \A q : Contains(j.ids, q) <=> Contains(i.ids, q) /\ q # p
    BY <2>1, IndexWithout
  <2>5. e.index # None /\ e.index # Corrupt
    <3>1. CASE e.index \in {None, Corrupt}
      <4>1. IndexOf(e).ids = <<>>
        BY <3>1 DEF IndexOf, EmptyIndex
      <4>2. QED  BY <1>5, <4>1 DEF Contains
    <3>2. QED  BY <3>1
  <2> HIDE DEF d1, j
  <2>6. /\ d2 \in Disks /\ d2.index = j /\ d2.legacy = e.legacy /\ d2.items = d1.items
        /\ IndexOf(d2) = j /\ j # None /\ j # Corrupt
    BY <2>2, <2>4, IndexWritten
  <2> HIDE DEF d2, e, i
  <2>7. Good(e) /\ Good(d1) /\ Good(d2)
    BY <1>2, <2>1, <2>2, <2>4, <2>5, <2>6 DEF Good, e
  <2>8. ASSUME NEW q \in Projects \ {p}
        PROVE  Untouched(e, d1, q) /\ Untouched(e, d2, q)
    <3>1. d1.items[q] = e.items[q] /\ d2.items[q] = e.items[q]
      BY <2>2, <2>6
    <3>2. Contains(i.ids, q) => Contains(j.ids, q)
      BY <2>4
    <3>3. i = IndexOf(e)
      BY DEF i, e
    <3>4. Untouched(e, d1, q)
      BY <2>2, <2>5, <3>1, <3>3 DEF Untouched, Pending, Findable, Stored
    <3>5. Untouched(e, d2, q)
      BY <2>2, <2>5, <2>6, <3>1, <3>2, <3>3 DEF Untouched, Pending, Findable, Stored
    <3>6. QED  BY <3>4, <3>5
  <2>9. \A q \in Projects : Untouched(d, e, q)
    BY <1>2 DEF e
  <2>10. \A q \in Projects \ {p} : Untouched(d, o.disk, q)
    BY <2>3, <2>8, <2>9, UntouchedTransitive
  <2>11. o.disk.index # Corrupt /\ o.disk.index # None /\ d.index # Corrupt /\ Settled(o.disk)
    BY <1>2, <2>2, <2>3, <2>5, <2>6 DEF e, Settled
  <2>12. CASE o.disk = e
    BY <2>7, <2>9, <2>10, <2>11, <2>12 DEF Untouched
  <2>13. CASE o.disk \in {d1, d2}
    <3>1. o.disk.items[p] = None
      BY <2>2, <2>6, <2>13
    <3>2. ~Stored(o.disk, p) /\ ~Pending(o.disk, p)
      BY <2>11, <3>1 DEF Stored, Pending
    <3>3. QED  BY <2>7, <2>10, <2>11, <2>13, <3>1, <3>2
  <2>14. QED  BY <2>3, <2>12, <2>13
<1>6. QED  BY <1>1, <1>3, <1>4, <1>5

\* activate(): no project is touched, and after a completed save no item.
LEMMA ActivateKeeps ==
  ASSUME NEW d, Good(d), NEW p \in Projects, NEW o \in Activate(d, p)
  PROVE  /\ Good(o.disk)
         /\ \A q \in Projects : Untouched(d, o.disk, q)
         /\ Settled(d) => o.disk.items = d.items
         /\ o.disk.index = Corrupt <=> d.index = Corrupt
<1> DEFINE i(e) == [IndexOf(e) EXCEPT !.active = p]
           Switched(e) ==
            IF Loaded(e, p) = None THEN {Ok(e)}
            ELSE IF Loaded(e, p) = Corrupt THEN {Thrown(e)}
            ELSE Put(e, WithIndex(e, i(e)))
<1>1. \E r \in ReadIndex(d) : o \in IF r.end = "ok" THEN Switched(r.disk) ELSE {r}
  BY DEF Activate, Then
<1>2. PICK r \in ReadIndex(d) : o \in IF r.end = "ok" THEN Switched(r.disk) ELSE {r}
  BY <1>1
<1>3. /\ Good(r.disk) /\ \A q \in Projects : Untouched(d, r.disk, q)
      /\ r.disk.index = Corrupt <=> d.index = Corrupt
      /\ Settled(d) => r.disk = d
  BY ReadKeeps DEF Ok
<1>4. \/ o.disk = r.disk
      \/ Loaded(r.disk, p) # None /\ o.disk = WithIndex(r.disk, i(r.disk))
  BY <1>2 DEF Put, Ok, Thrown, Dead
<1>5. CASE o.disk = r.disk
  BY <1>3, <1>5
<1>6. CASE Loaded(r.disk, p) # None /\ o.disk = WithIndex(r.disk, i(r.disk))
  <2> DEFINE e == r.disk
             j == i(e)
             d2 == WithIndex(e, j)
  <2>1. e \in Disks /\ SoundIndex(IndexOf(e)) /\ IndexOf(e) \in StoredIndex
    BY <1>3, Fields DEF Good
  <2>2. Contains(IndexOf(e).ids, p) /\ e.index # None /\ e.index # Corrupt
    BY <1>6, <2>1, LoadedIsStored
  <2>3. j \in StoredIndex /\ j.ids = IndexOf(e).ids /\ j.active = p
    BY <2>1 DEF StoredIndex
  <2>4. SoundIndex(j)
    BY <2>1, <2>2, <2>3 DEF SoundIndex
  <2> HIDE DEF j
  <2>5. /\ d2 \in Disks /\ d2.index = j /\ d2.legacy = e.legacy /\ d2.items = e.items
        /\ IndexOf(d2) = j /\ j # None /\ j # Corrupt
    BY <2>1, <2>3, IndexWritten
  <2>6. o.disk = d2
    BY <1>6 DEF j
  <2> HIDE DEF d2, e
  <2>7. Good(d2)
    BY <1>3, <2>2, <2>4, <2>5 DEF Good, e
  <2>8. \A q \in Projects : Untouched(e, d2, q)
    BY <2>2, <2>3, <2>5 DEF Untouched, Pending, Findable, Stored
  <2>9. \A q \in Projects : Untouched(d, d2, q)
    BY <1>3, <2>8, UntouchedTransitive DEF e
  <2>10. /\ d2.index = Corrupt <=> d.index = Corrupt
         /\ Settled(d) => d2.items = d.items
    BY <1>3, <2>2, <2>5 DEF e
  <2>11. QED  BY <2>6, <2>7, <2>9, <2>10
<1>7. QED  BY <1>4, <1>5, <1>6

-----------------------------------------------------------------------------
(* The inductive invariant.                                                *)

\* What holds of a tab that shows a project: it is handed out; a deleted one
\* is no longer saved; and, unless it is the demo, which may stand in for
\* another, nothing in its place on the disk is out of its reach.
TabOK(tab, d, unused, deleted) ==
    tab.open =>
        /\ tab.content.schema = "current"
        /\ tab.project \notin unused
        /\ tab.project \in deleted => tab.paused
        /\ tab.project # Demo => /\ ~Pending(d, tab.project)
                                 /\ ~Unreadable(d.items[tab.project])

Absent(d, ids) == \A p \in ids : ~Stored(d, p)

IInv ==
    /\ TypeOK
    /\ Good(disk)
    /\ SavedIsFindable
    /\ Absent(disk, fresh) /\ Absent(disk, gone)
    /\ fresh \cap gone = {} /\ Demo \notin fresh \cup gone
    /\ \A t \in Tabs : TabOK(app[t], disk, fresh, gone)

-----------------------------------------------------------------------------
(* What a step makes of the disk.                                          *)

Readable(i) == i \in Content /\ i.schema # "unknown"

\* Some reading and saving, of no project but those in W.
Saves(d, e, W) ==
    /\ Good(e)
    /\ e.index = Corrupt <=> d.index = Corrupt
    /\ \A q \in Projects :
          /\ Untouched(d, e, q) \/ (q \in W /\ Readable(e.items[q]))
          /\ Findable(d, q) => Findable(e, q)
          /\ Pending(e, q) => Pending(d, q)

\* What every step does: no project but those in W is stored anew or replaced
\* by a readable one, and none becomes unreadable.
Evolved(d, e, W) ==
    /\ Good(e)
    /\ e.index = Corrupt <=> d.index = Corrupt
    /\ \A q \in Projects :
          /\ Pending(e, q) => Pending(d, q)
          /\ Unreadable(e.items[q]) => Unreadable(d.items[q]) \/ Pending(d, q)
          /\ q \notin W =>
               /\ Stored(e, q) => Stored(d, q)
               /\ Unreadable(d.items[q]) => e.items[q] = None \/ Unreadable(e.items[q])

LEMMA ReadableItem ==
  \A i : Readable(i) => ~Unreadable(i) /\ i # None /\ i # Corrupt
BY Constants DEF Readable, Unreadable

LEMMA SavesNothing ==
  ASSUME NEW d, Good(d)
  PROVE  Saves(d, d, {})
BY UntouchedReflexive DEF Saves

LEMMA SavesTransitive ==
  ASSUME NEW d, NEW e, NEW f, NEW V, NEW W, Saves(d, e, V), Saves(e, f, W)
  PROVE  Saves(d, f, V \cup W)
<1>1. SUFFICES ASSUME NEW q \in Projects, ~Untouched(d, f, q)
               PROVE  q \in V \cup W /\ Readable(f.items[q])
  BY DEF Saves
<1>2. CASE q \in W /\ Readable(f.items[q])
  BY <1>2
<1>3. CASE Untouched(e, f, q)
  <2>1. q \in V /\ Readable(e.items[q])
    BY <1>1, <1>3, UntouchedTransitive DEF Saves
  <2>2. f.items[q] = e.items[q]
    BY <1>3, <2>1, ReadableItem DEF Untouched
  <2>3. QED  BY <2>1, <2>2
<1>4. QED  BY <1>2, <1>3 DEF Saves

LEMMA SavesMore ==
  ASSUME NEW d, NEW e, NEW V, NEW W, V \subseteq W, Saves(d, e, V)
  PROVE  Saves(d, e, W)
BY DEF Saves

LEMMA SavesEvolves ==
  ASSUME NEW d, NEW e, NEW W, Saves(d, e, W)
  PROVE  Evolved(d, e, W)
<1>1. ASSUME NEW q \in Projects
      PROVE  /\ Unreadable(e.items[q]) => Unreadable(d.items[q]) \/ Pending(d, q)
             /\ q \notin W => /\ Stored(e, q) => Stored(d, q)
                              /\ Unreadable(d.items[q]) =>
                                    e.items[q] = None \/ Unreadable(e.items[q])
  <2>1. CASE Untouched(d, e, q)
    <3>1. ~Unreadable(None)
      BY Constants DEF Unreadable
    <3>2. QED  BY <2>1, <3>1 DEF Untouched
  <2>2. CASE q \in W /\ Readable(e.items[q])
    BY <2>2, ReadableItem
  <2>3. QED  BY <2>1, <2>2 DEF Saves
<1>2. QED  BY <1>1 DEF Saves, Evolved

LEMMA ReadSaves ==
  ASSUME NEW d, Good(d), NEW o \in ReadIndex(d)
  PROVE  Saves(d, o.disk, {})
BY ReadKeeps DEF Saves, Untouched

LEMMA ActivateSaves ==
  ASSUME NEW d, Good(d), NEW p \in Projects, NEW o \in Activate(d, p)
  PROVE  Saves(d, o.disk, {})
BY ActivateKeeps DEF Saves, Untouched

LEMMA SaveSaves ==
  ASSUME NEW d, Good(d), NEW p \in Projects, NEW c \in Content, c.schema # "unknown",
         NEW activate \in BOOLEAN, NEW o \in Save(d, p, c, activate)
  PROVE  Saves(d, o.disk, {p})
<1>1. /\ Good(o.disk)
      /\ \A q \in Projects \ {p} : Untouched(d, o.disk, q)
      /\ Findable(d, p) => Findable(o.disk, p)
      /\ Pending(o.disk, p) => Pending(d, p)
      /\ Untouched(d, o.disk, p) \/ o.disk.items[p] = c
      /\ o.disk.index = Corrupt <=> d.index = Corrupt
  BY SaveKeeps
<1>2. Readable(c)
  BY DEF Readable
<1>3. QED  BY <1>1, <1>2 DEF Saves, Untouched

LEMMA ClearEvolves ==
  ASSUME NEW d, Good(d), NEW p \in Projects, NEW o \in Clear(d, p)
  PROVE  /\ Evolved(d, o.disk, {})
         /\ \A q \in Projects \ {p} : Findable(d, q) => Findable(o.disk, q)
         /\ \/ Findable(d, p) => Findable(o.disk, p)
            \/ Stored(d, p) /\ ~Stored(o.disk, p)
<1>1. /\ Good(o.disk)
      /\ \A q \in Projects \ {p} : Untouched(d, o.disk, q)
      /\ Untouched(d, o.disk, p) \/ (Stored(d, p) => ~Stored(o.disk, p))
      /\ Stored(o.disk, p) => Stored(d, p)
      /\ Pending(o.disk, p) => Pending(d, p)
      /\ Untouched(d, o.disk, p) \/ o.disk.items[p] = None
      /\ o.disk.index = Corrupt <=> d.index = Corrupt
  BY ClearKeeps
<1>2. ~Unreadable(None)
  BY Constants DEF Unreadable
<1>3. \A q \in Projects : Pending(o.disk, q) => Pending(d, q)
  BY <1>1 DEF Untouched
<1>4. \A q \in Projects : Stored(o.disk, q) => Stored(d, q)
  BY <1>1 DEF Untouched
<1>5. \A q \in Projects :
        /\ Unreadable(o.disk.items[q]) => Unreadable(d.items[q]) \/ Pending(d, q)
        /\ Unreadable(d.items[q]) => o.disk.items[q] = None \/ Unreadable(o.disk.items[q])
  <2>1. \A q \in Projects : Untouched(d, o.disk, q) \/ o.disk.items[q] = None
    BY <1>1
  <2>2. QED  BY <1>2, <2>1 DEF Untouched
<1>6. Findable(d, p) => Stored(d, p)
  BY DEF Findable, Stored
<1>7. QED  BY <1>1, <1>3, <1>4, <1>5, <1>6 DEF Evolved, Untouched

-----------------------------------------------------------------------------
(* What a step makes of a tab.                                             *)

Tab == [open : BOOLEAN, project : Projects, content : Content, recovery : BOOLEAN,
        paused : BOOLEAN, timer : BOOLEAN, required : BOOLEAN]

LEMMA PristineContent == Pristine \in Content /\ Pristine.schema = "current"
BY Constants DEF Pristine, Content, Schemas

LEMMA ClosedTab ==
  /\ Closed \in Tab
  /\ \A d, F, G : TabOK(Closed, d, F, G)
BY PristineContent, Constants DEF Closed, Tab, TabOK

LEMMA ArmedTab ==
  ASSUME NEW tab \in Tab
  PROVE  /\ Armed(tab) \in Tab
         /\ Armed(tab).open = tab.open /\ Armed(tab).project = tab.project
         /\ Armed(tab).content = tab.content /\ Armed(tab).paused = tab.paused
         /\ \A d, F, G : TabOK(tab, d, F, G) => TabOK(Armed(tab), d, F, G)
<1>1. Armed(tab) \in Tab
  BY DEF Armed, Tab
<1>2. /\ Armed(tab).open = tab.open /\ Armed(tab).project = tab.project
      /\ Armed(tab).content = tab.content /\ Armed(tab).paused = tab.paused
  BY DEF Armed, Tab
<1>3. QED  BY <1>1, <1>2 DEF TabOK

\* A tab that shows the demo, or a project that is on the disk and readable.
LEMMA ShowingTab ==
  ASSUME NEW tab \in Tab, NEW p \in Projects, NEW c \in Content, NEW recovery \in BOOLEAN
  PROVE  LET x == Showing(tab, p, c, recovery)
         IN  /\ x \in Tab /\ x.open = tab.open /\ x.project = p /\ x.content = c
             /\ x.paused = tab.paused
BY DEF Showing, Tab

\* hydrate() of what load() returned.
LEMMA HydratedTab ==
  ASSUME NEW d, Good(d), NEW tab \in Tab, NEW p, NEW stored,
         stored \notin {None, Corrupt} => Loaded(d, p) = stored,
         NEW F \in SUBSET Projects, NEW G \in SUBSET Projects, Absent(d, F), Absent(d, G),
         Demo \notin F \cup G
  PROVE  /\ Hydrated(tab, p, stored) \in Tab
         /\ TabOK(Hydrated(tab, p, stored), d, F, G)
<1>1. CASE stored \in {None, Corrupt} \/ stored.schema = "unknown"
  <2>1. PICK recovery \in BOOLEAN :
            Hydrated(tab, p, stored) = Showing(tab, Demo, Pristine, recovery)
    BY <1>1, Constants DEF Hydrated
  <2> DEFINE x == Showing(tab, Demo, Pristine, recovery)
  <2>2. x \in Tab /\ x.project = Demo /\ x.content = Pristine
    BY PristineContent, Constants, ShowingTab
  <2> HIDE DEF x
  <2>3. QED  BY <2>1, <2>2, PristineContent DEF TabOK, x
<1>2. CASE stored \notin {None, Corrupt} /\ stored.schema # "unknown"
  <2> DEFINE c == [stored EXCEPT !.schema = "current"]
             x == Showing(tab, p, c, FALSE)
  <2>1. Hydrated(tab, p, stored) = x
    BY <1>2 DEF Hydrated
  <2>2. d \in Disks /\ Loaded(d, p) = stored
    BY <1>2 DEF Good
  <2>3. /\ p \in Projects /\ stored = d.items[p] /\ stored \in Items
        /\ Stored(d, p) /\ ~Pending(d, p)
    BY <1>2, <2>2, LoadedIsStored
  <2>4. stored \in Content
    BY <1>2, <2>3 DEF Items
  <2>5. c \in Content /\ c.schema = "current"
    BY <2>4 DEF Content, Schemas
  <2> HIDE DEF c
  <2>6. x \in Tab /\ x.project = p /\ x.content = c
    BY <2>3, <2>5, ShowingTab, ZenonT(30)
  <2> HIDE DEF x
  <2>7. ~Unreadable(d.items[p])
    BY <1>2, <2>3 DEF Unreadable
  <2>8. p \notin F /\ p \notin G
    BY <2>3 DEF Absent
  <2>9. QED  BY <2>1, <2>3, <2>5, <2>6, <2>7, <2>8 DEF TabOK
<1>3. QED  BY <1>1, <1>2

\* A tab that does not move stays in order while the disk evolves.
LEMMA TabStays ==
  ASSUME NEW tab \in Tab, NEW d, NEW e, NEW W, Evolved(d, e, W), NEW F, NEW G, NEW E, NEW H,
         TabOK(tab, d, F, G), E \subseteq F,
         tab.open /\ tab.project \in H => tab.project \in G
  PROVE  TabOK(tab, e, E, H)
<1>1. tab.project \in Projects
  BY DEF Tab
<1>2. QED  BY <1>1 DEF TabOK, Evolved

LEMMA AbsentStays ==
  ASSUME NEW d, NEW e, NEW W, Evolved(d, e, W), NEW F \in SUBSET Projects, Absent(d, F),
         W \cap F = {}
  PROVE  Absent(e, F)
BY DEF Absent, Evolved

-----------------------------------------------------------------------------
(* The steps keep the invariant.                                           *)

LEMMA Parts ==
  ASSUME IInv
  PROVE  /\ Good(disk) /\ disk \in Disks
         /\ app \in [Tabs -> Tab] /\ \A t \in Tabs : TabOK(app[t], disk, fresh, gone)
         /\ edits \in 0 .. MaxEdits
         /\ fresh \in SUBSET Projects /\ kept \in SUBSET Projects /\ gone \in SUBSET Projects
         /\ Absent(disk, fresh) /\ Absent(disk, gone)
         /\ fresh \cap gone = {} /\ Demo \notin fresh \cup gone
         /\ disk.index = Corrupt \/ \A p \in kept : Findable(disk, p)
BY DEF IInv, TypeOK, Good, Tab, SavedIsFindable

\* What all actions have in common: a disk that evolved, and one tab that is
\* in order on it.
LEMMA Step ==
  ASSUME IInv,
         NEW t \in Tabs, NEW x \in Tab, app' = [app EXCEPT ![t] = x],
         NEW W, Evolved(disk, disk', W), W \cap (fresh' \cup gone) = {},
         fresh' \in SUBSET fresh, gone' \in SUBSET Projects, gone \subseteq gone',
         \A p \in gone' \ gone :
            /\ ~Stored(disk', p) /\ p \notin fresh /\ p # Demo
            /\ \A u \in Tabs \ {t} : ~(app[u].open /\ app[u].project = p),
         TabOK(x, disk', fresh', gone'),
         kept' \in SUBSET Projects,
         disk'.index = Corrupt \/ \A p \in kept' : Findable(disk', p),
         edits' \in 0 .. MaxEdits
  PROVE  IInv'
<1>1. Good(disk') /\ disk' \in Disks
  BY DEF Evolved, Good
<1>2. app' \in [Tabs -> Tab] /\ app'[t] = x /\ \A u \in Tabs \ {t} : app'[u] = app[u]
  BY Parts
<1>3. TypeOK'
  <2>1. /\ disk'.index \in {None, Corrupt} \/ disk'.index \in StoredIndex
        /\ disk'.items \in [Projects -> Items]
        /\ disk'.legacy = None \/ disk'.legacy \in [project : Projects, content : Content]
    BY <1>1 DEF Disks, Slot
  <2>2. fresh' \subseteq Projects
    BY Parts
  <2>3. QED  BY <1>2, <2>1, <2>2 DEF TypeOK, Tab
<1>4. SavedIsFindable'
  BY DEF SavedIsFindable
<1>5. Absent(disk', fresh')
  <2>1. Absent(disk, fresh') /\ fresh' \in SUBSET Projects
    BY Parts DEF Absent
  <2>2. QED  BY <2>1, AbsentStays
<1>6. Absent(disk', gone')
  <2>1. Absent(disk', gone)
    BY Parts, AbsentStays
  <2>2. QED  BY <2>1 DEF Absent
<1>7. fresh' \cap gone' = {} /\ Demo \notin fresh' \cup gone'
  BY Parts
<1>8. ASSUME NEW u \in Tabs
      PROVE  TabOK(app'[u], disk', fresh', gone')
  <2>1. CASE u = t
    BY <1>2, <2>1
  <2>2. CASE u # t
    <3>1. app'[u] = app[u] /\ app[u] \in Tab /\ TabOK(app[u], disk, fresh, gone)
      BY <1>2, <2>2, Parts
    <3>2. app[u].open /\ app[u].project \in gone' => app[u].project \in gone
      BY <2>2
    <3>3. TabOK(app[u], disk', fresh', gone')
      BY <3>1, <3>2, TabStays
    <3>4. QED  BY <3>1, <3>3
  <2>3. QED  BY <2>1, <2>2
<1>9. QED  BY <1>1, <1>3, <1>4, <1>5, <1>6, <1>7, <1>8 DEF IInv

\* The same, when no project is deleted.
LEMMA SavingStep ==
  ASSUME IInv,
         NEW t \in Tabs, NEW x \in Tab, app' = [app EXCEPT ![t] = x],
         NEW W, Saves(disk, disk', W), W \cap (fresh' \cup gone) = {},
         fresh' \in SUBSET fresh, gone' = gone,
         TabOK(x, disk', fresh', gone),
         kept' \in SUBSET Projects,
         \A p \in kept' \ kept : Findable(disk', p),
         edits' \in 0 .. MaxEdits
  PROVE  IInv'
<1>1. Evolved(disk, disk', W)
  BY SavesEvolves
<1>2. disk'.index = Corrupt \/ \A p \in kept' : Findable(disk', p)
  BY Parts DEF Saves
<1>3. gone' \in SUBSET Projects
  BY Parts
<1>4. QED  BY <1>1, <1>2, <1>3, Step

\* persistProject(): what it writes is the project of its tab, which is not
\* one to stay absent.
LEMMA Persisted ==
  ASSUME IInv, NEW tab \in Tab, tab.open, TabOK(tab, disk, fresh, gone),
         NEW o \in Persist(disk, tab)
  PROVE  \E W \in SUBSET {tab.project} :
            /\ Saves(disk, o.disk, W)
            /\ W \cap (fresh \cup gone) = {}
            /\ o.end = "ok" /\ ~tab.paused => /\ Findable(o.disk, tab.project)
                                              /\ o.disk.items[tab.project] = tab.content
                                              /\ Settled(o.disk)
<1>1. CASE tab.paused
  <2>1. o.disk = disk
    BY <1>1 DEF Persist, Ok
  <2>2. Saves(disk, o.disk, {})
    BY <2>1, Parts, SavesNothing
  <2>3. QED  BY <1>1, <2>2
<1>2. CASE ~tab.paused
  <2>1. /\ o \in Save(disk, tab.project, tab.content, TRUE)
        /\ tab.project \in Projects /\ tab.content \in Content
        /\ tab.content.schema # "unknown"
        /\ tab.project \notin fresh /\ tab.project \notin gone
    BY <1>2 DEF Persist, Tab, TabOK
  <2>2. Saves(disk, o.disk, {tab.project})
    BY <2>1, Parts, SaveSaves
  <2>3. o.end = "ok" => /\ o.disk.items[tab.project] = tab.content
                        /\ Findable(o.disk, tab.project) /\ Settled(o.disk)
    BY <2>1, Parts, SaveKeeps
  <2>4. QED  BY <2>1, <2>2, <2>3
<1>3. QED  BY <1>1, <1>2

\* The tab after a handler that went well or threw, and after one that died.
LEMMA Continued ==
  ASSUME NEW t, NEW o, NEW next \in Tab, Continue(t, o, next)
  PROVE  \E x \in {next, Closed} : /\ x \in Tab /\ app' = [app EXCEPT ![t] = x]
                                   /\ o.end # "dead" => x = next
BY ClosedTab DEF Continue

\* The tab of an action that is open, on a disk after some saving.
LEMMA SavedTab ==
  ASSUME IInv, NEW tab \in Tab, TabOK(tab, disk, fresh, gone), NEW e, NEW W, Saves(disk, e, W)
  PROVE  TabOK(tab, e, fresh, gone)
BY SavesEvolves, TabStays

LEMMA OpenStep ==
  ASSUME IInv, NEW t \in Tabs, Open(t)
  PROVE  IInv'
<1>1. PICK o \in ReadIndex(disk) :
          LET p == IndexOf(o.disk).active
              stored == IF o.end = "thrown" THEN Corrupt ELSE Loaded(o.disk, p)
          IN /\ disk' = o.disk
             /\ Continue(t, o, Armed(Hydrated([Closed EXCEPT !.open = TRUE], p, stored)))
  BY DEF Open
<1> DEFINE p == IndexOf(o.disk).active
           stored == IF o.end = "thrown" THEN Corrupt ELSE Loaded(o.disk, p)
           blank == [Closed EXCEPT !.open = TRUE]
           shown == Hydrated(blank, p, stored)
<1>2. Saves(disk, disk', {}) /\ Good(disk') /\ disk' = o.disk
  BY <1>1, Parts, ReadSaves DEF Saves
<1>3. Evolved(disk, disk', {})
  BY <1>2, SavesEvolves
<1>4. blank \in Tab
  BY ClosedTab DEF Tab
<1>5. Absent(disk', fresh) /\ Absent(disk', gone)
  BY <1>3, Parts, AbsentStays
<1>6. stored \notin {None, Corrupt} => Loaded(disk', p) = stored
  BY <1>2
<1> HIDE DEF blank, p, stored
<1>7. shown \in Tab /\ TabOK(shown, disk', fresh, gone)
  BY <1>2, <1>4, <1>5, <1>6, Parts, HydratedTab
<1>8. Continue(t, o, Armed(shown))
  BY <1>1 DEF blank, p, stored
<1> HIDE DEF shown
<1>9. Armed(shown) \in Tab /\ TabOK(Armed(shown), disk', fresh, gone)
  BY <1>7, ArmedTab
<1>10. PICK x \in Tab : app' = [app EXCEPT ![t] = x] /\ TabOK(x, disk', fresh, gone)
  BY <1>8, <1>9, Continued, ClosedTab
<1>11. edits' = edits /\ fresh' = fresh /\ kept' = kept /\ gone' = gone
  BY DEF Open
<1>12. QED  BY <1>2, <1>10, <1>11, Parts, SavingStep

LEMMA EditStep ==
  ASSUME IInv, NEW t \in Tabs, Edit(t)
  PROVE  IInv'
<1> DEFINE y == [app[t] EXCEPT !.content.rev = edits + 1]
<1>1. /\ app' = [app EXCEPT ![t] = Armed(y)] /\ edits' = edits + 1 /\ edits' \in 0 .. MaxEdits
      /\ disk' = disk /\ fresh' = fresh /\ kept' = kept /\ gone' = gone
  BY Parts, Constants DEF Edit
<1>2. app[t] \in Tab /\ TabOK(app[t], disk, fresh, gone)
  BY Parts
<1>3. edits + 1 \in 0 .. MaxEdits
  BY <1>1
<1>4. /\ y \in Tab /\ y.project = app[t].project /\ y.paused = app[t].paused
      /\ y.open = app[t].open /\ y.content.schema = app[t].content.schema
  BY <1>2, <1>3 DEF Tab, Content
<1> HIDE DEF y
<1>5. TabOK(y, disk, fresh, gone)
  BY <1>2, <1>4 DEF TabOK
<1>6. Armed(y) \in Tab /\ TabOK(Armed(y), disk, fresh, gone)
  BY <1>4, <1>5, ArmedTab
<1>7. Saves(disk, disk', {})
  BY <1>1, Parts, SavesNothing
<1>8. QED  BY <1>1, <1>6, <1>7, Parts, SavingStep

LEMMA ResetStep ==
  ASSUME IInv, NEW t \in Tabs, Reset(t)
  PROVE  IInv'
<1> DEFINE y == Showing(app[t], Demo, Pristine, FALSE)
<1>1. /\ app' = [app EXCEPT ![t] = Armed(y)] /\ edits' = edits
      /\ disk' = disk /\ fresh' = fresh /\ kept' = kept /\ gone' = gone
  BY DEF Reset
<1>2. app[t] \in Tab
  BY Parts
<1>3. y \in Tab /\ y.project = Demo /\ y.content = Pristine
  BY <1>2, PristineContent, Constants, ShowingTab
<1> HIDE DEF y
<1>4. TabOK(y, disk, fresh, gone)
  BY <1>3, Parts, PristineContent DEF TabOK
<1>5. Armed(y) \in Tab /\ TabOK(Armed(y), disk, fresh, gone)
  BY <1>3, <1>4, ArmedTab
<1>6. Saves(disk, disk', {})
  BY <1>1, Parts, SavesNothing
<1>7. QED  BY <1>1, <1>5, <1>6, Parts, SavingStep

\* A handler of an open tab that saves what the tab shows, as "tab", and goes
\* on as "next".
LEMMA PersistStep ==
  ASSUME IInv, NEW t \in Tabs, app[t].open,
         NEW tab \in Tab, TabOK(tab, disk, fresh, gone), tab.open,
         tab.project = app[t].project, tab.paused = app[t].paused,
         NEW next \in Tab, TabOK(next, disk, fresh, gone),
         NEW o \in Persist(disk, tab), disk' = o.disk, Continue(t, o, next), KeptAfter(t, o),
         fresh' = fresh, gone' = gone, edits' \in 0 .. MaxEdits
  PROVE  IInv'
<1>1. PICK W \in SUBSET {tab.project} :
            /\ Saves(disk, o.disk, W)
            /\ W \cap (fresh \cup gone) = {}
            /\ o.end = "ok" /\ ~tab.paused => /\ Findable(o.disk, tab.project)
                                              /\ o.disk.items[tab.project] = tab.content
                                              /\ Settled(o.disk)
  BY Persisted
<1>2. PICK x \in Tab : app' = [app EXCEPT ![t] = x] /\ x \in {next, Closed}
  BY Continued
<1>3. TabOK(x, disk', fresh', gone)
  <2>1. TabOK(next, disk', fresh', gone)
    BY <1>1, SavedTab
  <2>2. QED  BY <1>2, <2>1, ClosedTab
<1>4. kept' \in SUBSET Projects /\ \A p \in kept' \ kept : Findable(disk', p)
  <2>1. tab.project \in Projects
    BY DEF Tab
  <2>2. QED  BY <1>1, <2>1, Parts DEF KeptAfter, Saved
<1>5. QED  BY <1>1, <1>2, <1>3, <1>4, SavingStep

LEMMA AutoSaveStep ==
  ASSUME IInv, NEW t \in Tabs, AutoSave(t)
  PROVE  IInv'
<1> DEFINE next == [app[t] EXCEPT !.timer = FALSE]
<1>1. PICK o \in Persist(disk, app[t]) :
          disk' = o.disk /\ Continue(t, o, next) /\ KeptAfter(t, o)
  BY DEF AutoSave
<1>2. app[t] \in Tab /\ TabOK(app[t], disk, fresh, gone) /\ app[t].open
  BY Parts DEF AutoSave
<1>3. next \in Tab /\ TabOK(next, disk, fresh, gone)
  BY <1>2 DEF Tab, TabOK
<1>4. fresh' = fresh /\ gone' = gone /\ edits' \in 0 .. MaxEdits
  BY Parts DEF AutoSave
<1> HIDE DEF next
<1>5. QED  BY <1>1, <1>2, <1>3, <1>4, PersistStep

LEMMA SaveKeyStep ==
  ASSUME IInv, NEW t \in Tabs, SaveKey(t)
  PROVE  IInv'
<1>1. PICK o \in Persist(disk, app[t]) :
          disk' = o.disk /\ Continue(t, o, app[t]) /\ KeptAfter(t, o)
  BY DEF SaveKey, Unchanged
<1>2. app[t] \in Tab /\ TabOK(app[t], disk, fresh, gone) /\ app[t].open
  BY Parts DEF SaveKey
<1>3. fresh' = fresh /\ gone' = gone /\ edits' \in 0 .. MaxEdits
  BY Parts DEF SaveKey
<1>4. QED  BY <1>1, <1>2, <1>3, PersistStep

LEMMA RenameCurrentStep ==
  ASSUME IInv, NEW t \in Tabs, RenameCurrent(t)
  PROVE  IInv'
<1> DEFINE y == [app[t] EXCEPT !.content.rev = edits + 1]
           renamed == Armed(y)
<1>1. PICK o \in Persist(disk, renamed) :
          disk' = o.disk /\ Continue(t, o, renamed) /\ KeptAfter(t, o)
  BY DEF RenameCurrent
<1>2. app[t] \in Tab /\ TabOK(app[t], disk, fresh, gone) /\ app[t].open
  BY Parts DEF RenameCurrent, Usable
<1>3. fresh' = fresh /\ gone' = gone /\ edits' = edits + 1 /\ edits + 1 \in 0 .. MaxEdits
  BY Parts, Constants DEF RenameCurrent
<1>4. /\ y \in Tab /\ y.project = app[t].project /\ y.paused = app[t].paused
      /\ y.open = app[t].open /\ y.content.schema = app[t].content.schema
  BY <1>2, <1>3 DEF Tab, Content
<1> HIDE DEF y
<1>5. TabOK(y, disk, fresh, gone)
  BY <1>2, <1>4 DEF TabOK
<1>6. /\ renamed \in Tab /\ TabOK(renamed, disk, fresh, gone)
      /\ renamed.open /\ renamed.project = app[t].project /\ renamed.paused = app[t].paused
  BY <1>2, <1>4, <1>5, ArmedTab
<1> HIDE DEF renamed
<1>7. QED  BY <1>1, <1>2, <1>3, <1>6, PersistStep

LEMMA CloseStep ==
  ASSUME IInv, NEW t \in Tabs, Close(t)
  PROVE  IInv'
<1>1. PICK o \in IF app[t].recovery \/ app[t].paused THEN {Dead(disk)}
                ELSE Save(disk, app[t].project, app[t].content, TRUE) :
          disk' = o.disk /\ KeptAfter(t, o)
  BY DEF Close
<1>2. /\ app[t] \in Tab /\ TabOK(app[t], disk, fresh, gone) /\ app[t].open
      /\ app[t].project \in Projects
  BY Parts DEF Close, Tab
<1>3. /\ app' = [app EXCEPT ![t] = Closed]
      /\ fresh' = fresh /\ gone' = gone /\ edits' = edits
  BY DEF Close
<1>4. CASE app[t].recovery \/ app[t].paused
  <2>1. disk' = disk /\ kept' = kept
    <3>1. o = Dead(disk)
      BY <1>1, <1>4
    <3>2. QED  BY <1>1, <3>1 DEF Dead, KeptAfter, Saved
  <2>2. Saves(disk, disk', {})
    BY <2>1, Parts, SavesNothing
  <2>3. QED  BY <1>3, <2>1, <2>2, ClosedTab, Parts, SavingStep
<1>5. CASE ~(app[t].recovery \/ app[t].paused)
  <2>1. o \in Persist(disk, app[t])
    BY <1>1, <1>5 DEF Persist
  <2>2. PICK W \in SUBSET {app[t].project} :
            /\ Saves(disk, disk', W)
            /\ W \cap (fresh \cup gone) = {}
            /\ o.end = "ok" => Findable(disk', app[t].project)
    BY <1>1, <1>2, <1>5, <2>1, Persisted
  <2>3. kept' \in SUBSET Projects /\ \A p \in kept' \ kept : Findable(disk', p)
    BY <1>1, <1>2, <2>2, Parts DEF KeptAfter, Saved
  <2>4. QED  BY <1>3, <2>2, <2>3, ClosedTab, Parts, SavingStep
<1>6. QED  BY <1>4, <1>5

\* A tab that shows what activate() switched to.
LEMMA SwitchStep ==
  ASSUME IInv, NEW t \in Tabs, NEW p \in Projects, Switch(t, p)
  PROVE  IInv'
<1>1. PICK s \in Persist(disk, app[t]) :
          IF s.end # "ok"
          THEN disk' = s.disk /\ Continue(t, s, app[t]) /\ kept' = kept
          ELSE \E o \in Activate(s.disk, p) :
                  LET stored == Loaded(o.disk, p)
                  IN /\ disk' = o.disk
                     /\ kept' = kept \cup {app[t].project}
                     /\ IF o.end = "ok" /\ stored # None
                        THEN Continue(t, o, Armed(Hydrated(app[t], p, stored)))
                        ELSE Continue(t, o, app[t])
  BY DEF Switch, Unchanged, Saved
<1>2. /\ app[t] \in Tab /\ TabOK(app[t], disk, fresh, gone) /\ app[t].open
      /\ app[t].project \in Projects /\ ~app[t].paused
  BY Parts DEF Switch, Usable, Tab
<1>3. fresh' = fresh /\ gone' = gone /\ edits' = edits
  BY DEF Switch
<1>4. PICK W \in SUBSET {app[t].project} :
            /\ Saves(disk, s.disk, W)
            /\ W \cap (fresh \cup gone) = {}
            /\ s.end = "ok" => Findable(s.disk, app[t].project)
  BY <1>2, Persisted
<1>5. CASE s.end # "ok"
  <2>1. disk' = s.disk /\ Continue(t, s, app[t]) /\ kept' = kept
    BY <1>1, <1>5
  <2>2. PICK x \in Tab : app' = [app EXCEPT ![t] = x] /\ x \in {app[t], Closed}
    BY <1>2, <2>1, Continued
  <2>3. TabOK(x, disk', fresh', gone)
    BY <1>2, <1>3, <1>4, <2>1, <2>2, SavedTab, ClosedTab
  <2>4. QED  BY <1>3, <1>4, <2>1, <2>2, <2>3, Parts, SavingStep
<1>6. CASE s.end = "ok"
  <2>1. PICK o \in Activate(s.disk, p) :
          /\ disk' = o.disk
          /\ kept' = kept \cup {app[t].project}
          /\ IF o.end = "ok" /\ Loaded(o.disk, p) # None
             THEN Continue(t, o, Armed(Hydrated(app[t], p, Loaded(o.disk, p))))
             ELSE Continue(t, o, app[t])
    BY <1>1, <1>6
  <2>2. Good(s.disk)
    BY <1>4 DEF Saves
  <2>3. Saves(s.disk, disk', {})
    BY <2>1, <2>2, ActivateSaves
  <2>4. Saves(disk, disk', W)
    <3>1. Saves(disk, disk', W \cup {})
      BY <1>4, <2>3, SavesTransitive
    <3>2. W \cup {} = W
      OBVIOUS
    <3>3. QED  BY <3>1, <3>2
  <2>5. Good(disk') /\ Absent(disk', fresh) /\ Absent(disk', gone)
    <3>1. Evolved(disk, disk', W)
      BY <2>4, SavesEvolves
    <3>2. QED  BY <1>4, <2>4, <3>1, Parts, AbsentStays DEF Saves
  <2> DEFINE shown == Hydrated(app[t], p, Loaded(disk', p))
  <2>6. shown \in Tab /\ TabOK(shown, disk', fresh, gone)
    BY <1>2, <2>5, Parts, HydratedTab
  <2> HIDE DEF shown
  <2>7. Armed(shown) \in Tab /\ TabOK(Armed(shown), disk', fresh, gone)
    BY <2>6, ArmedTab
  <2>8. TabOK(app[t], disk', fresh, gone)
    BY <1>2, <2>4, SavedTab
  <2>9. PICK next \in {Armed(shown), app[t]} : Continue(t, o, next)
    BY <2>1 DEF shown
  <2>10. next \in Tab /\ TabOK(next, disk', fresh, gone)
    BY <1>2, <2>7, <2>8, <2>9
  <2>11. PICK x \in Tab : app' = [app EXCEPT ![t] = x] /\ x \in {next, Closed}
    BY <2>9, <2>10, Continued
  <2>12. TabOK(x, disk', fresh', gone)
    BY <1>3, <2>10, <2>11, ClosedTab
  <2>13. Findable(disk', app[t].project)
    BY <1>2, <1>4, <1>6, <2>3 DEF Saves
  <2>14. kept' \in SUBSET Projects /\ \A q \in kept' \ kept : Findable(disk', q)
    BY <1>2, <2>1, <2>13, Parts
  <2>15. QED  BY <1>3, <1>4, <2>4, <2>11, <2>12, <2>14, Parts, SavingStep
<1>7. QED  BY <1>5, <1>6

\* A rename of another project writes its item as it was, schema and all.
LEMMA RenameOtherEvolves ==
  ASSUME IInv, NEW p \in Projects, NEW rev \in 0 .. MaxEdits,
         NEW r \in ReadIndex(disk), r.end = "ok", Loaded(r.disk, p) \notin {None, Corrupt},
         NEW o \in Save(r.disk, p, [Loaded(r.disk, p) EXCEPT !.rev = rev], FALSE)
  PROVE  /\ Evolved(disk, o.disk, {})
         /\ \A q \in Projects : Findable(disk, q) => Findable(o.disk, q)
         /\ o.end = "ok" => Findable(o.disk, p)
<1> DEFINE e == r.disk
           f == o.disk
           c == [Loaded(e, p) EXCEPT !.rev = rev]
<1>1. /\ Good(e) /\ \A q \in Projects : Untouched(disk, e, q)
      /\ e.index = Corrupt <=> disk.index = Corrupt
  BY Parts, ReadKeeps
<1>2. /\ Loaded(e, p) = e.items[p] /\ Loaded(e, p) \in Content /\ Stored(e, p)
      /\ ~Pending(e, p)
  BY <1>1, LoadedIsStored DEF Good, Items
<1>3. c \in Content /\ c.schema = e.items[p].schema
  BY <1>2 DEF Content
<1>4. Unreadable(c) <=> Unreadable(e.items[p])
  BY <1>2, <1>3, Constants DEF Unreadable
<1> HIDE DEF e, c
<1>5. /\ Good(f)
      /\ \A q \in Projects \ {p} : Untouched(e, f, q)
      /\ Findable(e, p) => Findable(f, p)
      /\ Pending(f, p) => Pending(e, p)
      /\ Untouched(e, f, p) \/ f.items[p] = c
      /\ f.index = Corrupt <=> e.index = Corrupt
      /\ o.end = "ok" => Findable(f, p)
  <2>1. o \in Save(e, p, c, FALSE) /\ FALSE \in BOOLEAN
    BY DEF e, c
  <2>2. Good(e) /\ c \in Content
    BY <1>1, <1>3
  <2>3. PICK activate \in BOOLEAN : o \in Save(e, p, c, activate)
    BY <2>1
  <2>4. QED  BY <2>2, <2>3, SaveKeeps
<1>6. \A q \in Projects \ {p} : Untouched(disk, f, q)
  BY <1>1, <1>5, UntouchedTransitive
<1>7. \A q \in Projects : Findable(disk, q) => Findable(f, q)
  BY <1>1, <1>5, <1>6 DEF Untouched
<1>8. ~Unreadable(None)
  BY Constants DEF Unreadable
<1>9. Stored(disk, p)
  BY <1>1, <1>2 DEF Untouched
<1>10. (Unreadable(f.items[p]) <=> Unreadable(e.items[p])) /\ ~Pending(f, p)
  BY <1>2, <1>4, <1>5 DEF Untouched
<1>11. ASSUME NEW q \in Projects
       PROVE  /\ Pending(f, q) => Pending(disk, q)
              /\ Unreadable(f.items[q]) => Unreadable(disk.items[q]) \/ Pending(disk, q)
              /\ Stored(f, q) => Stored(disk, q)
              /\ Unreadable(disk.items[q]) => f.items[q] = None \/ Unreadable(f.items[q])
  <2>1. CASE q = p
    BY <1>1, <1>8, <1>9, <1>10, <2>1 DEF Untouched
  <2>2. CASE q # p
    BY <1>6, <1>8, <2>2 DEF Untouched
  <2>3. QED  BY <2>1, <2>2
<1>12. f.index = Corrupt <=> disk.index = Corrupt
  BY <1>1, <1>5 DEF e
<1>13. QED  BY <1>5, <1>7, <1>11, <1>12 DEF Evolved

LEMMA RenameOtherStep ==
  ASSUME IInv, NEW t \in Tabs, NEW p \in Projects, RenameOther(t, p)
  PROVE  IInv'
<1>1. PICK r \in ReadIndex(disk) :
          IF r.end = "ok" /\ Loaded(r.disk, p) \notin {None, Corrupt}
          THEN \E o \in Save(r.disk, p, [Loaded(r.disk, p) EXCEPT !.rev = edits + 1], FALSE) :
                  /\ disk' = o.disk
                  /\ Continue(t, o, app[t])
                  /\ edits' = edits + 1
                  /\ IF o.end = "ok" THEN kept' = kept \cup {p} ELSE kept' = kept
          ELSE /\ disk' = r.disk
               /\ Continue(t, r, app[t])
               /\ edits' = edits /\ kept' = kept
  BY DEF RenameOther, Unchanged, Saved
<1>2. fresh' = fresh /\ gone' = gone /\ edits + 1 \in 0 .. MaxEdits
  BY Parts, Constants DEF RenameOther
<1>3. app[t] \in Tab /\ TabOK(app[t], disk, fresh, gone)
  BY Parts
<1>4. CASE r.end = "ok" /\ Loaded(r.disk, p) \notin {None, Corrupt}
  <2>1. PICK o \in Save(r.disk, p, [Loaded(r.disk, p) EXCEPT !.rev = edits + 1], FALSE) :
                  /\ disk' = o.disk
                  /\ Continue(t, o, app[t])
                  /\ edits' = edits + 1
                  /\ IF o.end = "ok" THEN kept' = kept \cup {p} ELSE kept' = kept
    BY <1>1, <1>4
  <2>2. /\ Evolved(disk, disk', {})
        /\ \A q \in Projects : Findable(disk, q) => Findable(disk', q)
        /\ o.end = "ok" => Findable(disk', p)
    BY <1>2, <1>4, <2>1, RenameOtherEvolves
  <2>3. PICK x \in Tab : app' = [app EXCEPT ![t] = x] /\ x \in {app[t], Closed}
    BY <1>3, <2>1, Continued
  <2>4. TabOK(x, disk', fresh', gone')
    <3>1. TabOK(app[t], disk', fresh', gone')
      BY <1>2, <1>3, <2>2, TabStays
    <3>2. QED  BY <2>3, <3>1, ClosedTab
  <2>5. /\ kept' \in SUBSET Projects
        /\ disk'.index = Corrupt \/ \A q \in kept' : Findable(disk', q)
    BY <2>1, <2>2, Parts DEF Evolved
  <2>6. edits' \in 0 .. MaxEdits /\ fresh' \in SUBSET fresh /\ gone' \in SUBSET Projects
        /\ gone \subseteq gone' /\ gone' \ gone = {}
    BY <1>2, <2>1, Parts
  <2>7. QED  BY <2>2, <2>3, <2>4, <2>5, <2>6, Step
<1>5. CASE ~(r.end = "ok" /\ Loaded(r.disk, p) \notin {None, Corrupt})
  <2>1. disk' = r.disk /\ Continue(t, r, app[t]) /\ edits' = edits /\ kept' = kept
    BY <1>1, <1>5
  <2>2. Saves(disk, disk', {})
    BY <2>1, Parts, ReadSaves
  <2>3. PICK x \in Tab : app' = [app EXCEPT ![t] = x] /\ x \in {app[t], Closed}
    BY <1>3, <2>1, Continued
  <2>4. TabOK(x, disk', fresh', gone)
    BY <1>2, <1>3, <2>2, <2>3, SavedTab, ClosedTab
  <2>5. QED  BY <1>2, <2>1, <2>2, <2>3, <2>4, Parts, SavingStep
<1>6. QED  BY <1>4, <1>5

\* What a deletion means for the histories.
LEMMA DeletedIds ==
  ASSUME IInv, NEW t \in Tabs, NEW p \in Projects, NEW o \in Clear(disk, p),
         disk' = o.disk, Deleted(t, p)
  PROVE  /\ Evolved(disk, disk', {}) /\ Good(disk')
         /\ gone' \in SUBSET Projects /\ gone \subseteq gone'
         /\ \A q \in gone' \ gone :
              /\ q = p /\ ~Stored(disk', q) /\ q \notin fresh /\ q # Demo
              /\ \A u \in Tabs \ {t} : ~(app[u].open /\ app[u].project = q)
         /\ Absent(disk', fresh) /\ Absent(disk', gone')
         /\ Demo \notin fresh \cup gone'
         /\ kept' \in SUBSET Projects
         /\ disk'.index = Corrupt \/ \A q \in kept' : Findable(disk', q)
<1>1. /\ Evolved(disk, disk', {})
      /\ \A q \in Projects \ {p} : Findable(disk, q) => Findable(disk', q)
      /\ \/ Findable(disk, p) => Findable(disk', p)
         \/ Stored(disk, p) /\ ~Stored(disk', p)
  BY Parts, ClearEvolves
<1>2. Absent(disk', fresh) /\ Absent(disk', gone)
  BY <1>1, Parts, AbsentStays
<1>3. disk'.index = Corrupt <=> disk.index = Corrupt
  BY <1>1 DEF Evolved
<1>4. CASE Stored(disk, p) /\ ~Stored(disk', p)
  <2>1. /\ kept' = kept \ {p}
        /\ gone' = gone \/ (gone' = gone \cup {p} /\ p # Demo
                            /\ \A u \in Tabs \ {t} : ~(app[u].open /\ app[u].project = p))
    BY <1>4 DEF Deleted
  <2>2. p \notin fresh
    BY <1>4, Parts DEF Absent
  <2>3. Absent(disk', gone')
    BY <1>2, <1>4, <2>1 DEF Absent
  <2>4. QED  BY <1>1, <1>2, <1>3, <1>4, <2>1, <2>2, <2>3, Parts DEF Evolved
<1>5. CASE ~(Stored(disk, p) /\ ~Stored(disk', p))
  <2>1. kept' = kept /\ gone' = gone
    BY <1>5 DEF Deleted
  <2>2. QED  BY <1>1, <1>2, <1>3, <1>5, <2>1, Parts DEF Evolved
<1>6. QED  BY <1>4, <1>5

LEMMA ClearStep ==
  ASSUME IInv, NEW t \in Tabs, NEW p \in Projects, NEW o \in Clear(disk, p),
         disk' = o.disk, Deleted(t, p), NEW next \in Tab, Continue(t, o, next),
         TabOK(next, disk', fresh, gone'), edits' = edits, fresh' = fresh
  PROVE  IInv'
<1>1. PICK x \in Tab : app' = [app EXCEPT ![t] = x] /\ x \in {next, Closed}
  BY Continued
<1>2. TabOK(x, disk', fresh', gone')
  BY <1>1, ClosedTab
<1>3. edits' \in 0 .. MaxEdits /\ fresh' \in SUBSET fresh
  BY Parts
<1>4. /\ Evolved(disk, disk', {})
      /\ gone' \in SUBSET Projects /\ gone \subseteq gone'
      /\ \A q \in gone' \ gone :
           /\ ~Stored(disk', q) /\ q \notin fresh /\ q # Demo
           /\ \A u \in Tabs \ {t} : ~(app[u].open /\ app[u].project = q)
      /\ kept' \in SUBSET Projects
      /\ disk'.index = Corrupt \/ \A q \in kept' : Findable(disk', q)
  BY DeletedIds
<1>5. {} \cap (fresh' \cup gone) = {}
  OBVIOUS
<1>6. QED  BY <1>1, <1>2, <1>3, <1>4, <1>5, Step

LEMMA DeleteOtherStep ==
  ASSUME IInv, NEW t \in Tabs, NEW p \in Projects, DeleteOther(t, p)
  PROVE  IInv'
<1>1. PICK o \in Clear(disk, p) : disk' = o.disk /\ Continue(t, o, app[t])
  BY DEF DeleteOther, Unchanged
<1>2. Deleted(t, p) /\ edits' = edits /\ fresh' = fresh /\ p # app[t].project
  BY DEF DeleteOther
<1>3. /\ Evolved(disk, disk', {})
      /\ \A q \in gone' \ gone : q = p
  BY <1>1, <1>2, DeletedIds
<1>4. app[t] \in Tab /\ TabOK(app[t], disk, fresh, gone)
  BY Parts
<1>5. TabOK(app[t], disk', fresh, gone')
  <2>1. app[t].project \in gone' => app[t].project \in gone
    BY <1>2, <1>3
  <2>2. QED  BY <1>3, <1>4, <2>1, TabStays
<1>6. QED  BY <1>1, <1>2, <1>4, <1>5, ClearStep

LEMMA DeleteCurrentStep ==
  ASSUME IInv, NEW t \in Tabs, DeleteCurrent(t)
  PROVE  IInv'
<1> DEFINE p == app[t].project
           paused == [app[t] EXCEPT !.paused = TRUE, !.timer = FALSE]
           resumed == [paused EXCEPT !.paused = FALSE]
           Blank(tab) == [Hydrated(tab, Demo, None) EXCEPT !.required = TRUE]
<1>1. PICK o \in Clear(disk, p) :
             LET next == IndexOf(o.disk).active
                 stored == Loaded(o.disk, next)
             IN /\ disk' = o.disk
                /\ Continue(t, o,
                      IF o.end # "ok" \/ stored = Corrupt THEN paused
                      ELSE IF stored = None THEN Blank(paused)
                      ELSE Armed(Hydrated(resumed, next, stored)))
  BY DEF DeleteCurrent
<1> DEFINE next == IndexOf(o.disk).active
           stored == Loaded(o.disk, next)
<1>2. Deleted(t, p) /\ edits' = edits /\ fresh' = fresh
  BY DEF DeleteCurrent
<1>3. app[t] \in Tab /\ TabOK(app[t], disk, fresh, gone) /\ p \in Projects
  BY Parts DEF Tab
<1>4. /\ Evolved(disk, disk', {}) /\ Good(disk')
      /\ Absent(disk', fresh) /\ Absent(disk', gone')
      /\ Demo \notin fresh \cup gone' /\ gone' \in SUBSET Projects
  BY <1>1, <1>2, <1>3, DeletedIds
<1>5. paused \in Tab /\ TabOK(paused, disk', fresh, gone')
  <2>1. /\ paused \in Tab /\ paused.open = app[t].open /\ paused.content = app[t].content
        /\ paused.project = p /\ paused.paused
    BY <1>3 DEF Tab
  <2> HIDE DEF paused
  <2>2. TabOK(paused, disk, fresh, gone')
    BY <1>3, <2>1 DEF TabOK
  <2>3. QED  BY <1>4, <2>1, <2>2, TabStays
<1>6. resumed \in Tab
  BY <1>5 DEF Tab
<1> HIDE DEF p, paused, resumed
<1>7. Blank(paused) \in Tab /\ TabOK(Blank(paused), disk', fresh, gone')
  <2> DEFINE y == Hydrated(paused, Demo, None)
  <2>1. y \in Tab /\ TabOK(y, disk', fresh, gone')
    BY <1>4, <1>5, Parts, HydratedTab
  <2> HIDE DEF y
  <2> DEFINE z == [y EXCEPT !.required = TRUE]
  <2>2. /\ z \in Tab /\ z.open = y.open /\ z.content = y.content /\ z.project = y.project
        /\ z.paused = y.paused
    BY <2>1 DEF Tab
  <2>3. TabOK(z, disk', fresh, gone')
    BY <2>1, <2>2 DEF TabOK
  <2>4. QED  BY <2>2, <2>3 DEF y
<1>8. /\ Armed(Hydrated(resumed, next, stored)) \in Tab
      /\ TabOK(Armed(Hydrated(resumed, next, stored)), disk', fresh, gone')
  <2>1. disk' = o.disk
    BY <1>1
  <2>2. stored = Loaded(disk', next)
    BY <2>1
  <2> HIDE DEF next, stored
  <2>3. /\ Hydrated(resumed, next, stored) \in Tab
        /\ TabOK(Hydrated(resumed, next, stored), disk', fresh, gone')
    BY <1>4, <1>6, <2>2, Parts, HydratedTab
  <2>4. QED  BY <2>3, ArmedTab
<1>9. \E y \in {paused, Blank(paused), Armed(Hydrated(resumed, next, stored))} :
         disk' = o.disk /\ Continue(t, o, y)
  BY <1>1
<1> HIDE DEF Blank, next, stored
<1>10. QED  BY <1>2, <1>3, <1>5, <1>7, <1>8, <1>9, ClearStep

\* The two saves of the dialog for a new project.
LEMMA NewProjectSaves ==
  ASSUME IInv, NEW t \in Tabs, app[t].open, NEW p \in fresh,
         NEW s \in Persist(disk, app[t]), s.end = "ok",
         NEW o \in Save(s.disk, p, Pristine, TRUE)
  PROVE  \E W \in SUBSET {app[t].project, p} :
            /\ Saves(disk, o.disk, W)
            /\ W \cap ((fresh \ {p}) \cup gone) = {}
            /\ ~app[t].paused => Findable(o.disk, app[t].project)
            /\ o.end = "ok" => Findable(o.disk, p)
<1>1. /\ app[t] \in Tab /\ TabOK(app[t], disk, fresh, gone)
      /\ app[t].project \in Projects /\ p \in Projects /\ p \notin gone
  BY Parts DEF Tab
<1>2. PICK V \in SUBSET {app[t].project} :
            /\ Saves(disk, s.disk, V)
            /\ V \cap (fresh \cup gone) = {}
            /\ s.end = "ok" /\ ~app[t].paused => Findable(s.disk, app[t].project)
  BY <1>1, Persisted
<1>3. Good(s.disk) /\ Pristine \in Content /\ Pristine.schema # "unknown" /\ TRUE \in BOOLEAN
  BY <1>2, PristineContent DEF Saves
<1>4. Saves(s.disk, o.disk, {p}) /\ (o.end = "ok" => Findable(o.disk, p))
  BY <1>1, <1>3, SaveSaves, SaveKeeps
<1>5. Saves(disk, o.disk, V \cup {p})
  BY <1>2, <1>4, SavesTransitive
<1>6. (V \cup {p}) \cap ((fresh \ {p}) \cup gone) = {}
  BY <1>1, <1>2
<1>7. ~app[t].paused => Findable(o.disk, app[t].project)
  BY <1>1, <1>2, <1>4 DEF Saves
<1>8. QED  BY <1>4, <1>5, <1>6, <1>7

LEMMA NewProjectStep ==
  ASSUME IInv, NEW t \in Tabs, NEW p \in Projects, NewProject(t, p)
  PROVE  IInv'
<1> DEFINE shown == Showing(app[t], p, Pristine, FALSE)
           y == [shown EXCEPT !.paused = FALSE, !.required = FALSE]
<1>1. PICK s \in Persist(disk, app[t]) :
          IF s.end # "ok"
          THEN /\ disk' = s.disk /\ Continue(t, s, app[t])
               /\ fresh' = fresh /\ kept' = kept
          ELSE \E o \in Save(s.disk, p, Pristine, TRUE) :
                  /\ disk' = o.disk
                  /\ Continue(t, o, Armed(y))
                  /\ fresh' = fresh \ {p}
                  /\ kept' = kept \cup (IF app[t].paused THEN {} ELSE {app[t].project})
                                  \cup (IF o.end = "ok" THEN {p} ELSE {})
  BY DEF NewProject, Unchanged
<1>2. edits' = edits /\ gone' = gone /\ app[t].open /\ p \in fresh
  BY DEF NewProject
<1>3. /\ app[t] \in Tab /\ TabOK(app[t], disk, fresh, gone) /\ app[t].project \in Projects
      /\ p \notin gone
  BY <1>2, Parts DEF Tab
<1>4. shown \in Tab /\ shown.project = p /\ shown.content = Pristine
  BY <1>3, PristineContent, ShowingTab
<1>5. CASE s.end # "ok"
  <2>1. disk' = s.disk /\ Continue(t, s, app[t]) /\ kept' = kept /\ fresh' = fresh
    BY <1>1, <1>5
  <2>2. PICK W \in SUBSET {app[t].project} :
            Saves(disk, s.disk, W) /\ W \cap (fresh \cup gone) = {}
    BY <1>2, <1>3, Persisted
  <2>3. PICK x \in Tab : app' = [app EXCEPT ![t] = x] /\ x \in {app[t], Closed}
    BY <1>3, <2>1, Continued
  <2>4. TabOK(x, disk', fresh', gone)
    BY <1>3, <2>1, <2>2, <2>3, SavedTab, ClosedTab
  <2>5. QED  BY <1>2, <2>1, <2>2, <2>3, <2>4, Parts, SavingStep
<1>6. CASE s.end = "ok"
  <2>1. PICK o \in Save(s.disk, p, Pristine, TRUE) :
          /\ disk' = o.disk
          /\ Continue(t, o, Armed(y))
          /\ fresh' = fresh \ {p}
          /\ kept' = kept \cup (IF app[t].paused THEN {} ELSE {app[t].project})
                          \cup (IF o.end = "ok" THEN {p} ELSE {})
    BY <1>1, <1>6
  <2>2. PICK W \in SUBSET {app[t].project, p} :
            /\ Saves(disk, disk', W)
            /\ W \cap (fresh' \cup gone) = {}
            /\ ~app[t].paused => Findable(disk', app[t].project)
            /\ o.end = "ok" => Findable(disk', p)
    <3>1. PICK V \in SUBSET {app[t].project, p} :
            /\ Saves(disk, o.disk, V)
            /\ V \cap ((fresh \ {p}) \cup gone) = {}
            /\ ~app[t].paused => Findable(o.disk, app[t].project)
            /\ o.end = "ok" => Findable(o.disk, p)
      BY <1>2, <1>6, NewProjectSaves
    <3>2. QED  BY <2>1, <3>1
  <2>3. shown \in Tab /\ shown.project = p /\ shown.content = Pristine
    BY <1>4
  <2> HIDE DEF shown
  <2>4. y \in Tab /\ y.project = p /\ y.content = Pristine
    BY <2>3 DEF Tab
  <2> HIDE DEF y
  <2>5. ~Pending(disk', p) /\ ~Unreadable(disk'.items[p])
    <3>1. ~Stored(disk, p)
      BY <1>2, Parts DEF Absent
    <3>2. ~Pending(disk, p) /\ ~Unreadable(disk.items[p])
      BY <3>1, Constants DEF Stored, Pending, Unreadable
    <3>3. Evolved(disk, disk', W)
      BY <2>2, SavesEvolves
    <3>4. QED  BY <3>2, <3>3 DEF Evolved
  <2>6. TabOK(y, disk', fresh', gone)
    BY <1>3, <2>1, <2>4, <2>5, PristineContent DEF TabOK
  <2>7. Armed(y) \in Tab /\ TabOK(Armed(y), disk', fresh', gone)
    BY <2>4, <2>6, ArmedTab
  <2>8. PICK x \in Tab : app' = [app EXCEPT ![t] = x] /\ x \in {Armed(y), Closed}
    BY <2>1, <2>7, Continued
  <2>9. TabOK(x, disk', fresh', gone)
    BY <2>7, <2>8, ClosedTab
  <2>10. kept' \in SUBSET Projects /\ \A q \in kept' \ kept : Findable(disk', q)
    BY <1>3, <2>1, <2>2, Parts
  <2>11. fresh' \in SUBSET fresh
    BY <2>1
  <2>12. QED  BY <1>2, <2>2, <2>8, <2>9, <2>10, <2>11, Parts, SavingStep
<1>7. QED  BY <1>5, <1>6

LEMMA NextStep ==
  ASSUME IInv, [Next]_vars
  PROVE  IInv'
<1>1. CASE UNCHANGED vars
  <2>1. disk' = disk /\ app' = app /\ edits' = edits /\ fresh' = fresh /\ kept' = kept
        /\ gone' = gone
    BY <1>1 DEF vars
  <2>2. QED  BY <2>1 DEF IInv, TypeOK, SavedIsFindable
<1>2. CASE Next
  <2>1. PICK t \in Tabs :
        \/ Open(t) \/ Edit(t) \/ AutoSave(t) \/ SaveKey(t) \/ Close(t)
        \/ RenameCurrent(t) \/ DeleteCurrent(t) \/ Reset(t)
        \/ \E p \in Projects :
              Switch(t, p) \/ RenameOther(t, p) \/ DeleteOther(t, p) \/ NewProject(t, p)
    BY <1>2 DEF Next
  <2>2. QED  BY <2>1, OpenStep, EditStep, AutoSaveStep, SaveKeyStep, CloseStep,
                RenameCurrentStep, DeleteCurrentStep, ResetStep, SwitchStep,
                RenameOtherStep, DeleteOtherStep, NewProjectStep
<1>3. QED  BY <1>1, <1>2

\* Storage as some release left it.
LEMMA InitialDisk ==
  ASSUME Init
  PROVE  /\ Good(disk)
         /\ disk.index = Corrupt \/ \A p \in kept : Findable(disk, p)
<1> DEFINE blank == [p \in Projects |-> None]
<1>1. /\ Empty.index = None /\ Empty.legacy = None /\ Empty.items = blank
      /\ blank \in [Projects -> Items] /\ Empty \in Disks
  BY DEF Empty, Disks, Items
<1>2. SoundIndex(EmptyIndex) /\ \A d : d.index \in {None, Corrupt} => IndexOf(d) = EmptyIndex
  BY DEF SoundIndex, EmptyIndex, NoneTwice, IndexOf
<1>3. kept = {p \in Projects : \/ disk.items[p] # None
                               \/ disk.legacy # None /\ disk.legacy.project = p}
  BY DEF Init
<1>4. CASE disk = Empty
  BY <1>1, <1>2, <1>3, <1>4 DEF Good
<1>5. CASE disk = WithIndex(Empty, Corrupt)
  <2>1. disk.index = Corrupt /\ disk.legacy = None /\ disk \in Disks
    BY <1>1, <1>5 DEF WithIndex, Disks
  <2>2. QED  BY <1>2, <2>1 DEF Good
<1>6. ASSUME NEW q \in Projects, NEW sc \in Schemas,
             disk = [Empty EXCEPT !.legacy =
                        [project |-> q, content |-> [schema |-> sc, rev |-> 0]]]
      PROVE  Good(disk) /\ \A p \in kept : Findable(disk, p)
  <2> DEFINE slot == [project |-> q, content |-> [schema |-> sc, rev |-> 0]]
  <2>1. slot \in Slot /\ slot.project = q
    BY Constants DEF Slot, Content
  <2> HIDE DEF slot
  <2>2. disk.index = None /\ disk.legacy = slot /\ disk.items = blank /\ disk \in Disks
    BY <1>1, <1>6, <2>1 DEF slot, Disks
  <2>3. Good(disk)
    BY <1>2, <2>1, <2>2 DEF Good
  <2>4. \A p \in kept : disk.legacy # None /\ disk.legacy.project = p
    BY <1>3, <2>2
  <2>5. QED  BY <2>2, <2>3, <2>4 DEF Findable
<1>7. ASSUME NEW n \in 1 .. Cardinality(Projects), NEW ids \in [1 .. n -> Projects],
             \A j, k \in 1 .. n : ids[j] = ids[k] => j = k,
             NEW active \in Range(ids), NEW items \in [Range(ids) -> InitialItems],
             disk = [index |-> [ids |-> ids, active |-> active], legacy |-> None,
                     items |-> [p \in Projects |->
                                  IF p \in Range(ids) THEN items[p] ELSE None]]
      PROVE  Good(disk) /\ \A p \in kept : Findable(disk, p)
  <2> DEFINE i == [ids |-> ids, active |-> active]
             stored == [p \in Projects |-> IF p \in Range(ids) THEN items[p] ELSE None]
  <2>1. ids \in Seq(Projects) /\ Len(ids) = n
    <3>1. n \in Nat
      OBVIOUS
    <3>2. QED  BY <3>1, IsASeq, LenProperties
  <2>2. \A p : p \in Range(ids) <=> Contains(ids, p)
    BY <2>1 DEF Range, Contains
  <2>3. i \in StoredIndex /\ SoundIndex(i)
    <3>1. active \in Projects
      BY DEF Range
    <3>2. NoneTwice(ids) /\ Contains(ids, active)
      BY <1>7, <2>1, <2>2 DEF NoneTwice
    <3>3. QED  BY <2>1, <3>1, <3>2 DEF StoredIndex, SoundIndex
  <2>4. InitialItems \subseteq Items
    BY Constants DEF InitialItems, Items, Content
  <2>5. stored \in [Projects -> Items]
    <3>1. None \in Items
      BY DEF Items
    <3>2. QED  BY <2>4, <3>1
  <2>6. \A p \in Projects : stored[p] # None => Contains(ids, p)
    BY <2>2
  <2> HIDE DEF i, stored
  <2>7. disk.index = i /\ disk.legacy = None /\ disk.items = stored /\ disk \in Disks
    BY <1>7, <2>3, <2>5 DEF i, stored, Disks
  <2>8. IndexOf(disk) = i /\ i.ids = ids
    BY <2>3, <2>7, Constants DEF IndexOf, i
  <2>9. Good(disk)
    BY <2>3, <2>7, <2>8 DEF Good
  <2>10. QED  BY <1>3, <2>6, <2>7, <2>8, <2>9 DEF Findable
<1>8. QED  BY <1>4, <1>5, <1>6, <1>7 DEF Init

LEMMA InitialState ==
  ASSUME Init
  PROVE  IInv
<1>1. Good(disk) /\ SavedIsFindable
  BY InitialDisk DEF SavedIsFindable
<1>2. /\ app = [t \in Tabs |-> Closed] /\ edits = 0 /\ gone = {}
      /\ fresh = {p \in Projects \ {Demo} :
                    disk.items[p] = None /\ (disk.legacy # None => disk.legacy.project # p)}
      /\ kept \subseteq Projects
  BY DEF Init
<1>3. app \in [Tabs -> Tab] /\ \A t \in Tabs : TabOK(app[t], disk, fresh, gone)
  BY <1>2, ClosedTab
<1>4. TypeOK
  <2>1. 0 \in 0 .. MaxEdits
    BY Constants
  <2>2. /\ disk.index \in {None, Corrupt} \/ disk.index \in StoredIndex
        /\ disk.items \in [Projects -> Items]
        /\ disk.legacy = None \/ disk.legacy \in [project : Projects, content : Content]
    BY <1>1 DEF Good, Disks, Slot
  <2>3. fresh \subseteq Projects /\ gone \subseteq Projects
    BY <1>2
  <2>4. QED  BY <1>2, <1>3, <2>1, <2>2, <2>3 DEF TypeOK, Tab
<1>5. Absent(disk, fresh) /\ Absent(disk, gone)
  BY <1>2 DEF Absent, Stored
<1>6. fresh \cap gone = {} /\ Demo \notin fresh \cup gone
  BY <1>2
<1>7. QED  BY <1>1, <1>3, <1>4, <1>5, <1>6 DEF IInv

-----------------------------------------------------------------------------
(* What a step writes and leaves alone.                                    *)

\* The projects a step writes are not out of reach, unless it is the demo.
Reachable(W) == \A q \in W \ {Demo} : ~Unreadable(disk.items[q])

LEMMA ShownIsReachable ==
  ASSUME IInv, NEW t \in Tabs, app[t].open, NEW W \in SUBSET {app[t].project}
  PROVE  Reachable(W)
BY Parts DEF Reachable, TabOK

LEMMA PersistEvolves ==
  ASSUME IInv, NEW t \in Tabs, app[t].open, NEW o \in Persist(disk, app[t])
  PROVE  \E W : Reachable(W) /\ Evolved(disk, o.disk, W)
<1>1. PICK W \in SUBSET {app[t].project} : Saves(disk, o.disk, W)
  BY Parts, Persisted
<1>2. QED  BY <1>1, ShownIsReachable, SavesEvolves

LEMMA RenamedEvolves ==
  ASSUME IInv, NEW t \in Tabs, RenameCurrent(t)
  PROVE  \E W : Reachable(W) /\ Evolved(disk, disk', W)
<1> DEFINE y == [app[t] EXCEPT !.content.rev = edits + 1]
<1>1. PICK o \in Persist(disk, Armed(y)) : disk' = o.disk
  BY DEF RenameCurrent
<1>2. app[t] \in Tab /\ TabOK(app[t], disk, fresh, gone) /\ app[t].open
      /\ edits + 1 \in 0 .. MaxEdits
  BY Parts, Constants DEF RenameCurrent, Usable
<1>3. /\ y \in Tab /\ y.project = app[t].project /\ y.paused = app[t].paused
      /\ y.open = app[t].open /\ y.content.schema = app[t].content.schema
  BY <1>2 DEF Tab, Content
<1> HIDE DEF y
<1>4. TabOK(y, disk, fresh, gone)
  BY <1>2, <1>3 DEF TabOK
<1>5. /\ Armed(y) \in Tab /\ TabOK(Armed(y), disk, fresh, gone)
      /\ Armed(y).open /\ Armed(y).project = app[t].project
  BY <1>2, <1>3, <1>4, ArmedTab
<1>6. PICK W \in SUBSET {app[t].project} : Saves(disk, disk', W)
  BY <1>1, <1>5, Persisted
<1>7. QED  BY <1>2, <1>6, ShownIsReachable, SavesEvolves

LEMMA SwitchEvolves ==
  ASSUME IInv, NEW t \in Tabs, NEW p \in Projects, Switch(t, p)
  PROVE  \E W : Reachable(W) /\ Evolved(disk, disk', W)
<1>1. PICK s \in Persist(disk, app[t]) :
          disk' = s.disk \/ \E o \in Activate(s.disk, p) : disk' = o.disk
  BY DEF Switch
<1>2. app[t] \in Tab /\ TabOK(app[t], disk, fresh, gone) /\ app[t].open
  BY Parts DEF Switch, Usable
<1>3. PICK W \in SUBSET {app[t].project} : Saves(disk, s.disk, W)
  BY <1>2, Persisted
<1>4. CASE disk' = s.disk
  BY <1>2, <1>3, <1>4, ShownIsReachable, SavesEvolves
<1>5. CASE \E o \in Activate(s.disk, p) : disk' = o.disk
  <2>1. Saves(s.disk, disk', {})
    BY <1>3, <1>5, ActivateSaves DEF Saves
  <2>2. Saves(disk, disk', W \cup {})
    BY <1>3, <2>1, SavesTransitive
  <2>3. W \cup {} \in SUBSET {app[t].project}
    OBVIOUS
  <2>4. QED  BY <1>2, <2>2, <2>3, ShownIsReachable, SavesEvolves
<1>6. QED  BY <1>1, <1>4, <1>5

LEMMA NewProjectEvolves ==
  ASSUME IInv, NEW t \in Tabs, NEW p \in Projects, NewProject(t, p)
  PROVE  \E W : Reachable(W) /\ Evolved(disk, disk', W)
<1>1. PICK s \in Persist(disk, app[t]) :
          \/ disk' = s.disk
          \/ s.end = "ok" /\ \E o \in Save(s.disk, p, Pristine, TRUE) : disk' = o.disk
  BY DEF NewProject
<1>2. app[t].open /\ p \in fresh
  BY DEF NewProject
<1>3. CASE disk' = s.disk
  BY <1>2, <1>3, PersistEvolves
<1>4. CASE s.end = "ok" /\ \E o \in Save(s.disk, p, Pristine, TRUE) : disk' = o.disk
  <2>1. PICK W \in SUBSET {app[t].project, p} : Saves(disk, disk', W)
    <3>1. PICK o \in Save(s.disk, p, Pristine, TRUE) : disk' = o.disk
      BY <1>4
    <3>2. p \in fresh /\ app[t].open /\ s.end = "ok"
      BY <1>2, <1>4
    <3>3. PICK W \in SUBSET {app[t].project, p} :
            /\ Saves(disk, o.disk, W)
            /\ W \cap ((fresh \ {p}) \cup gone) = {}
            /\ ~app[t].paused => Findable(o.disk, app[t].project)
            /\ o.end = "ok" => Findable(o.disk, p)
      BY <3>2, NewProjectSaves
    <3>4. QED  BY <3>1, <3>3
  <2>2. ~Unreadable(disk.items[p])
    BY <1>2, Parts, Constants DEF Absent, Stored, Unreadable
  <2>3. Reachable(W)
    BY <1>2, <2>2, Parts DEF Reachable, TabOK
  <2>4. QED  BY <2>1, <2>3, SavesEvolves
<1>5. QED  BY <1>1, <1>3, <1>4

LEMMA RenameOtherWrites ==
  ASSUME IInv, NEW t \in Tabs, NEW p \in Projects, RenameOther(t, p)
  PROVE  Evolved(disk, disk', {})
<1>1. PICK r \in ReadIndex(disk) :
          IF r.end = "ok" /\ Loaded(r.disk, p) \notin {None, Corrupt}
          THEN \E o \in Save(r.disk, p, [Loaded(r.disk, p) EXCEPT !.rev = edits + 1], FALSE) :
                  disk' = o.disk
          ELSE disk' = r.disk
  BY DEF RenameOther
<1>2. edits + 1 \in 0 .. MaxEdits
  BY Parts, Constants DEF RenameOther
<1>3. CASE r.end = "ok" /\ Loaded(r.disk, p) \notin {None, Corrupt}
  <2>1. PICK o \in Save(r.disk, p, [Loaded(r.disk, p) EXCEPT !.rev = edits + 1], FALSE) :
                  disk' = o.disk
    BY <1>1, <1>3
  <2>2. QED  BY <1>2, <1>3, <2>1, RenameOtherEvolves
<1>4. CASE ~(r.end = "ok" /\ Loaded(r.disk, p) \notin {None, Corrupt})
  BY <1>1, <1>4, Parts, ReadSaves, SavesEvolves
<1>5. QED  BY <1>3, <1>4

LEMMA NextEvolves ==
  ASSUME IInv, Next
  PROVE  \E W : Reachable(W) /\ Evolved(disk, disk', W)
<1>1. PICK t \in Tabs :
        \/ Open(t) \/ Edit(t) \/ AutoSave(t) \/ SaveKey(t) \/ Close(t)
        \/ RenameCurrent(t) \/ DeleteCurrent(t) \/ Reset(t)
        \/ \E p \in Projects :
              Switch(t, p) \/ RenameOther(t, p) \/ DeleteOther(t, p) \/ NewProject(t, p)
  BY DEF Next
<1>2. Reachable({}) /\ Evolved(disk, disk, {})
  BY Parts, SavesNothing, SavesEvolves DEF Reachable
<1>3. app[t] \in Tab /\ app[t].project \in Projects
  BY Parts DEF Tab
<1>4. CASE Open(t)
  <2>1. PICK o \in ReadIndex(disk) : disk' = o.disk
    BY <1>4 DEF Open
  <2>2. Evolved(disk, disk', {})
    BY <2>1, Parts, ReadSaves, SavesEvolves
  <2>3. QED  BY <1>2, <2>2
<1>5. CASE Edit(t) \/ Reset(t)
  <2>1. disk' = disk
    BY <1>5 DEF Edit, Reset
  <2>2. QED  BY <1>2, <2>1
<1>6. CASE AutoSave(t) \/ SaveKey(t)
  <2>1. app[t].open /\ \E o \in Persist(disk, app[t]) : disk' = o.disk
    BY <1>6 DEF AutoSave, SaveKey
  <2>2. QED  BY <2>1, PersistEvolves
<1>7. CASE Close(t)
  <2>1. PICK o \in IF app[t].recovery \/ app[t].paused THEN {Dead(disk)}
                   ELSE Save(disk, app[t].project, app[t].content, TRUE) :
          disk' = o.disk
    BY <1>7 DEF Close
  <2>2. CASE app[t].recovery \/ app[t].paused
    <3>1. o = Dead(disk)
      BY <2>2
    <3>2. disk' = disk
      BY <2>1, <3>1 DEF Dead
    <3>3. QED  BY <1>2, <3>2
  <2>3. CASE ~(app[t].recovery \/ app[t].paused)
    <3>1. o \in Persist(disk, app[t]) /\ app[t].open
      BY <1>7, <2>1, <2>3 DEF Persist, Close
    <3>2. QED  BY <2>1, <3>1, PersistEvolves
  <2>4. QED  BY <2>2, <2>3
<1>8. CASE RenameCurrent(t)
  BY <1>8, RenamedEvolves
<1>9. CASE DeleteCurrent(t)
  <2>1. PICK o \in Clear(disk, app[t].project) : disk' = o.disk
    BY <1>9 DEF DeleteCurrent
  <2>2. Evolved(disk, disk', {})
    BY <1>3, <2>1, Parts, ClearEvolves
  <2>3. QED  BY <1>2, <2>2
<1>10. ASSUME NEW p \in Projects,
              Switch(t, p) \/ RenameOther(t, p) \/ DeleteOther(t, p) \/ NewProject(t, p)
       PROVE  \E W : Reachable(W) /\ Evolved(disk, disk', W)
  <2>1. CASE Switch(t, p)
    BY <2>1, SwitchEvolves
  <2>2. CASE RenameOther(t, p)
    BY <1>2, <2>2, RenameOtherWrites
  <2>3. CASE DeleteOther(t, p)
    <3>1. PICK o \in Clear(disk, p) : disk' = o.disk
      BY <2>3 DEF DeleteOther
    <3>2. Evolved(disk, disk', {})
      BY <3>1, Parts, ClearEvolves
    <3>3. QED  BY <1>2, <3>2
  <2>4. CASE NewProject(t, p)
    BY <2>4, NewProjectEvolves
  <2>5. QED  BY <1>10, <2>1, <2>2, <2>3, <2>4
<1>11. QED  BY <1>1, <1>4, <1>5, <1>6, <1>7, <1>8, <1>9, <1>10

\* The work of a tab that leaves its project is on the disk, and stays there
\* while the other project is activated or stored.
LEMMA LeavingStep ==
  ASSUME IInv, NEW t \in Tabs, NEW p \in Projects, Switch(t, p) \/ NewProject(t, p),
         app'[t] # app[t], app'[t].open, ~app[t].paused
  PROVE  disk'.items[app[t].project] = app[t].content
<1> DEFINE q == app[t].project
<1>1. /\ app[t] \in Tab /\ TabOK(app[t], disk, fresh, gone) /\ app[t].open
      /\ q \in Projects /\ app[t].content \in Content
  BY Parts DEF Switch, NewProject, Usable, Tab
<1>2. ASSUME NEW s, Unchanged(t, s)
      PROVE  FALSE
  <2>1. app'[t] \in {app[t], Closed}
    BY <1>2, Parts DEF Unchanged, Continue
  <2>2. QED  BY <2>1 DEF Closed
<1>3. ASSUME NEW s \in Persist(disk, app[t]), s.end = "ok"
      PROVE  Good(s.disk) /\ s.disk.items[q] = app[t].content /\ Settled(s.disk)
  BY <1>1, <1>3, Persisted DEF Saves
<1>4. CASE Switch(t, p)
  <2>1. PICK s \in Persist(disk, app[t]) :
          s.end = "ok" /\ \E o \in Activate(s.disk, p) : disk' = o.disk
    BY <1>2, <1>4 DEF Switch
  <2>2. disk'.items = s.disk.items
    BY <1>3, <2>1, ActivateKeeps
  <2>3. QED  BY <1>3, <2>1, <2>2
<1>5. CASE NewProject(t, p)
  <2>1. PICK s \in Persist(disk, app[t]) :
          s.end = "ok" /\ \E o \in Save(s.disk, p, Pristine, TRUE) : disk' = o.disk
    BY <1>2, <1>5 DEF NewProject
  <2>2. q # p
    BY <1>1, <1>5 DEF NewProject, TabOK
  <2>3. Untouched(s.disk, disk', q)
    <3>1. Good(s.disk) /\ Pristine \in Content
      BY <1>3, <2>1, PristineContent
    <3>2. PICK activate \in BOOLEAN : \E o \in Save(s.disk, p, Pristine, activate) : disk' = o.disk
      BY <2>1
    <3>3. QED  BY <1>1, <2>2, <3>1, <3>2, SaveKeeps
  <2>4. s.disk.items[q] = app[t].content /\ app[t].content # None
    BY <1>1, <1>3, <2>1, Constants
  <2>5. QED  BY <2>3, <2>4 DEF Untouched
<1>6. QED  BY <1>4, <1>5

-----------------------------------------------------------------------------
(* Theorems.                                                               *)

LEMMA Invariance == Spec => []IInv
<1>1. Init => IInv
  BY InitialState
<1>2. IInv /\ [Next]_vars => IInv'
  BY NextStep
<1>3. QED  BY <1>1, <1>2, PTL DEF Spec

\* Whatever write is refused and whichever tab dies, localStorage and the tabs
\* hold what they are declared to hold.
THEOREM TypeCorrect == Spec => []TypeOK
<1>1. IInv => TypeOK
  BY DEF IInv
<1>2. QED  BY <1>1, Invariance, PTL

\* A project that was saved can be found until it is deleted: save(), clear()
\* and the migration of the old slot write in an order in which no refused
\* write and no death of a tab takes it out of reach (projectStorage.ts).
THEOREM SavedStaysFindable == Spec => []SavedIsFindable
<1>1. IInv => SavedIsFindable
  BY DEF IInv
<1>2. QED  BY <1>1, Invariance, PTL

\* The index never names a project twice, and its active project is listed,
\* after any series of saves, deletions, switches and interrupted migrations.
THEOREM IndexStaysSound == Spec => []IndexIsSound
<1>1. IInv => IndexIsSound
  BY DEF IInv, Good, SoundIndex, NoneTwice, IndexIsSound
<1>2. QED  BY <1>1, Invariance, PTL

\* No save, armed, on leaving or by a rename, brings back a project that was
\* deleted while no other tab showed it (App.tsx pauses storage first).
THEOREM DeletedIsNotRevived == Spec => []DeletedStaysDeleted
<1>1. IInv => DeletedStaysDeleted
  BY DEF IInv, Absent, Stored, DeletedStaysDeleted
<1>2. QED  BY <1>1, Invariance, PTL

\* A tab that goes to another project has stored its work, and neither the
\* activation of the other nor the save of a new one takes it away again.
THEOREM LeavingSavesTheWork == Spec => LeavingSaves
<1> DEFINE A == \A t \in Tabs, p \in Projects :
                  /\ Switch(t, p) \/ NewProject(t, p)
                  /\ app'[t] # app[t] /\ app'[t].open /\ ~app[t].paused
                  => disk'.items[app[t].project] = app[t].content
<1>1. IInv /\ [Next]_vars => [A]_vars
  BY LeavingStep
<1>2. QED  BY <1>1, Invariance, PTL DEF Spec, LeavingSaves

\* The demo on the screen in place of a project that cannot be read is never
\* stored in its place, by any of the saves.
THEOREM StandInIsHarmless == Spec => StandInReplacesNothing
<1> DEFINE A == \A p \in Projects \ {Demo} :
                  Unreadable(disk.items[p])
                     => disk'.items[p] = None \/ Unreadable(disk'.items[p])
<1>1. ASSUME IInv, Next PROVE A
  <2>1. PICK W : Reachable(W) /\ Evolved(disk, disk', W)
    BY <1>1, NextEvolves
  <2>2. QED  BY <2>1 DEF Reachable, Evolved
<1>2. IInv /\ [Next]_vars => [A]_vars
  BY <1>1
<1>3. QED  BY <1>2, Invariance, PTL DEF Spec, StandInReplacesNothing
=============================================================================
