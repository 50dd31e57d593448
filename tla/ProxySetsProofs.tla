--------------------------- MODULE ProxySetsProofs ---------------------------
(***************************************************************************)
(* Proofs about ProxySets, for all finite sets of nodes, every content of  *)
(* the sources and any number of edits.                                    *)
(***************************************************************************)
EXTENDS ProxySets, FiniteSetTheorems, SequenceTheorems, WellFoundedInduction, TLAPS

-----------------------------------------------------------------------------
(* Induction, and the existence of recursive functions.                    *)

(* A set of natural numbers that is not empty has a least element.         *)
LEMMA LeastNatural ==
  ASSUME NEW T \in SUBSET Nat, T # {}
  PROVE  \E n \in T : \A m \in T : n <= m
<1> DEFINE R == OpToRel(<, Nat)
<1>1. IsWellFoundedOn(R, Nat)
  BY NatLessThanWellFounded
<1>2. \A x, y \in Nat : x < y => <<x, y>> \in R
  BY DEF OpToRel
<1> HIDE DEF R
<1>3. PICK n \in T : \A m \in T : ~(<<m, n>> \in R)
  BY <1>1, WFMin
<1>4. \A m \in T : ~(m < n)
  BY <1>2, <1>3
<1>5. QED  BY <1>4

(* Induction up to n: a set that holds 0 and every successor holds 0 .. n. *)
LEMMA InductionUpTo ==
  ASSUME NEW n \in Nat, NEW S, 0 \in S, \A m \in 0 .. n - 1 : m \in S => m + 1 \in S
  PROVE  \A m \in 0 .. n : m \in S
<1> DEFINE T == {m \in 0 .. n : m \notin S}
<1>1. SUFFICES ASSUME T # {} PROVE FALSE
  OBVIOUS
<1>2. T \in SUBSET Nat
  OBVIOUS
<1>3. PICK m \in T : \A k \in T : m <= k
  <2> HIDE DEF T
  <2>1. QED  BY <1>1, <1>2, LeastNatural
<1>4. m \in 1 .. n /\ m \notin S
  OBVIOUS
<1>5. m - 1 \in 0 .. n - 1 /\ m - 1 \notin T
  <2>1. m - 1 \in 0 .. n - 1
    BY <1>4
  <2> HIDE DEF T
  <2>2. QED  BY <1>2, <1>3, <2>1
<1>6. QED  BY <1>4, <1>5

(* Induction on a measure: Z holds all of D when it holds whatever has all *)
(* that is smaller in it.                                                  *)
LEMMA MeasureInduction ==
  ASSUME NEW D, NEW mu \in [D -> Nat], NEW Z,
         \A d \in D : (\A e \in D : mu[e] < mu[d] => e \in Z) => d \in Z
  PROVE  \A d \in D : d \in Z
<1> DEFINE T == {mu[d] : d \in D \ Z}
<1>1. SUFFICES ASSUME T # {} PROVE FALSE
  OBVIOUS
<1>2. T \in SUBSET Nat
  OBVIOUS
<1>3. PICK m \in T : \A k \in T : m <= k
  <2> HIDE DEF T
  <2>1. QED  BY <1>1, <1>2, LeastNatural
<1>4. PICK d \in D \ Z : mu[d] = m
  OBVIOUS
<1>5. \A e \in D : mu[e] < mu[d] => e \in Z
  <2> SUFFICES ASSUME NEW e \in D, mu[e] < mu[d], e \notin Z PROVE FALSE
    OBVIOUS
  <2>1. mu[e] \in T
    OBVIOUS
  <2> HIDE DEF T
  <2>2. mu[e] \in Nat /\ mu[d] \in Nat /\ m <= mu[e]
    BY <1>3, <2>1
  <2>3. QED  BY <1>4, <2>2
<1>6. QED  BY <1>4, <1>5

(* The sequences of N steps in X from b, the k-th of them as T says.       *)
Steps(N, X) == [(1 .. N) \X X -> X]
Iterates(N, X, b, T) ==
  {f \in [0 .. N -> X] : f[0] = b /\ \A k \in 1 .. N : f[k] = T[<<k, f[k - 1]>>]}

(* There is such a sequence.                                               *)
LEMMA Iteration ==
  ASSUME NEW N \in Nat, NEW X, NEW b \in X, NEW T \in Steps(N, X)
  PROVE  Iterates(N, X, b, T) # {}
<1> USE DEF Steps
<1> DEFINE Fits(n, f) == f[0] = b /\ \A k \in 1 .. n : f[k] = T[<<k, f[k - 1]>>]
           S == {n \in 0 .. N : \E f \in [0 .. n -> X] : Fits(n, f)}
<1>1. 0 \in S
  <2> DEFINE f == [k \in 0 .. 0 |-> b]
  <2>1. f \in [0 .. 0 -> X] /\ Fits(0, f)
    OBVIOUS
  <2> HIDE DEF f, Fits
  <2>2. QED  BY <2>1
<1>2. ASSUME NEW n \in 0 .. N - 1, n \in S
      PROVE  n + 1 \in S
  <2>1. PICK f \in [0 .. n -> X] : Fits(n, f)
    <3> HIDE DEF Fits
    <3>1. QED  BY <1>2
  <2> DEFINE x == T[<<n + 1, f[n]>>]
             g == [k \in 0 .. n + 1 |-> IF k = n + 1 THEN x ELSE f[k]]
  <2>2. x \in X
    OBVIOUS
  <2> HIDE DEF x
  <2>3. g \in [0 .. n + 1 -> X]
    BY <2>2
  <2>4. \A k \in 0 .. n : g[k] = f[k]
    OBVIOUS
  <2>5. g[n + 1] = x
    OBVIOUS
  <2> HIDE DEF g
  <2>6. ASSUME NEW k \in 1 .. n + 1 PROVE g[k] = T[<<k, g[k - 1]>>]
    <3>1. CASE k = n + 1
      <4>1. g[k - 1] = f[n] /\ g[k] = x
        BY <2>4, <2>5, <3>1
      <4>2. QED  BY <3>1, <4>1 DEF x
    <3>2. CASE k # n + 1
      <4>1. k \in 1 .. n /\ k - 1 \in 0 .. n
        BY <3>2
      <4>2. g[k] = f[k] /\ g[k - 1] = f[k - 1]
        BY <2>4, <4>1
      <4>3. QED  BY <2>1, <4>1, <4>2
    <3>3. QED  BY <3>1, <3>2
  <2>7. g[0] = b
    BY <2>1, <2>4
  <2>8. Fits(n + 1, g)
    BY <2>6, <2>7
  <2> HIDE DEF Fits
  <2>9. QED  BY <2>3, <2>8
<1> HIDE DEF S
<1>3. \A n \in 0 .. N : n \in S
  BY <1>1, <1>2, InductionUpTo
<1>4. N \in S
  BY <1>3
<1>5. PICK f \in [0 .. N -> X] : Fits(N, f)
  BY <1>4 DEF S
<1>6. QED  BY <1>5 DEF Iterates

(* The recursive definitions of a function from D to X: the value at d, by *)
(* the function.  Those that only use it where the measure mu is smaller.  *)
Rules(D, X) == [D \X [D -> X] -> X]
Descends(D, X, mu, T) ==
  \A d \in D : \A g, h \in [D -> X] :
     (\A e \in D : mu[e] < mu[d] => g[e] = h[e]) => T[<<d, g>>] = T[<<d, h>>]
Solutions(D, X, T) == {f \in [D -> X] : \A d \in D : f[d] = T[<<d, f>>]}

(* Such a definition has a solution if the measure is bounded.             *)
LEMMA Recursion ==
  ASSUME NEW D, NEW X, X # {}, NEW mu \in [D -> Nat], NEW M \in Nat,
         \A d \in D : mu[d] <= M,
         NEW T \in Rules(D, X), Descends(D, X, mu, T)
  PROVE  Solutions(D, X, T) # {}
<1> USE DEF Rules, Descends
<1> DEFINE F == [D -> X]
           Step == [kf \in (1 .. M + 1) \X F |-> [d \in D |-> T[<<d, kf[2]>>]]]
<1>1. PICK b \in F : TRUE
  <2>1. PICK x \in X : TRUE
    OBVIOUS
  <2>2. [d \in D |-> x] \in F
    OBVIOUS
  <2>3. QED  BY <2>2
<1>2. \A f \in F : [d \in D |-> T[<<d, f>>]] \in F
  OBVIOUS
<1>3. Step \in [(1 .. M + 1) \X F -> F] /\ M + 1 \in Nat
  BY <1>2
<1>4. PICK a \in [0 .. M + 1 -> F] :
         a[0] = b /\ \A k \in 1 .. M + 1 : a[k] = Step[<<k, a[k - 1]>>]
  <2>1. b \in F /\ Step \in Steps(M + 1, F)
    BY <1>3 DEF Steps
  <2> HIDE DEF Step, F
  <2>2. Iterates(M + 1, F, b, Step) # {}
    BY <1>3, <2>1, Iteration
  <2>3. QED  BY <2>2 DEF Iterates
<1>5. \A k \in 1 .. M + 1 : a[k] = [d \in D |-> T[<<d, a[k - 1]>>]]
  <2> SUFFICES ASSUME NEW k \in 1 .. M + 1 PROVE a[k] = [d \in D |-> T[<<d, a[k - 1]>>]]
    OBVIOUS
  <2>1. a[k - 1] \in F
    OBVIOUS
  <2>2. Step[<<k, a[k - 1]>>] = [d \in D |-> T[<<d, a[k - 1]>>]]
    BY <2>1
  <2> HIDE DEF Step
  <2>3. QED  BY <1>4, <2>2
<1> HIDE DEF Step
<1> DEFINE Same(k) == \A d \in D : mu[d] < k => a[k][d] = a[k + 1][d]
           S == {k \in 0 .. M : Same(k)}
<1>6. 0 \in S
  OBVIOUS
<1>7. ASSUME NEW k \in 0 .. M - 1, k \in S
      PROVE  k + 1 \in S
  <2>1. \A d \in D : mu[d] < k => a[k][d] = a[k + 1][d]
    BY <1>7
  <2>2. k + 1 \in 1 .. M + 1 /\ k + 2 \in 1 .. M + 1 /\ k \in 0 .. M + 1
        /\ (k + 1) - 1 = k /\ (k + 2) - 1 = k + 1 /\ (k + 1) + 1 = k + 2 /\ k + 1 \in 0 .. M
    OBVIOUS
  <2>3. ASSUME NEW d \in D, mu[d] < k + 1 PROVE a[k + 1][d] = a[k + 2][d]
    <3>1. a[k + 1][d] = T[<<d, a[k]>>] /\ a[k + 2][d] = T[<<d, a[k + 1]>>]
      <4>1. a[k + 1] = [e \in D |-> T[<<e, a[k]>>]] /\ a[k + 2] = [e \in D |-> T[<<e, a[k + 1]>>]]
        <5> HIDE DEF S
        <5>1. QED  BY <1>5, <2>2
      <4>2. QED  BY <4>1
    <3>2. a[k] \in F /\ a[k + 1] \in F
      BY <2>2
    <3>3. \A e \in D : mu[e] < mu[d] => a[k][e] = a[k + 1][e]
      <4>1. \A e \in D : mu[e] < mu[d] => mu[e] < k
        BY <2>3
      <4>2. QED  BY <2>1, <4>1
    <3>4. T[<<d, a[k]>>] = T[<<d, a[k + 1]>>]
      BY <3>2, <3>3
    <3>5. QED  BY <3>1, <3>4
  <2>4. QED  BY <2>2, <2>3
<1>8. M \in S
  <2> HIDE DEF S
  <2>1. QED  BY <1>6, <1>7, InductionUpTo
<1>9. \A d \in D : mu[d] < M => a[M][d] = a[M + 1][d]
  BY <1>8
<1>10. a[M + 1] \in F /\ a[M] \in F
  OBVIOUS
<1>11. ASSUME NEW d \in D PROVE a[M + 1][d] = T[<<d, a[M + 1]>>]
  <2>1. a[M + 1][d] = T[<<d, a[M]>>]
    <3>1. M + 1 \in 1 .. M + 1 /\ (M + 1) - 1 = M
      OBVIOUS
    <3>2. a[M + 1] = [e \in D |-> T[<<e, a[M]>>]]
      BY <1>5, <3>1
    <3>3. QED  BY <3>2
  <2>2. \A e \in D : mu[e] < mu[d] => a[M][e] = a[M + 1][e]
    <3>1. \A e \in D : mu[e] < mu[d] => mu[e] < M
      OBVIOUS
    <3>2. QED  BY <1>9, <3>1
  <2>3. T[<<d, a[M]>>] = T[<<d, a[M + 1]>>]
    BY <1>10, <2>2
  <2>4. QED  BY <2>1, <2>3
<1>12. QED  BY <1>10, <1>11 DEF Solutions

(* A function on 0 .. N that goes as T says wherever it is in X is in X.   *)
LEMMA IsIterate ==
  ASSUME NEW N \in Nat, NEW X, NEW b \in X, NEW T \in Steps(N, X),
         NEW g, g = [k \in 0 .. N |-> g[k]], g[0] = b,
         \A k \in 1 .. N : g[k - 1] \in X => g[k] = T[<<k, g[k - 1]>>]
  PROVE  g \in Iterates(N, X, b, T)
<1> DEFINE S == {k \in 0 .. N : g[k] \in X}
<1>1. 0 \in S
  OBVIOUS
<1>2. ASSUME NEW k \in 0 .. N - 1, k \in S
      PROVE  k + 1 \in S
  <2>1. k + 1 \in 1 .. N /\ (k + 1) - 1 = k /\ g[k] \in X
    BY <1>2
  <2>2. g[k + 1] = T[<<k + 1, g[k]>>]
    BY <2>1
  <2>3. T[<<k + 1, g[k]>>] \in X
    BY <2>1 DEF Steps
  <2>4. QED  BY <2>1, <2>2, <2>3
<1> HIDE DEF S
<1>3. \A k \in 0 .. N : k \in S
  BY <1>1, <1>2, InductionUpTo
<1>4. \A k \in 0 .. N : g[k] \in X
  BY <1>3 DEF S
<1>5. g \in [0 .. N -> X]
  BY <1>4
<1>6. \A k \in 1 .. N : g[k] = T[<<k, g[k - 1]>>]
  <2>1. \A k \in 1 .. N : k - 1 \in 0 .. N
    OBVIOUS
  <2>2. QED  BY <1>4, <2>1
<1>7. QED  BY <1>5, <1>6 DEF Iterates

-----------------------------------------------------------------------------
(* Sequences.                                                              *)

(* The length and the elements of a sequence.                              *)
LEMMA Elements ==
  ASSUME NEW S, NEW s \in Seq(S)
  PROVE  /\ Len(s) \in Nat /\ DOMAIN s = 1 .. Len(s) /\ \A i \in 1 .. Len(s) : s[i] \in S
         /\ ToSet(s) \subseteq S
BY LenProperties, ElementOfSeq DEF ToSet

(* What is appended is added to the elements.                              *)
LEMMA AppendedSet ==
  ASSUME NEW S, NEW s \in Seq(S), NEW e \in S
  PROVE  ToSet(Append(s, e)) = ToSet(s) \cup {e}
<1> DEFINE t == Append(s, e)
<1>1. /\ t \in Seq(S) /\ Len(t) = Len(s) + 1 /\ Len(s) \in Nat
      /\ \A i \in 1 .. Len(s) : t[i] = s[i]
      /\ t[Len(s) + 1] = e
  BY AppendProperties, Elements
<1>2. /\ ToSet(t) = {t[i] : i \in 1 .. Len(s) + 1}
      /\ ToSet(s) = {s[i] : i \in 1 .. Len(s)}
  <2> HIDE DEF t
  <2>1. QED  BY <1>1, Elements DEF ToSet
<1> HIDE DEF t
<1>3. 1 .. Len(s) + 1 = (1 .. Len(s)) \cup {Len(s) + 1}
  BY <1>1
<1>4. ToSet(t) = ToSet(s) \cup {e}
  BY <1>1, <1>2, <1>3
<1>5. QED  BY <1>4 DEF t

(* Array.filter, step by step.                                             *)
KeepingRuns(S, s, W) ==
  {kept \in [0 .. Len(s) -> Seq(S)] :
     /\ kept[0] = <<>>
     /\ \A k \in 1 .. Len(s) :
           kept[k] = IF s[k] \in W THEN Append(kept[k - 1], s[k]) ELSE kept[k - 1]
     /\ Keeping(s, W) = kept[Len(s)]}

(* There is the walk along the sequence that Keeping is the end of.        *)
LEMMA KeepingSteps ==
  ASSUME NEW S, NEW s \in Seq(S), NEW W
  PROVE  KeepingRuns(S, s, W) # {}
<1> DEFINE N == Len(s)
           X == Seq(S)
           T == [ki \in (1 .. N) \X X |->
                   IF s[ki[1]] \in W THEN Append(ki[2], s[ki[1]]) ELSE ki[2]]
           body(g) == [k \in 0 .. N |->
                         IF k = 0 THEN <<>>
                         ELSE LET before == g[k - 1]
                              IN  IF s[k] \in W THEN Append(before, s[k]) ELSE before]
           kept == CHOOSE g : g = body(g)
<1>1. N \in Nat /\ \A k \in 1 .. N : s[k] \in S
  BY Elements
<1>2. <<>> \in X
  OBVIOUS
<1>3. \A k \in 1 .. N : \A x \in X : Append(x, s[k]) \in X
  BY <1>1
<1>4. T \in Steps(N, X)
  BY <1>3 DEF Steps
<1>5. \A k \in 1 .. N : \A x \in X :
         T[<<k, x>>] = IF s[k] \in W THEN Append(x, s[k]) ELSE x
  OBVIOUS
<1> HIDE DEF N, X, T
<1>6. PICK f \in Iterates(N, X, <<>>, T) : TRUE
  BY <1>1, <1>2, <1>4, Iteration
<1>7. f = body(f)
  <2>1. f \in [0 .. N -> X] /\ f[0] = <<>> /\ \A k \in 1 .. N : f[k] = T[<<k, f[k - 1]>>]
    BY DEF Iterates
  <2>2. ASSUME NEW k \in 0 .. N
        PROVE  f[k] = IF k = 0 THEN <<>>
                      ELSE IF s[k] \in W THEN Append(f[k - 1], s[k]) ELSE f[k - 1]
    <3>1. CASE k = 0
      BY <2>1, <3>1
    <3>2. CASE k # 0
      <4>1. k \in 1 .. N /\ k - 1 \in 0 .. N
        BY <1>1, <3>2
      <4>2. f[k - 1] \in X /\ f[k] = T[<<k, f[k - 1]>>]
        BY <2>1, <4>1
      <4>3. QED  BY <1>5, <3>2, <4>1, <4>2
    <3>3. QED  BY <3>1, <3>2
  <2>3. QED  BY <2>1, <2>2
<1>8. kept = body(kept)
  <2> HIDE DEF body
  <2>1. QED  BY <1>7
<1> HIDE DEF kept
<1>9. /\ kept = [k \in 0 .. N |-> kept[k]] /\ kept[0] = <<>>
      /\ \A k \in 1 .. N : kept[k] = IF s[k] \in W THEN Append(kept[k - 1], s[k]) ELSE kept[k - 1]
  <2>1. 0 \in 0 .. N /\ \A k \in 1 .. N : k \in 0 .. N /\ k # 0
    BY <1>1
  <2>2. QED  BY <1>8, <2>1
<1>10. \A k \in 1 .. N : kept[k - 1] \in X => kept[k] = T[<<k, kept[k - 1]>>]
  BY <1>5, <1>9
<1> HIDE DEF body
<1>11. kept \in Iterates(N, X, <<>>, T)
  BY <1>1, <1>2, <1>4, <1>9, <1>10, IsIterate
<1>12. kept \in [0 .. N -> X]
  BY <1>11 DEF Iterates
<1>13. Keeping(s, W) = kept[N]
  BY DEF Keeping, kept, body, N
<1>14. QED  BY <1>9, <1>12, <1>13 DEF N, X, KeepingRuns

(* Array.filter keeps the elements that are in W, and no others.           *)
LEMMA KeepingWorks ==
  ASSUME NEW S, NEW s \in Seq(S), NEW W
  PROVE  Keeping(s, W) \in Seq(S) /\ ToSet(Keeping(s, W)) = ToSet(s) \cap W
<1>1. PICK kept \in [0 .. Len(s) -> Seq(S)] :
         /\ kept[0] = <<>>
         /\ \A k \in 1 .. Len(s) :
               kept[k] = IF s[k] \in W THEN Append(kept[k - 1], s[k]) ELSE kept[k - 1]
         /\ Keeping(s, W) = kept[Len(s)]
  <2>1. KeepingRuns(S, s, W) # {}
    BY KeepingSteps
  <2>2. QED  BY <2>1 DEF KeepingRuns
<1> DEFINE Right(k) == ToSet(kept[k]) = {s[i] : i \in 1 .. k} \cap W
           Z == {k \in 0 .. Len(s) : Right(k)}
<1>2. Len(s) \in Nat /\ (\A i \in 1 .. Len(s) : s[i] \in S) /\ ToSet(s) = {s[i] : i \in 1 .. Len(s)}
  BY Elements DEF ToSet
<1>3. 0 \in Z
  BY <1>1, <1>2 DEF ToSet
<1>4. ASSUME NEW k \in 0 .. Len(s) - 1, k \in Z
      PROVE  k + 1 \in Z
  <2>1. k + 1 \in 1 .. Len(s) /\ (k + 1) - 1 = k /\ k \in 0 .. Len(s) /\ k + 1 \in 0 .. Len(s)
    BY <1>2
  <2> DEFINE e == s[k + 1]
             before == kept[k]
  <2>2. kept[k + 1] = IF e \in W THEN Append(before, e) ELSE before
    BY <1>1, <2>1
  <2>3. before \in Seq(S) /\ e \in S
    BY <1>1, <1>2, <2>1
  <2>4. {s[i] : i \in 1 .. k + 1} = {s[i] : i \in 1 .. k} \cup {e}
    <3>1. 1 .. k + 1 = (1 .. k) \cup {k + 1}
      BY <2>1
    <3>2. QED  BY <3>1
  <2>5. ToSet(before) = {s[i] : i \in 1 .. k} \cap W
    BY <1>4
  <2> HIDE DEF e, before
  <2>6. ToSet(Append(before, e)) = ToSet(before) \cup {e}
    BY <2>3, AppendedSet
  <2>7. ToSet(kept[k + 1]) = {s[i] : i \in 1 .. k + 1} \cap W
    <3>1. CASE e \in W
      BY <2>2, <2>4, <2>5, <2>6, <3>1
    <3>2. CASE e \notin W
      BY <2>2, <2>4, <2>5, <3>2
    <3>3. QED  BY <3>1, <3>2
  <2>8. QED  BY <2>1, <2>7
<1> HIDE DEF Z
<1>5. Len(s) \in Z
  <2>1. \A k \in 0 .. Len(s) : k \in Z
    BY <1>2, <1>3, <1>4, InductionUpTo
  <2>2. QED  BY <1>2, <2>1
<1>6. ToSet(Keeping(s, W)) = ToSet(s) \cap W
  BY <1>1, <1>2, <1>5 DEF Z
<1>7. QED  BY <1>1, <1>2, <1>6

(* Without its later copies, a sequence has the same kind of elements.     *)
LEMMA FirstOfEachType ==
  ASSUME NEW S, NEW s \in Seq(S), NEW key
  PROVE  FirstOfEach(s, key) \in Seq(S)
<1> DEFINE Has(x, e) == \E i \in DOMAIN x : key[x[i]] = key[e]
           N == Len(s)
           X == Seq(S)
           T == [ki \in (1 .. N) \X X |->
                   IF Has(ki[2], s[ki[1]]) THEN ki[2] ELSE Append(ki[2], s[ki[1]])]
           body(g) == [k \in 0 .. N |->
                         IF k = 0 THEN <<>>
                         ELSE LET before == g[k - 1]
                              IN  IF Has(before, s[k]) THEN before ELSE Append(before, s[k])]
           kept == CHOOSE g : g = body(g)
<1>1. N \in Nat /\ \A k \in 1 .. N : s[k] \in S
  BY Elements
<1>2. <<>> \in X
  OBVIOUS
<1>3. \A k \in 1 .. N : \A x \in X : Append(x, s[k]) \in X
  BY <1>1
<1>4. T \in Steps(N, X)
  BY <1>3 DEF Steps
<1>5. \A k \in 1 .. N : \A x \in X :
         T[<<k, x>>] = IF Has(x, s[k]) THEN x ELSE Append(x, s[k])
  OBVIOUS
<1> HIDE DEF N, X, T, Has
<1>6. PICK f \in Iterates(N, X, <<>>, T) : TRUE
  BY <1>1, <1>2, <1>4, Iteration
<1>7. f = body(f)
  <2>1. f \in [0 .. N -> X] /\ f[0] = <<>> /\ \A k \in 1 .. N : f[k] = T[<<k, f[k - 1]>>]
    BY DEF Iterates
  <2>2. ASSUME NEW k \in 0 .. N
        PROVE  f[k] = IF k = 0 THEN <<>>
                      ELSE IF Has(f[k - 1], s[k]) THEN f[k - 1] ELSE Append(f[k - 1], s[k])
    <3>1. CASE k = 0
      BY <2>1, <3>1
    <3>2. CASE k # 0
      <4>1. k \in 1 .. N /\ k - 1 \in 0 .. N
        BY <1>1, <3>2
      <4>2. f[k - 1] \in X /\ f[k] = T[<<k, f[k - 1]>>]
        BY <2>1, <4>1
      <4>3. QED  BY <1>5, <3>2, <4>1, <4>2
    <3>3. QED  BY <3>1, <3>2
  <2>3. QED  BY <2>1, <2>2
<1>8. kept = body(kept)
  <2> HIDE DEF body
  <2>1. QED  BY <1>7
<1> HIDE DEF kept
<1>9. /\ kept = [k \in 0 .. N |-> kept[k]] /\ kept[0] = <<>>
      /\ \A k \in 1 .. N :
            kept[k] = IF Has(kept[k - 1], s[k]) THEN kept[k - 1] ELSE Append(kept[k - 1], s[k])
  <2>1. 0 \in 0 .. N /\ \A k \in 1 .. N : k \in 0 .. N /\ k # 0
    BY <1>1
  <2>2. QED  BY <1>8, <2>1
<1>10. \A k \in 1 .. N : kept[k - 1] \in X => kept[k] = T[<<k, kept[k - 1]>>]
  BY <1>5, <1>9
<1> HIDE DEF body
<1>11. kept \in Iterates(N, X, <<>>, T)
  BY <1>1, <1>2, <1>4, <1>9, <1>10, IsIterate
<1>12. kept \in [0 .. N -> X]
  BY <1>11 DEF Iterates
<1>13. FirstOfEach(s, key) = kept[N]
  BY DEF FirstOfEach, kept, body, N, Has
<1>14. QED  BY <1>1, <1>12, <1>13 DEF X

(* A sequence of sequences put one after the other.                        *)
LEMMA FlattenSeqType ==
  ASSUME NEW S, NEW seqs \in Seq(Seq(S))
  PROVE  FlattenSeq(seqs) \in Seq(S)
<1>1. Len(seqs) \in Nat /\ \A k \in 1 .. Len(seqs) : seqs[k] \in Seq(S)
  BY Elements
<1>2. CASE Len(seqs) = 0
  <2>1. seqs = <<>>
    BY <1>2, EmptySeq
  <2>2. FlattenSeq(seqs) = seqs
    BY <1>2 DEF FlattenSeq
  <2>3. QED  BY <2>1, <2>2, EmptySeq
<1>3. CASE Len(seqs) # 0
  <2> DEFINE N == Len(seqs) - 1
             X == Seq(S)
             T == [ki \in (1 .. N) \X X |-> ki[2] \o seqs[ki[1] + 1]]
             body(g) == [i \in 1 .. Len(seqs) |-> IF i = 1 THEN seqs[i] ELSE g[i - 1] \o seqs[i]]
             flatten == CHOOSE g : g = body(g)
  <2>1. N \in Nat /\ Len(seqs) = N + 1 /\ seqs[1] \in X
    BY <1>1, <1>3
  <2>2. \A k \in 1 .. N : seqs[k + 1] \in X
    BY <1>1
  <2>3. \A k \in 1 .. N : \A x \in X : x \o seqs[k + 1] \in X
    BY <2>2, ConcatProperties
  <2>4. T \in Steps(N, X)
    BY <2>3 DEF Steps
  <2>5. \A k \in 1 .. N : \A x \in X : T[<<k, x>>] = x \o seqs[k + 1]
    OBVIOUS
  <2> HIDE DEF N, X, T
  <2>6. PICK f \in Iterates(N, X, seqs[1], T) : TRUE
    BY <2>1, <2>4, Iteration
  <2> DEFINE h == [i \in 1 .. Len(seqs) |-> f[i - 1]]
  <2>7. h = body(h)
    <3>1. f \in [0 .. N -> X] /\ f[0] = seqs[1] /\ \A k \in 1 .. N : f[k] = T[<<k, f[k - 1]>>]
      BY DEF Iterates
    <3>2. ASSUME NEW i \in 1 .. Len(seqs)
          PROVE  h[i] = IF i = 1 THEN seqs[i] ELSE h[i - 1] \o seqs[i]
      <4>1. CASE i = 1
        BY <2>1, <3>1, <4>1
      <4>2. CASE i # 1
        <5>1. i - 1 \in 1 .. N /\ i - 1 \in 1 .. Len(seqs) /\ (i - 1) - 1 \in 0 .. N /\ (i - 1) + 1 = i
          BY <2>1, <4>2
        <5>2. h[i] = f[i - 1] /\ h[i - 1] = f[(i - 1) - 1]
          BY <5>1
        <5>3. f[i - 1] = T[<<i - 1, f[(i - 1) - 1]>>] /\ f[(i - 1) - 1] \in X
          BY <3>1, <5>1
        <5> HIDE DEF h
        <5>4. f[i - 1] = f[(i - 1) - 1] \o seqs[i]
          BY <2>5, <5>1, <5>3
        <5>5. QED  BY <4>2, <5>2, <5>4
      <4>3. QED  BY <4>1, <4>2
    <3>3. h = [i \in 1 .. Len(seqs) |-> h[i]]
      OBVIOUS
    <3> HIDE DEF h
    <3>4. QED  BY <3>2, <3>3
  <2>8. flatten = body(flatten)
    <3> HIDE DEF body, h
    <3>1. QED  BY <2>7
  <2> HIDE DEF flatten, h
  <2> DEFINE g == [k \in 0 .. N |-> flatten[k + 1]]
  <2>9. flatten[1] = seqs[1] /\ \A k \in 1 .. N : flatten[k + 1] = flatten[(k + 1) - 1] \o seqs[k + 1]
    <3>1. 1 \in 1 .. Len(seqs) /\ \A k \in 1 .. N : k + 1 \in 1 .. Len(seqs) /\ k + 1 # 1
      BY <2>1
    <3>2. QED  BY <2>8, <3>1
  <2>10. /\ g[0] = seqs[1] /\ g = [k \in 0 .. N |-> g[k]]
         /\ \A k \in 1 .. N : g[k] = g[k - 1] \o seqs[k + 1]
    <3>1. 0 \in 0 .. N /\ g[0] = flatten[1] /\ g = [k \in 0 .. N |-> g[k]]
      BY <2>1
    <3>2. ASSUME NEW k \in 1 .. N PROVE g[k] = g[k - 1] \o seqs[k + 1]
      <4>1. k \in 0 .. N /\ k - 1 \in 0 .. N /\ (k - 1) + 1 = k /\ (k + 1) - 1 = k
        BY <2>1
      <4>2. g[k] = flatten[k + 1] /\ g[k - 1] = flatten[k]
        BY <4>1
      <4> HIDE DEF g, body
      <4>3. QED  BY <2>9, <4>1, <4>2
    <3> HIDE DEF g
    <3>3. QED  BY <2>9, <3>1, <3>2
  <2> HIDE DEF g, body
  <2>11. \A k \in 1 .. N : g[k - 1] \in X => g[k] = T[<<k, g[k - 1]>>]
    BY <2>5, <2>10
  <2>12. g \in Iterates(N, X, seqs[1], T)
    BY <2>1, <2>4, <2>10, <2>11, IsIterate
  <2>13. g \in [0 .. N -> X]
    BY <2>12 DEF Iterates
  <2>14. FlattenSeq(seqs) = flatten[Len(seqs)]
    BY <1>3 DEF FlattenSeq, flatten, body
  <2>15. flatten[Len(seqs)] = g[N]
    BY <2>1 DEF g
  <2>16. QED  BY <2>1, <2>13, <2>14, <2>15 DEF X
<1>4. QED  BY <1>2, <1>3

(* A function on 1 .. n is a sequence of length n.                         *)
LEMMA FunctionSeq ==
  ASSUME NEW S, NEW n \in Nat, NEW f \in [1 .. n -> S]
  PROVE  f \in Seq(S) /\ Len(f) = n
<1>1. f \in Seq(S)
  BY SeqDef
<1>2. Len(f) \in Nat /\ DOMAIN f = 1 .. Len(f)
  BY <1>1, LenProperties
<1>3. 1 .. n = 1 .. Len(f)
  BY <1>2
<1>4. Len(f) = n
  BY <1>2, <1>3
<1>5. QED  BY <1>1, <1>4

(* One element is removed and nothing is added.                            *)
LEMMA Removal ==
  ASSUME NEW S, NEW s \in Seq(S), NEW p \in 1 .. Len(s)
  PROVE  RemoveAt(s, p) \in Seq(S) /\ ToSet(RemoveAt(s, p)) \subseteq ToSet(s)
<1> DEFINE a == SubSeq(s, 1, p - 1)
           b == SubSeq(s, p + 1, Len(s))
           t == a \o b
<1>1. Len(s) \in Nat /\ \A i \in 1 .. Len(s) : s[i] \in ToSet(s)
  BY Elements DEF ToSet
<1>2. a \in Seq(ToSet(s))
  <2>1. p - 1 \in Int /\ \A i \in 1 .. p - 1 : s[i] \in ToSet(s)
    BY <1>1
  <2>2. QED  BY <2>1, SubSeqProperties
<1>3. b \in Seq(ToSet(s))
  <2>1. p + 1 \in Int /\ Len(s) \in Int /\ \A i \in p + 1 .. Len(s) : s[i] \in ToSet(s)
    BY <1>1
  <2>2. QED  BY <2>1, SubSeqProperties
<1> HIDE DEF a, b
<1>4. t \in Seq(ToSet(s))
  BY <1>2, <1>3, ConcatProperties
<1>5. RemoveAt(s, p) = t
  BY DEF RemoveAt, a, b
<1> HIDE DEF t
<1>6. t \in Seq(S)
  BY <1>4, Elements, SeqMonotonic
<1>7. ToSet(t) \subseteq ToSet(s)
  BY <1>4, Elements
<1>8. QED  BY <1>5, <1>6, <1>7

(* One sequence after the other has the elements of both.                  *)
LEMMA Joined ==
  ASSUME NEW S, NEW s \in Seq(S), NEW t \in Seq(S)
  PROVE  s \o t \in Seq(S) /\ ToSet(s \o t) = ToSet(s) \cup ToSet(t)
<1> DEFINE u == s \o t
<1>1. /\ u \in Seq(S) /\ Len(u) = Len(s) + Len(t) /\ Len(s) \in Nat /\ Len(t) \in Nat
      /\ \A i \in 1 .. Len(s) + Len(t) : u[i] = IF i <= Len(s) THEN s[i] ELSE t[i - Len(s)]
  BY ConcatProperties, Elements
<1> HIDE DEF u
<1>2. /\ ToSet(u) = {u[i] : i \in 1 .. Len(s) + Len(t)}
      /\ ToSet(s) = {s[i] : i \in 1 .. Len(s)} /\ ToSet(t) = {t[i] : i \in 1 .. Len(t)}
  BY <1>1, Elements DEF ToSet
<1>3. ToSet(u) \subseteq ToSet(s) \cup ToSet(t)
  <2> SUFFICES ASSUME NEW i \in 1 .. Len(s) + Len(t) PROVE u[i] \in ToSet(s) \cup ToSet(t)
    BY <1>2
  <2>1. CASE i <= Len(s)
    BY <1>1, <1>2, <2>1
  <2>2. CASE ~(i <= Len(s))
    <3>1. i - Len(s) \in 1 .. Len(t)
      BY <1>1, <2>2
    <3>2. QED  BY <1>1, <1>2, <2>2, <3>1
  <2>3. QED  BY <2>1, <2>2
<1>4. ToSet(s) \subseteq ToSet(u)
  <2> SUFFICES ASSUME NEW i \in 1 .. Len(s) PROVE s[i] \in ToSet(u)
    BY <1>2
  <2>1. i \in 1 .. Len(s) + Len(t) /\ u[i] = s[i]
    BY <1>1
  <2>2. QED  BY <1>2, <2>1
<1>5. ToSet(t) \subseteq ToSet(u)
  <2> SUFFICES ASSUME NEW i \in 1 .. Len(t) PROVE t[i] \in ToSet(u)
    BY <1>2
  <2>1. /\ i + Len(s) \in 1 .. Len(s) + Len(t) /\ ~(i + Len(s) <= Len(s))
        /\ (i + Len(s)) - Len(s) = i
    BY <1>1
  <2>2. u[i + Len(s)] = t[i]
    BY <1>1, <2>1
  <2>3. QED  BY <1>2, <2>1, <2>2
<1>6. QED  BY <1>1, <1>3, <1>4, <1>5 DEF u

-----------------------------------------------------------------------------
(* The types of the state.                                                 *)

(* An edge between nodes is an edge.                                       *)
LEMMA EdgeType ==
  ASSUME NEW a \in Nodes, NEW b \in Nodes
  PROVE  Edge(a, b) \in Edges /\ Edge(a, b).from = a /\ Edge(a, b).to = b
BY DEF Edge, Edges

(* The inputs a user may pick are sequences of nodes.                      *)
LEMMA PicksType ==
  ASSUME NEW inputs \in Picks
  PROVE  inputs \in Seq(Nodes)
<1>1. CASE inputs = <<>>
  BY <1>1, EmptySeq
<1>2. CASE \E a \in Nodes : inputs = <<a>>
  BY <1>2
<1>3. CASE \E p \in Nodes \X Nodes : inputs = <<p[1], p[2]>>
  BY <1>3
<1>4. QED  BY <1>1, <1>2, <1>3 DEF Picks

(* The edges that setWorkspaceInputs adds.                                 *)
LEMMA NewEdges ==
  ASSUME NEW n \in Nodes, NEW inputs \in Seq(Nodes)
  PROVE  LET new == [k \in DOMAIN inputs |-> Edge(inputs[k], n)]
         IN  new \in Seq(Edges) /\ ToSet(new) = {Edge(a, n) : a \in ToSet(inputs)}
<1> DEFINE new == [k \in DOMAIN inputs |-> Edge(inputs[k], n)]
<1>1. Len(inputs) \in Nat /\ DOMAIN inputs = 1 .. Len(inputs) /\ \A k \in 1 .. Len(inputs) : inputs[k] \in Nodes
  BY Elements
<1>2. new \in [1 .. Len(inputs) -> Edges]
  BY <1>1, EdgeType
<1>3. \A k \in DOMAIN inputs : new[k] = Edge(inputs[k], n)
  OBVIOUS
<1>4. DOMAIN new = DOMAIN inputs
  OBVIOUS
<1> HIDE DEF new
<1>5. new \in Seq(Edges)
  BY <1>1, <1>2, FunctionSeq
<1>6. ToSet(new) = {Edge(a, n) : a \in ToSet(inputs)}
  BY <1>3, <1>4 DEF ToSet
<1>7. QED  BY <1>5, <1>6 DEF new

(* A swap keeps the number of edges; each of them is between nodes.        *)
LEMMA SwappedType ==
  ASSUME NEW s \in Seq(Edges), NEW u \in Nodes, NEW d \in Nodes
  PROVE  Swapped(s, u, d) \in Seq(Edges) /\ DOMAIN Swapped(s, u, d) = DOMAIN s
<1> DEFINE t == Swapped(s, u, d)
<1>1. Len(s) \in Nat /\ DOMAIN s = 1 .. Len(s) /\ \A k \in DOMAIN s : s[k] \in Edges
  BY Elements
<1>2. \A k \in DOMAIN s : s[k].from \in Nodes /\ s[k].to \in Nodes
  BY <1>1 DEF Edges
<1>3. DOMAIN t = DOMAIN s /\ t = [k \in DOMAIN s |-> t[k]]
  BY DEF Swapped
<1>4. ASSUME NEW k \in DOMAIN s PROVE t[k] \in Edges
  <2>1. t[k] \in {Edge(s[k].from, d), Edge(d, u), Edge(u, s[k].to), s[k]}
    BY DEF Swapped
  <2> HIDE DEF t
  <2>2. QED  BY <1>1, <1>2, <2>1, EdgeType
<1> HIDE DEF t
<1>5. t \in [1 .. Len(s) -> Edges]
  BY <1>1, <1>3, <1>4
<1>6. t \in Seq(Edges)
  BY <1>1, <1>5, FunctionSeq
<1>7. QED  BY <1>3, <1>6 DEF t

(* The edges after any edit are edges again.                               *)
LEMMA EditsType ==
  ASSUME TypeOK, NEW es, SetEdges(es), es \in Seq(Edges)
  PROVE  TypeOK'
<1>1. edges' \in Seq(Edges) /\ UNCHANGED <<nodes, off, unresolved>> /\ Edit
  BY DEF SetEdges
<1>2. edits' \in 0 .. MaxEdits
  BY <1>1, BoundsAssumption DEF Edit, TypeOK
<1>3. QED  BY <1>1, <1>2 DEF TypeOK

(* Every state has its types.                                              *)
THEOREM TypeCorrect == Spec => []TypeOK
<1>1. Init => TypeOK
  <2> SUFFICES ASSUME Init PROVE TypeOK
    OBVIOUS
  <2>1. edges \in Seq(Edges)
    BY StartsAssumption DEF Init
  <2>2. 0 \in 0 .. MaxEdits
    BY BoundsAssumption
  <2>3. QED  BY <2>1, <2>2 DEF Init, TypeOK
<1>2. TypeOK /\ [Next]_vars => TypeOK'
  <2> SUFFICES ASSUME TypeOK, [Next]_vars PROVE TypeOK'
    OBVIOUS
  <2>1. edges \in Seq(Edges)
    BY DEF TypeOK
  <2>2. ASSUME NEW a \in Nodes, NEW b \in Nodes, Connect(a, b) PROVE TypeOK'
    <3>1. Append(edges, Edge(a, b)) \in Seq(Edges)
      BY <2>1, EdgeType, AppendProperties
    <3>2. QED  BY <2>2, <3>1, EditsType DEF Connect
  <2>3. ASSUME NEW k \in DOMAIN edges, Disconnect(k) PROVE TypeOK'
    <3>1. k \in 1 .. Len(edges)
      BY <2>1, Elements
    <3>2. RemoveAt(edges, k) \in Seq(Edges)
      BY <2>1, <3>1, Removal
    <3>3. QED  BY <2>3, <3>2, EditsType DEF Disconnect
  <2>4. ASSUME NEW n \in Nodes, NEW inputs \in Picks, SetInputs(n, inputs) PROVE TypeOK'
    <3> DEFINE elsewhere == Keeping(edges, [from : Nodes, to : Nodes \ {n}])
               new == [k \in DOMAIN inputs |-> Edge(inputs[k], n)]
    <3>1. elsewhere \in Seq(Edges)
      BY <2>1, KeepingWorks
    <3>2. new \in Seq(Edges)
      BY PicksType, NewEdges
    <3>3. SetEdges(elsewhere \o new)
      BY <2>4 DEF SetInputs
    <3> HIDE DEF elsewhere, new
    <3>4. elsewhere \o new \in Seq(Edges)
      BY <3>1, <3>2, Joined
    <3>5. QED  BY <3>3, <3>4, EditsType
  <2>5. ASSUME NEW u \in Transforms, NEW d \in Transforms, MoveStep(u, d) PROVE TypeOK'
    <3>1. u \in Nodes /\ d \in Nodes
      BY DEF Nodes
    <3>2. Swapped(edges, u, d) \in Seq(Edges)
      BY <2>1, <3>1, SwappedType
    <3>3. QED  BY <2>5, <3>2, EditsType DEF MoveStep
  <2>6. ASSUME NEW n \in Nodes, ToggleDisabled(n) PROVE TypeOK'
    <3>1. edits' \in 0 .. MaxEdits
      BY <2>6, BoundsAssumption DEF ToggleDisabled, Edit, TypeOK
    <3>2. off' \subseteq Nodes
      BY <2>6 DEF ToggleDisabled, TypeOK
    <3>3. QED  BY <2>6, <3>1, <3>2 DEF ToggleDisabled, TypeOK
  <2>7. ASSUME NEW n \in Nodes, RemoveNode(n) PROVE TypeOK'
    <3>1. edits' \in 0 .. MaxEdits
      BY <2>7, BoundsAssumption DEF RemoveNode, Edit, TypeOK
    <3>2. edges' \in Seq(Edges)
      BY <2>1, <2>7, KeepingWorks DEF RemoveNode
    <3>3. nodes' \subseteq Nodes
      BY <2>7 DEF RemoveNode, TypeOK
    <3>4. QED  BY <2>7, <3>1, <3>2, <3>3 DEF RemoveNode, TypeOK
  <2>8. CASE UNCHANGED vars
    BY <2>8 DEF vars, TypeOK
  <2>9. QED  BY <2>2, <2>3, <2>4, <2>5, <2>6, <2>7, <2>8 DEF Next
<1>3. QED  BY <1>1, <1>2, PTL DEF Spec

-----------------------------------------------------------------------------
(* Paths along edges.                                                      *)

(* The search for what is above n, round by round; there are as many       *)
(* rounds as nodes.                                                        *)
Searches(es, n) ==
  {reach \in [0 .. Cardinality(Nodes) -> SUBSET Nodes] :
     /\ reach[0] = Upstream(es, {n})
     /\ \A k \in 1 .. Cardinality(Nodes) : reach[k] = reach[k - 1] \cup Upstream(es, reach[k - 1])
     /\ Above(es, n) = reach[Cardinality(Nodes)]}

(* There is the search upwards that Above is the end of.                   *)
LEMMA SearchRuns ==
  ASSUME NEW es, es \subseteq Edges, NEW n
  PROVE  Searches(es, n) # {}
<1> DEFINE C == Cardinality(Nodes)
           X == SUBSET Nodes
           b == Upstream(es, {n})
           T == [ki \in (1 .. C) \X X |-> ki[2] \cup Upstream(es, ki[2])]
           body(g) == [k \in 0 .. C |-> IF k = 0 THEN b
                                        ELSE LET r == g[k - 1] IN r \cup Upstream(es, r)]
           reach == CHOOSE g : g = body(g)
<1>1. C \in Nat
  BY NodesAssumption, FS_CardinalityType
<1>2. \A S : Upstream(es, S) \in X
  BY DEF Upstream, Edges
<1>3. T \in Steps(C, X)
  BY <1>2 DEF Steps
<1>4. \A k \in 1 .. C : \A x \in X : T[<<k, x>>] = x \cup Upstream(es, x)
  OBVIOUS
<1>5. b \in X
  BY <1>2
<1> HIDE DEF C, X, T, b
<1>6. PICK f \in Iterates(C, X, b, T) : TRUE
  BY <1>1, <1>3, <1>5, Iteration
<1>7. f = body(f)
  <2>1. f \in [0 .. C -> X] /\ f[0] = b /\ \A k \in 1 .. C : f[k] = T[<<k, f[k - 1]>>]
    BY DEF Iterates
  <2>2. ASSUME NEW k \in 0 .. C
        PROVE  f[k] = IF k = 0 THEN b ELSE f[k - 1] \cup Upstream(es, f[k - 1])
    <3>1. CASE k = 0
      BY <2>1, <3>1
    <3>2. CASE k # 0
      <4>1. k \in 1 .. C /\ k - 1 \in 0 .. C
        BY <1>1, <3>2
      <4>2. f[k - 1] \in X /\ f[k] = T[<<k, f[k - 1]>>]
        BY <2>1, <4>1
      <4>3. QED  BY <1>4, <3>2, <4>1, <4>2
    <3>3. QED  BY <3>1, <3>2
  <2>3. QED  BY <2>1, <2>2
<1>8. reach = body(reach)
  <2> HIDE DEF body
  <2>1. QED  BY <1>7
<1> HIDE DEF reach
<1>9. /\ reach = [k \in 0 .. C |-> reach[k]] /\ reach[0] = b
      /\ \A k \in 1 .. C : reach[k] = reach[k - 1] \cup Upstream(es, reach[k - 1])
  <2>1. 0 \in 0 .. C /\ \A k \in 1 .. C : k \in 0 .. C /\ k # 0
    BY <1>1
  <2>2. QED  BY <1>8, <2>1
<1>10. \A k \in 1 .. C : reach[k - 1] \in X => reach[k] = T[<<k, reach[k - 1]>>]
  BY <1>4, <1>9
<1> HIDE DEF body
<1>11. reach \in Iterates(C, X, b, T)
  BY <1>1, <1>3, <1>5, <1>9, <1>10, IsIterate
<1>12. reach \in [0 .. C -> X]
  BY <1>11 DEF Iterates
<1>13. Above(es, n) = reach[C]
  BY DEF Above, reach, body, C, b
<1>14. QED  BY <1>9, <1>12, <1>13 DEF C, X, b, Searches

(* The edges of es that lead to n, or to a node of W, come from W.         *)
ClosedFrom(es, n, W) == \A e \in es : e.to = n \/ e.to \in W => e.from \in W

(* What is above n is the least set that is closed.                        *)
LEMMA AboveLeast ==
  ASSUME NEW es, es \subseteq Edges, NEW n, NEW W, ClosedFrom(es, n, W)
  PROVE  Above(es, n) \subseteq W
<1> DEFINE C == Cardinality(Nodes)
<1>0. PICK reach \in Searches(es, n) : TRUE
  BY SearchRuns
<1> DEFINE S == {k \in 0 .. C : reach[k] \subseteq W}
<1>1. /\ C \in Nat /\ Above(es, n) = reach[C]
      /\ reach[0] = Upstream(es, {n})
      /\ \A k \in 1 .. C : reach[k] = reach[k - 1] \cup Upstream(es, reach[k - 1])
  BY NodesAssumption, FS_CardinalityType DEF Searches
<1> HIDE DEF C
<1>2. Upstream(es, {n}) \subseteq W /\ \A r : r \subseteq W => Upstream(es, r) \subseteq W
  BY DEF ClosedFrom, Upstream
<1>3. 0 \in S
  BY <1>1, <1>2
<1>4. ASSUME NEW k \in 0 .. C - 1, k \in S PROVE k + 1 \in S
  <2>1. k + 1 \in 1 .. C /\ (k + 1) - 1 = k /\ k + 1 \in 0 .. C
    BY <1>1
  <2>2. reach[k + 1] = reach[k] \cup Upstream(es, reach[k])
    BY <1>1, <2>1
  <2>3. reach[k] \subseteq W
    BY <1>4
  <2>4. QED  BY <1>2, <2>1, <2>2, <2>3
<1> HIDE DEF S
<1>5. \A k \in 0 .. C : k \in S
  BY <1>1, <1>3, <1>4, InductionUpTo
<1>6. reach[C] \subseteq W
  BY <1>1, <1>5 DEF S
<1>7. QED  BY <1>1, <1>6

(* It is closed: after as many rounds as there are nodes, none is missing. *)
LEMMA AboveClosed ==
  ASSUME NEW es, es \subseteq Edges, NEW n
  PROVE  Above(es, n) \subseteq Nodes /\ ClosedFrom(es, n, Above(es, n))
<1> DEFINE C == Cardinality(Nodes)
<1>0. PICK reach \in Searches(es, n) : TRUE
  BY SearchRuns
<1> DEFINE Done(k) == Upstream(es, reach[k]) \subseteq reach[k]
           S == {k \in 0 .. C : Upstream(es, {n}) \subseteq reach[k] /\ (Done(k) \/ Cardinality(reach[k]) >= k)}
<1>1. /\ C \in Nat /\ Above(es, n) = reach[C]
      /\ reach \in [0 .. C -> SUBSET Nodes]
      /\ reach[0] = Upstream(es, {n})
      /\ \A k \in 1 .. C : reach[k] = reach[k - 1] \cup Upstream(es, reach[k - 1])
  BY NodesAssumption, FS_CardinalityType DEF Searches
<1> HIDE DEF C
<1>2. \A k \in 0 .. C : /\ reach[k] \subseteq Nodes /\ IsFiniteSet(reach[k])
                        /\ Cardinality(reach[k]) \in Nat
  BY <1>1, NodesAssumption, FS_Subset, FS_CardinalityType
<1>3. 0 \in S
  <2>1. 0 \in 0 .. C /\ Cardinality(reach[0]) >= 0
    BY <1>1, <1>2
  <2>2. QED  BY <1>1, <2>1
<1>4. ASSUME NEW k \in 0 .. C - 1, k \in S PROVE k + 1 \in S
  <2>1. k + 1 \in 1 .. C /\ (k + 1) - 1 = k /\ k + 1 \in 0 .. C /\ k \in 0 .. C
    BY <1>1
  <2>2. reach[k + 1] = reach[k] \cup Upstream(es, reach[k])
    BY <1>1, <2>1
  <2>3. Upstream(es, {n}) \subseteq reach[k + 1]
    BY <1>4, <2>2
  <2>4. CASE Done(k)
    <3>1. reach[k + 1] = reach[k]
      BY <2>2, <2>4
    <3>2. Done(k + 1)
      BY <2>4, <3>1
    <3>3. QED  BY <2>1, <2>3, <3>2
  <2>5. CASE ~Done(k)
    <3>1. Cardinality(reach[k]) >= k
      BY <1>4, <2>5
    <3>2. reach[k] \subseteq reach[k + 1] /\ reach[k] # reach[k + 1]
      BY <2>2, <2>5
    <3>3. Cardinality(reach[k]) <= Cardinality(reach[k + 1])
          /\ Cardinality(reach[k]) # Cardinality(reach[k + 1])
      BY <1>2, <2>1, <3>2, FS_Subset
    <3>4. Cardinality(reach[k + 1]) \in Nat /\ Cardinality(reach[k]) \in Nat
      BY <1>2, <2>1
    <3>5. Cardinality(reach[k + 1]) >= k + 1
      BY <2>1, <3>1, <3>3, <3>4
    <3>6. QED  BY <2>1, <2>3, <3>5
  <2>6. QED  BY <2>4, <2>5
<1> HIDE DEF S
<1>5. C \in S
  <2>1. \A k \in 0 .. C : k \in S
    BY <1>1, <1>3, <1>4, InductionUpTo
  <2>2. QED  BY <1>1, <2>1
<1>6. C \in 0 .. C /\ Upstream(es, {n}) \subseteq reach[C] /\ (Done(C) \/ Cardinality(reach[C]) >= C)
  BY <1>5 DEF S
<1>7. Done(C)
  <2>1. SUFFICES ASSUME Cardinality(reach[C]) >= C PROVE Done(C)
    BY <1>6
  <2>2. reach[C] \subseteq Nodes /\ Cardinality(reach[C]) <= Cardinality(Nodes)
        /\ (Cardinality(Nodes) = Cardinality(reach[C]) => Nodes = reach[C])
    BY <1>2, <1>6, NodesAssumption, FS_Subset
  <2>3. Cardinality(Nodes) = Cardinality(reach[C])
    <3>1. Cardinality(reach[C]) \in Nat
      BY <1>2, <1>6
    <3>2. QED  BY <1>1, <2>1, <2>2, <3>1 DEF C
  <2>4. reach[C] = Nodes
    BY <2>2, <2>3
  <2>5. QED  BY <2>4 DEF Upstream, Edges
<1>8. reach[C] \subseteq Nodes
  BY <1>2, <1>6
<1>9. ClosedFrom(es, n, reach[C])
  BY <1>6, <1>7 DEF ClosedFrom, Upstream
<1>10. QED  BY <1>1, <1>8, <1>9

(* With more edges, more is above.                                         *)
LEMMA AboveMonotone ==
  ASSUME NEW es, NEW fs, es \subseteq fs, fs \subseteq Edges, NEW n
  PROVE  Above(es, n) \subseteq Above(fs, n)
<1>1. ClosedFrom(fs, n, Above(fs, n)) /\ es \subseteq Edges
  BY AboveClosed
<1>2. ClosedFrom(es, n, Above(fs, n))
  BY <1>1 DEF ClosedFrom
<1>3. QED  BY <1>1, <1>2, AboveLeast

(* What is above a node above n is above n.                                *)
LEMMA AboveTransitive ==
  ASSUME NEW es, es \subseteq Edges, NEW n, NEW m \in Above(es, n)
  PROVE  Above(es, m) \subseteq Above(es, n)
<1>1. ClosedFrom(es, n, Above(es, n))
  BY AboveClosed
<1>2. ClosedFrom(es, m, Above(es, n))
  BY <1>1 DEF ClosedFrom
<1>3. QED  BY <1>2, AboveLeast

(* A path to n has a last edge ...                                         *)
LEMMA LastEdge ==
  ASSUME NEW es, es \subseteq Edges, NEW n, NEW x \in Above(es, n)
  PROVE  \E e \in es : e.to = n /\ (x = e.from \/ x \in Above(es, e.from))
<1> DEFINE W == {y \in Nodes : \E e \in es : e.to = n /\ (y = e.from \/ y \in Above(es, e.from))}
<1>1. ClosedFrom(es, n, W)
  <2> SUFFICES ASSUME NEW e \in es, e.to = n \/ e.to \in W PROVE e.from \in W
    BY DEF ClosedFrom
  <2>1. e.from \in Nodes
    BY DEF Edges
  <2>2. CASE e.to = n
    BY <2>1, <2>2
  <2>3. CASE e.to \in W
    <3>1. PICK f \in es : f.to = n /\ (e.to = f.from \/ e.to \in Above(es, f.from))
      BY <2>3
    <3>2. ClosedFrom(es, f.from, Above(es, f.from))
      BY AboveClosed
    <3>3. e.from \in Above(es, f.from)
      BY <3>1, <3>2 DEF ClosedFrom
    <3>4. QED  BY <2>1, <3>1, <3>3
  <2>4. QED  BY <2>2, <2>3
<1> HIDE DEF W
<1>2. x \in W
  BY <1>1, AboveLeast
<1>3. QED  BY <1>2 DEF W

(* ... and a first one.                                                    *)
LEMMA FirstEdge ==
  ASSUME NEW es, es \subseteq Edges, NEW n, NEW x \in Above(es, n)
  PROVE  \E e \in es : e.from = x /\ (e.to = n \/ e.to \in Above(es, n))
<1> DEFINE A == Above(es, n)
           W == {y \in A : \E e \in es : e.from = y /\ (e.to = n \/ e.to \in A)}
<1>1. ClosedFrom(es, n, A)
  BY AboveClosed
<1> HIDE DEF A
<1>2. ClosedFrom(es, n, W)
  BY <1>1 DEF ClosedFrom
<1> HIDE DEF W
<1>3. x \in W
  BY <1>2, AboveLeast DEF A
<1>4. QED  BY <1>3 DEF W, A

-----------------------------------------------------------------------------
(* The inputs of a node, and the edges the evaluation follows.             *)

(* The inputs of a node are the nodes that edges lead to it from.          *)
LEMMA IncomingType ==
  ASSUME TypeOK, NEW n \in Nodes
  PROVE  /\ incomingProxySetRefs(n) \in Seq(Nodes)
         /\ ToSet(incomingProxySetRefs(n)) = {e.from : e \in {x \in ToSet(edges) : x.to = n}}
<1> DEFINE W == [from : Nodes, to : {n}]
           into == Keeping(edges, W)
           refs == [k \in DOMAIN into |-> into[k].from]
<1>1. into \in Seq(Edges) /\ ToSet(into) = ToSet(edges) \cap W
  BY KeepingWorks DEF TypeOK
<1>2. ToSet(edges) \subseteq Edges
  BY Elements DEF TypeOK
<1>3. ToSet(edges) \cap W = {x \in ToSet(edges) : x.to = n}
  BY <1>2 DEF Edges
<1> HIDE DEF into, W
<1>4. Len(into) \in Nat /\ DOMAIN into = 1 .. Len(into) /\ \A k \in 1 .. Len(into) : into[k] \in Edges
  BY <1>1, Elements
<1>5. refs \in [1 .. Len(into) -> Nodes]
  BY <1>4 DEF Edges
<1>6. refs \in Seq(Nodes)
  BY <1>4, <1>5, FunctionSeq
<1>7. ToSet(refs) = {e.from : e \in ToSet(into)}
  BY DEF ToSet
<1>8. incomingProxySetRefs(n) = refs
  BY DEF incomingProxySetRefs, refs, into, W
<1>9. QED  BY <1>1, <1>3, <1>6, <1>7, <1>8

(* A compiled node has the inputs its edges give it.                       *)
LEMMA InputsType ==
  ASSUME TypeOK, NEW n \in Compiled
  PROVE  /\ n \in Transforms /\ n \in Nodes /\ n \notin Sources
         /\ InputsOf(n) \in Seq(Nodes)
         /\ \A i \in ToSet(InputsOf(n)) : i \in Nodes /\ Edge(i, n) \in ToSet(edges)
<1>1. n \in Transforms /\ n \in Nodes /\ n \notin Sources
  BY NodesAssumption DEF Compiled, Nodes
<1> DEFINE refs == incomingProxySetRefs(n)
<1>2. /\ refs \in Seq(Nodes)
      /\ ToSet(refs) = {e.from : e \in {x \in ToSet(edges) : x.to = n}}
  BY <1>1, IncomingType
<1>3. ToSet(edges) \subseteq Edges
  BY Elements DEF TypeOK
<1> HIDE DEF refs
<1>4. \A i \in ToSet(refs) : i \in Nodes /\ Edge(i, n) \in ToSet(edges)
  BY <1>2, <1>3 DEF Edge, Edges
<1>5. CASE n \in Merges
  BY <1>1, <1>2, <1>4, <1>5 DEF InputsOf, refs
<1>6. CASE n \notin Merges
  <2>1. PICK k \in DOMAIN edges : edges[k].to = n
    BY <1>6 DEF Compiled, To
  <2>2. edges[k] \in ToSet(edges)
    BY DEF ToSet
  <2>3. ToSet(refs) # {}
    BY <1>2, <2>1, <2>2
  <2>4. Len(refs) \in Nat /\ Len(refs) # 0
    <3>1. Len(refs) \in Nat /\ ToSet(refs) = {refs[i] : i \in 1 .. Len(refs)}
      BY <1>2, Elements DEF ToSet
    <3>2. Len(refs) = 0 => 1 .. Len(refs) = {}
      OBVIOUS
    <3>3. QED  BY <2>3, <3>1, <3>2
  <2>5. Head(refs) = refs[1] /\ 1 \in 1 .. Len(refs) /\ DOMAIN refs = 1 .. Len(refs)
    BY <1>2, <2>4, Elements
  <2>6. Head(refs) \in ToSet(refs)
    BY <2>5 DEF ToSet
  <2>7. InputsOf(n) = <<Head(refs)>>
    BY <1>6 DEF InputsOf, refs
  <2>8. <<Head(refs)>> \in Seq(Nodes) /\ ToSet(<<Head(refs)>>) = {Head(refs)}
    <3>1. Head(refs) \in Nodes
      BY <1>4, <2>6
    <3>2. ToSet(<<Head(refs)>>) = {Head(refs)}
      BY DEF ToSet
    <3>3. QED  BY <3>1, <3>2
  <2>9. QED  BY <1>1, <1>4, <2>6, <2>7, <2>8
<1>7. QED  BY <1>5, <1>6

(* The edges that the evaluation follows are edges.                        *)
LEMMA UsedEdges ==
  ASSUME TypeOK
  PROVE  /\ Used \subseteq Edges /\ Used \subseteq ToSet(edges)
         /\ \A e \in Used : e.to \in Compiled /\ e.from \in ToSet(InputsOf(e.to)) /\ e.from \in Nodes
         /\ \A n \in Compiled : \A i \in ToSet(InputsOf(n)) :
               Edge(i, n) \in Used /\ Edge(i, n).from = i /\ Edge(i, n).to = n
<1>1. ASSUME NEW n \in Compiled, NEW i \in ToSet(InputsOf(n))
      PROVE  /\ Edge(i, n) \in Edges /\ Edge(i, n) \in ToSet(edges) /\ i \in Nodes
             /\ Edge(i, n).from = i /\ Edge(i, n).to = n
  BY InputsType, EdgeType
<1>2. \A e \in Used : \E n \in Compiled : \E i \in ToSet(InputsOf(n)) : e = Edge(i, n)
  BY DEF Used
<1>3. \A n \in Compiled : \A i \in ToSet(InputsOf(n)) : Edge(i, n) \in Used
  BY DEF Used
<1>4. QED  BY <1>1, <1>2, <1>3

(* What is above a compiled node are its inputs and what is above them;    *)
(* nothing is above any other node.                                        *)
LEMMA AboveInputs ==
  ASSUME TypeOK, NEW n
  PROVE  /\ Above(Used, n) \subseteq Nodes
         /\ n \notin Compiled => Above(Used, n) = {}
         /\ n \in Compiled => \A i \in ToSet(InputsOf(n)) :
               i \in Above(Used, n) /\ Above(Used, i) \subseteq Above(Used, n)
         /\ \A x \in Above(Used, n) :
               \E i \in ToSet(InputsOf(n)) : n \in Compiled /\ (x = i \/ x \in Above(Used, i))
<1>1. /\ Used \subseteq Edges
      /\ \A e \in Used : e.to \in Compiled /\ e.from \in ToSet(InputsOf(e.to))
      /\ \A m \in Compiled : \A i \in ToSet(InputsOf(m)) :
            Edge(i, m) \in Used /\ Edge(i, m).from = i /\ Edge(i, m).to = m
  BY UsedEdges
<1>2. Above(Used, n) \subseteq Nodes /\ ClosedFrom(Used, n, Above(Used, n))
  BY <1>1, AboveClosed
<1>3. \A x \in Above(Used, n) : \E e \in Used : e.to = n /\ (x = e.from \/ x \in Above(Used, e.from))
  BY <1>1, LastEdge
<1>4. \A x \in Above(Used, n) :
         \E i \in ToSet(InputsOf(n)) : n \in Compiled /\ (x = i \/ x \in Above(Used, i))
  BY <1>1, <1>3
<1>5. ASSUME n \in Compiled, NEW i \in ToSet(InputsOf(n))
      PROVE  i \in Above(Used, n) /\ Above(Used, i) \subseteq Above(Used, n)
  <2>1. i \in Above(Used, n)
    BY <1>1, <1>2, <1>5 DEF ClosedFrom
  <2>2. QED  BY <1>1, <2>1, AboveTransitive
<1>6. QED  BY <1>2, <1>4, <1>5

-----------------------------------------------------------------------------
(* What flows to a set.                                                    *)

Answers == [status : {"ready", "error"}, proxies : Seq(Proxies)]

(* A limit, a deduplicate and a merge make a sequence of proxies of one.   *)
LEMMA ProcessedType ==
  ASSUME NEW n, NEW s \in Seq(Proxies)
  PROVE  Processed(n, s) \in Seq(Proxies)
<1> DEFINE m == IF Len(s) < MaxProxies THEN Len(s) ELSE MaxProxies
<1>1. Len(s) \in Nat /\ MaxProxies \in Nat /\ \A i \in 1 .. Len(s) : s[i] \in Proxies
  BY Elements, BoundsAssumption
<1>2. SubSeq(s, 1, m) \in Seq(Proxies)
  <2>1. m \in Int /\ \A i \in 1 .. m : s[i] \in Proxies
    BY <1>1
  <2> HIDE DEF m
  <2>2. QED  BY <2>1, SubSeqProperties
<1>3. FirstOfEach(s, Fingerprint) \in Seq(Proxies)
  BY FirstOfEachType
<1>4. QED  BY <1>2, <1>3 DEF Processed

(* The sequences of the inputs, one after the other and processed.         *)
LEMMA JoinedType ==
  ASSUME TypeOK, NEW n \in Compiled, NEW f,
         \A i \in ToSet(InputsOf(n)) : f[i] \in Seq(Proxies)
  PROVE  Processed(n, FlattenSeq([k \in DOMAIN InputsOf(n) |-> f[InputsOf(n)[k]]])) \in Seq(Proxies)
<1> DEFINE inputs == InputsOf(n)
           all == [k \in DOMAIN inputs |-> f[inputs[k]]]
<1>1. Len(inputs) \in Nat /\ DOMAIN inputs = 1 .. Len(inputs)
  BY InputsType, Elements
<1>2. \A k \in DOMAIN inputs : inputs[k] \in ToSet(inputs)
  BY DEF ToSet
<1> HIDE DEF inputs
<1>3. all \in [1 .. Len(inputs) -> Seq(Proxies)]
  BY <1>1, <1>2 DEF inputs
<1> HIDE DEF all
<1>4. all \in Seq(Seq(Proxies))
  BY <1>1, <1>3, FunctionSeq
<1>5. Processed(n, FlattenSeq(all)) \in Seq(Proxies)
  BY <1>4, FlattenSeqType, ProcessedType
<1>6. QED  BY <1>5 DEF all, inputs

(* One step of the recursion of flow.                                      *)
FromAbove(above, g, i) ==
  IF Above(Used, i) \subseteq above /\ Above(Used, i) # above THEN g[Above(Used, i)][i] ELSE <<>>
FlowStep(above, g) ==
  [n \in Nodes |->
     CASE n \in Sources -> Content[n]
       [] n \in Compiled -> Processed(n, FlattenSeq([k \in DOMAIN InputsOf(n) |-> FromAbove(above, g, InputsOf(n)[k])]))
       [] OTHER -> <<>>]
Flows == [Nodes -> Seq(Proxies)]
Smaller(a, b) == a \in SUBSET Nodes /\ Cardinality(a) < Cardinality(b)

(* A part of a finite set is smaller than it.                              *)
LEMMA StrictlySmaller ==
  ASSUME NEW b \in SUBSET Nodes, NEW a, a \subseteq b, a # b
  PROVE  Smaller(a, b)
<1>1. IsFiniteSet(b) /\ a \in SUBSET b
  BY NodesAssumption, FS_Subset
<1>2. /\ IsFiniteSet(a) /\ Cardinality(a) <= Cardinality(b)
      /\ Cardinality(b) = Cardinality(a) => b = a
  BY <1>1, FS_Subset
<1>3. Cardinality(a) \in Nat /\ Cardinality(b) \in Nat
  BY <1>1, <1>2, FS_CardinalityType
<1>4. QED  BY <1>2, <1>3 DEF Smaller

(* A step of the flow gives sequences of proxies.                          *)
LEMMA FlowStepType ==
  ASSUME TypeOK, NEW above \in SUBSET Nodes, NEW g,
         \A a \in SUBSET Nodes : Smaller(a, above) => g[a] \in Flows
  PROVE  FlowStep(above, g) \in Flows
<1>1. \A i \in Nodes : FromAbove(above, g, i) \in Seq(Proxies)
  <2> SUFFICES ASSUME NEW i \in Nodes PROVE FromAbove(above, g, i) \in Seq(Proxies)
    OBVIOUS
  <2> DEFINE a == Above(Used, i)
  <2>1. a \in SUBSET Nodes
    BY AboveInputs
  <2>2. CASE a \subseteq above /\ a # above
    <3>1. Smaller(a, above)
      BY <2>2, StrictlySmaller
    <3>2. g[a] \in Flows
      BY <2>1, <3>1
    <3> HIDE DEF a
    <3>3. g[a][i] \in Seq(Proxies)
      BY <3>2 DEF Flows
    <3>4. FromAbove(above, g, i) = g[a][i]
      BY <2>2 DEF FromAbove, a
    <3>5. QED  BY <3>3, <3>4
  <2>3. CASE ~(a \subseteq above /\ a # above)
    BY <2>3, EmptySeq DEF FromAbove
  <2>4. QED  BY <2>2, <2>3
<1> DEFINE f == [i \in Nodes |-> FromAbove(above, g, i)]
<1>2. ASSUME NEW n \in Compiled
      PROVE  Processed(n, FlattenSeq([k \in DOMAIN InputsOf(n) |-> FromAbove(above, g, InputsOf(n)[k])])) \in Seq(Proxies)
  <2>1. \A i \in ToSet(InputsOf(n)) : i \in Nodes
    BY InputsType
  <2>2. \A i \in ToSet(InputsOf(n)) : f[i] \in Seq(Proxies)
    BY <1>1, <2>1
  <2>3. \A k \in DOMAIN InputsOf(n) : f[InputsOf(n)[k]] = FromAbove(above, g, InputsOf(n)[k])
    BY <2>1 DEF ToSet
  <2> HIDE DEF f
  <2>4. [k \in DOMAIN InputsOf(n) |-> f[InputsOf(n)[k]]]
        = [k \in DOMAIN InputsOf(n) |-> FromAbove(above, g, InputsOf(n)[k])]
    BY <2>3
  <2>5. Processed(n, FlattenSeq([k \in DOMAIN InputsOf(n) |-> f[InputsOf(n)[k]]])) \in Seq(Proxies)
    BY <2>2, JoinedType
  <2>6. QED  BY <2>4, <2>5
<1>3. \A n \in Sources : Content[n] \in Seq(Proxies)
  BY ContentAssumption
<1>4. <<>> \in Seq(Proxies)
  BY EmptySeq
<1>5. QED  BY <1>2, <1>3, <1>4 DEF FlowStep, Flows

(* A step of the flow looks only at sets with less above them.             *)
LEMMA FlowStepDescends ==
  ASSUME NEW above \in SUBSET Nodes, NEW g, NEW h,
         \A a \in SUBSET Nodes : Smaller(a, above) => g[a] = h[a]
  PROVE  FlowStep(above, g) = FlowStep(above, h)
<1>1. \A i : FromAbove(above, g, i) = FromAbove(above, h, i)
  <2> SUFFICES ASSUME NEW i PROVE FromAbove(above, g, i) = FromAbove(above, h, i)
    OBVIOUS
  <2>1. CASE Above(Used, i) \subseteq above /\ Above(Used, i) # above
    <3>1. Smaller(Above(Used, i), above)
      BY <2>1, StrictlySmaller
    <3>2. g[Above(Used, i)] = h[Above(Used, i)]
      BY <2>1, <3>1
    <3>3. QED  BY <3>2 DEF FromAbove
  <2>2. CASE ~(Above(Used, i) \subseteq above /\ Above(Used, i) # above)
    BY <2>2 DEF FromAbove
  <2>3. QED  BY <2>1, <2>2
<1>2. \A n : [k \in DOMAIN InputsOf(n) |-> FromAbove(above, g, InputsOf(n)[k])]
             = [k \in DOMAIN InputsOf(n) |-> FromAbove(above, h, InputsOf(n)[k])]
  BY <1>1
<1>3. QED  BY <1>2 DEF FlowStep

(* flow is what its definition says, and gives proxies to every node.      *)
LEMMA FlowDefined ==
  ASSUME TypeOK
  PROVE  /\ \A above \in SUBSET Nodes : flow[above] = FlowStep(above, flow)
         /\ flow \in [SUBSET Nodes -> Flows]
<1> DEFINE D == SUBSET Nodes
           mu == [a \in D |-> Cardinality(a)]
           M == Cardinality(Nodes)
           T == [ag \in D \X [D -> Flows] |-> FlowStep(ag[1], ag[2])]
<1>1. /\ M \in Nat /\ \A a \in D : Cardinality(a) \in Nat /\ Cardinality(a) <= M
  BY NodesAssumption, FS_CardinalityType, FS_Subset
<1>2. mu \in [D -> Nat] /\ \A a \in D : mu[a] <= M
  BY <1>1
<1>3. \A a \in D : \A g \in [D -> Flows] : T[<<a, g>>] = FlowStep(a, g) /\ FlowStep(a, g) \in Flows
  <2>1. \A a \in D : \A g \in [D -> Flows] : FlowStep(a, g) \in Flows
    <3> SUFFICES ASSUME NEW a \in D, NEW g \in [D -> Flows] PROVE FlowStep(a, g) \in Flows
      OBVIOUS
    <3>1. \A e \in SUBSET Nodes : g[e] \in Flows
      OBVIOUS
    <3> HIDE DEF T, mu, M
    <3>2. QED  BY <3>1, FlowStepType
  <2>2. QED  BY <2>1
<1>4. T \in Rules(D, Flows)
  BY <1>3 DEF Rules
<1>5. \A a, e \in D : mu[e] < mu[a] <=> Smaller(e, a)
  BY DEF Smaller
<1>6. Flows # {}
  <2>1. [n \in Nodes |-> <<>>] \in Flows
    BY EmptySeq DEF Flows
  <2>2. QED  BY <2>1
<1> HIDE DEF T, mu, M
<1>7. Descends(D, Flows, mu, T)
  <2> SUFFICES ASSUME NEW a \in D, NEW g \in [D -> Flows], NEW h \in [D -> Flows],
                      \A e \in D : mu[e] < mu[a] => g[e] = h[e]
               PROVE  T[<<a, g>>] = T[<<a, h>>]
    BY DEF Descends
  <2>1. \A e \in SUBSET Nodes : Smaller(e, a) => g[e] = h[e]
    BY <1>5
  <2>2. FlowStep(a, g) = FlowStep(a, h)
    BY <2>1, FlowStepDescends
  <2>3. QED  BY <1>3, <2>2
<1>8. PICK f \in Solutions(D, Flows, T) : TRUE
  <2> HIDE DEF D
  <2>1. QED  BY <1>1, <1>2, <1>4, <1>6, <1>7, Recursion
<1> DEFINE body(g) == [above \in D |-> FlowStep(above, g)]
<1>9. f = body(f)
  BY <1>3 DEF Solutions
<1>10. flow = CHOOSE g : g = body(g)
  BY DEF flow, FlowStep, FromAbove
<1>11. flow = body(flow)
  <2> HIDE DEF body
  <2>1. QED  BY <1>9, <1>10
<1>12. \A a \in D : flow[a] = FlowStep(a, flow)
  BY <1>11
<1> DEFINE Z == {a \in D : flow[a] \in Flows}
<1>13. ASSUME NEW a \in D, \A e \in D : mu[e] < mu[a] => e \in Z
       PROVE  a \in Z
  <2>1. \A e \in SUBSET Nodes : Smaller(e, a) => flow[e] \in Flows
    BY <1>5, <1>13
  <2>2. FlowStep(a, flow) \in Flows
    BY <2>1, FlowStepType
  <2>3. QED  BY <1>12, <2>2
<1>14. \A a \in D : a \in Z
  <2> HIDE DEF D, Z
  <2>1. QED  BY <1>2, <1>13, MeasureInduction
<1>15. flow \in [D -> Flows]
  BY <1>11, <1>14
<1>16. QED  BY <1>12, <1>15

(* What flows to a compiled node is what flows to its inputs, processed,   *)
(* if no input lies on a cycle.                                            *)
LEMMA FlowOfInputs ==
  ASSUME TypeOK, NEW n \in Compiled,
         \A i \in ToSet(InputsOf(n)) : ~OnACycle(i)
  PROVE  Flow(n) = Processed(n, FlattenSeq([k \in DOMAIN InputsOf(n) |-> Flow(InputsOf(n)[k])]))
<1> DEFINE above == Above(Used, n)
<1>1. above \in SUBSET Nodes /\ n \in Nodes /\ n \notin Sources
  BY AboveInputs, InputsType
<1>2. flow[above] = FlowStep(above, flow)
  BY <1>1, FlowDefined
<1>3. \A k \in DOMAIN InputsOf(n) : FromAbove(above, flow, InputsOf(n)[k]) = Flow(InputsOf(n)[k])
  <2> SUFFICES ASSUME NEW k \in DOMAIN InputsOf(n)
               PROVE  FromAbove(above, flow, InputsOf(n)[k]) = Flow(InputsOf(n)[k])
    OBVIOUS
  <2> DEFINE i == InputsOf(n)[k]
  <2>1. i \in ToSet(InputsOf(n))
    BY DEF ToSet
  <2> HIDE DEF i
  <2>2. i \in above /\ Above(Used, i) \subseteq above
    BY <2>1, AboveInputs
  <2>3. i \notin Above(Used, i)
    BY <2>1 DEF OnACycle
  <2>4. Above(Used, i) # above
    BY <2>2, <2>3
  <2>5. FromAbove(above, flow, i) = Flow(i)
    BY <2>2, <2>4 DEF FromAbove, Flow
  <2>6. QED  BY <2>5 DEF i
<1> HIDE DEF above
<1>4. [k \in DOMAIN InputsOf(n) |-> FromAbove(above, flow, InputsOf(n)[k])]
      = [k \in DOMAIN InputsOf(n) |-> Flow(InputsOf(n)[k])]
  BY <1>3
<1>5. FlowStep(above, flow)[n]
      = Processed(n, FlattenSeq([k \in DOMAIN InputsOf(n) |-> FromAbove(above, flow, InputsOf(n)[k])]))
  BY <1>1 DEF FlowStep
<1>6. QED  BY <1>2, <1>4, <1>5 DEF Flow, above

(* What flows from a source is its content.                                *)
LEMMA FlowOfSource ==
  ASSUME TypeOK, NEW n \in Sources
  PROVE  Flow(n) = Content[n]
<1> DEFINE above == Above(Used, n)
<1>1. above \in SUBSET Nodes /\ n \in Nodes
  BY AboveInputs DEF Nodes
<1>2. flow[above] = FlowStep(above, flow)
  BY <1>1, FlowDefined
<1>3. FlowStep(above, flow)[n] = Content[n]
  <2>1. n \notin Compiled
    BY InputsType
  <2>2. QED  BY <1>1, <2>1 DEF FlowStep
<1>4. QED  BY <1>2, <1>3 DEF Flow

-----------------------------------------------------------------------------
(* The right answer, from the right answers of the inputs.                 *)

(* All that is above n, and n, exists, is resolved and lies on no cycle.   *)
Sound(n) == \A x \in Above(Used, n) \cup {n} : Exists(x) /\ x \notin unresolved /\ ~OnACycle(x)

(* The right answer in the words of soundness.                             *)
LEMMA RightAnswerBySoundness ==
  ASSUME NEW n
  PROVE  /\ Sound(n) => RightAnswer(n) = Ready(Flow(n))
         /\ ~Sound(n) => RightAnswer(n) = Failed
         /\ Sound(n) <=> RightAnswer(n).status # "error"
<1>1. RightAnswer(n) = IF Sound(n) THEN Ready(Flow(n)) ELSE Failed
  BY DEF RightAnswer, Sound
<1>2. Ready(Flow(n)).status = "ready" /\ Failed.status = "error"
  BY DEF Ready, Failed
<1>3. QED  BY <1>1, <1>2

(* A compiled node is sound when its inputs are.                           *)
LEMMA SoundByInputs ==
  ASSUME TypeOK, NEW n \in Compiled
  PROVE  Sound(n) <=> \A i \in ToSet(InputsOf(n)) : Sound(i)
<1>1. \A i \in ToSet(InputsOf(n)) : i \in Above(Used, n) /\ Above(Used, i) \subseteq Above(Used, n)
  BY AboveInputs
<1>2. \A x \in Above(Used, n) : \E i \in ToSet(InputsOf(n)) : x = i \/ x \in Above(Used, i)
  BY AboveInputs
<1>3. ASSUME Sound(n), NEW i \in ToSet(InputsOf(n)) PROVE Sound(i)
  BY <1>1, <1>3 DEF Sound
<1>4. ASSUME \A i \in ToSet(InputsOf(n)) : Sound(i) PROVE Sound(n)
  <2>1. \A x \in Above(Used, n) : Exists(x) /\ x \notin unresolved /\ ~OnACycle(x)
    BY <1>2, <1>4 DEF Sound
  <2>2. n \notin Above(Used, n)
    BY <2>1 DEF OnACycle
  <2>3. Exists(n) /\ n \notin unresolved
    BY InputsType DEF Exists, TypeOK
  <2>4. QED  BY <2>1, <2>2, <2>3 DEF Sound, OnACycle
<1>5. QED  BY <1>3, <1>4

(* The answer of a compiled node is what its processing makes of the       *)
(* answers of its inputs.                                                  *)
LEMMA RightAnswerOfInputs ==
  ASSUME TypeOK, NEW n \in Compiled
  PROVE  RightAnswer(n) = Combined(n, [k \in DOMAIN InputsOf(n) |-> RightAnswer(InputsOf(n)[k])])
<1> DEFINE inputs == InputsOf(n)
           answers == [k \in DOMAIN inputs |-> RightAnswer(inputs[k])]
<1>1. \A i \in ToSet(inputs) : \E k \in DOMAIN inputs : inputs[k] = i
  BY DEF ToSet
<1>2. \A k \in DOMAIN inputs : inputs[k] \in ToSet(inputs)
  BY DEF ToSet
<1>3. Sound(n) <=> \A i \in ToSet(inputs) : Sound(i)
  BY SoundByInputs
<1>4. DOMAIN answers = DOMAIN inputs /\ \A k \in DOMAIN inputs : answers[k] = RightAnswer(inputs[k])
  OBVIOUS
<1> HIDE DEF inputs, answers
<1>5. CASE Sound(n)
  <2>1. \A k \in DOMAIN inputs : Sound(inputs[k])
    BY <1>2, <1>3, <1>5
  <2>2. ~\E k \in DOMAIN answers : answers[k].status = "error"
    BY <1>4, <2>1, RightAnswerBySoundness
  <2>3. \A k \in DOMAIN inputs : answers[k].proxies = Flow(inputs[k])
    BY <1>4, <2>1, RightAnswerBySoundness DEF Ready
  <2>4. [k \in DOMAIN answers |-> answers[k].proxies] = [k \in DOMAIN inputs |-> Flow(inputs[k])]
    BY <1>4, <2>3
  <2>5. \A i \in ToSet(inputs) : ~OnACycle(i)
    BY <1>3, <1>5 DEF Sound
  <2>6. Flow(n) = Processed(n, FlattenSeq([k \in DOMAIN inputs |-> Flow(inputs[k])]))
    BY <2>5, FlowOfInputs DEF inputs
  <2>7. Combined(n, answers) = Ready(Flow(n))
    BY <2>2, <2>4, <2>6 DEF Combined
  <2>8. QED  BY <1>5, <2>7, RightAnswerBySoundness DEF answers, inputs
<1>6. CASE ~Sound(n)
  <2>1. PICK k \in DOMAIN inputs : ~Sound(inputs[k])
    BY <1>1, <1>3, <1>6
  <2>2. answers[k].status = "error"
    BY <1>4, <2>1, RightAnswerBySoundness
  <2>3. Combined(n, answers) = Failed
    BY <1>4, <2>1, <2>2 DEF Combined
  <2>4. QED  BY <1>6, <2>3, RightAnswerBySoundness DEF answers, inputs
<1>7. QED  BY <1>5, <1>6

(* A node that is not compiled answers for itself.                         *)
LEMMA RightAnswerPlain ==
  ASSUME TypeOK, NEW n \in Nodes \ Compiled
  PROVE  RightAnswer(n) = PlainAnswer(n)
<1>1. Above(Used, n) = {}
  BY AboveInputs
<1>2. ~OnACycle(n)
  BY <1>1 DEF OnACycle
<1>3. Sound(n) <=> Exists(n) /\ n \notin unresolved
  BY <1>1, <1>2 DEF Sound
<1>4. Exists(n) => n \in Sources
  BY DEF Exists
<1>5. n \in Sources => Flow(n) = Content[n]
  BY FlowOfSource
<1>6. QED  BY <1>3, <1>4, <1>5, RightAnswerBySoundness DEF PlainAnswer

(* A right answer is an answer.                                            *)
LEMMA RightAnswerType ==
  ASSUME TypeOK, NEW n \in Nodes
  PROVE  RightAnswer(n) \in Answers
<1>1. Failed \in Answers
  BY EmptySeq DEF Failed, Answers
<1>2. Above(Used, n) \in SUBSET Nodes /\ flow \in [SUBSET Nodes -> Flows]
  BY AboveInputs, FlowDefined
<1>3. Flow(n) \in Seq(Proxies)
  BY <1>2 DEF Flow, Flows
<1>4. Ready(Flow(n)) \in Answers
  BY <1>3 DEF Ready, Answers
<1>5. QED  BY <1>1, <1>4, RightAnswerBySoundness

-----------------------------------------------------------------------------
(* Several questions in one context.                                       *)

(* The questions refs, asked in turn, with answers in S and caches in C.   *)
Conversations(S, C, ask, refs, cache) ==
  {sofar \in [0 .. Len(refs) -> [answers : Seq(S), cache : C]] :
     /\ sofar[0] = [answers |-> <<>>, cache |-> cache]
     /\ \A k \in 1 .. Len(refs) :
           LET r == ask[refs[k]][sofar[k - 1].cache]
           IN  sofar[k] = [answers |-> Append(sofar[k - 1].answers, r.answer), cache |-> r.cache]
     /\ AskAll(ask, refs, cache) = sofar[Len(refs)]}

(* There is the walk along the questions, handing on the cache, that       *)
(* AskAll is the end of.                                                   *)
LEMMA Conversation ==
  ASSUME NEW S, NEW C, NEW cache \in C, NEW refs, Len(refs) \in Nat, NEW ask,
         \A k \in 1 .. Len(refs) : \A c \in C :
            ask[refs[k]][c].answer \in S /\ ask[refs[k]][c].cache \in C
  PROVE  Conversations(S, C, ask, refs, cache) # {}
<1> DEFINE N == Len(refs)
           X == [answers : Seq(S), cache : C]
           b == [answers |-> <<>>, cache |-> cache]
           next(k, x) == [answers |-> Append(x.answers, ask[refs[k]][x.cache].answer),
                          cache |-> ask[refs[k]][x.cache].cache]
           T == [ki \in (1 .. N) \X X |-> next(ki[1], ki[2])]
           body(g) == [k \in 0 .. N |->
                         IF k = 0 THEN b
                         ELSE LET before == g[k - 1]
                                  r == ask[refs[k]][before.cache]
                              IN  [answers |-> Append(before.answers, r.answer), cache |-> r.cache]]
           sofar == CHOOSE g : g = body(g)
<1>1. N \in Nat
  OBVIOUS
<1>2. b \in X
  BY EmptySeq
<1>3. \A k \in 1 .. N : \A x \in X : next(k, x) \in X
  <2> SUFFICES ASSUME NEW k \in 1 .. N, NEW x \in X PROVE next(k, x) \in X
    OBVIOUS
  <2>1. x.answers \in Seq(S) /\ x.cache \in C
    OBVIOUS
  <2> DEFINE r == ask[refs[k]][x.cache]
  <2>2. r.answer \in S /\ r.cache \in C
    BY <2>1
  <2> HIDE DEF r
  <2>3. Append(x.answers, r.answer) \in Seq(S)
    BY <2>1, <2>2, AppendProperties
  <2>4. QED  BY <2>2, <2>3 DEF r
<1>4. T \in Steps(N, X)
  <2> HIDE DEF next
  <2>1. QED  BY <1>3 DEF Steps
<1>5. \A k \in 1 .. N : \A x \in X : T[<<k, x>>] = next(k, x)
  <2> HIDE DEF next
  <2>1. QED  OBVIOUS
<1> HIDE DEF N, X, T, b
<1>6. PICK f \in Iterates(N, X, b, T) : TRUE
  BY <1>1, <1>2, <1>4, Iteration
<1>7. f = body(f)
  <2>1. f \in [0 .. N -> X] /\ f[0] = b /\ \A k \in 1 .. N : f[k] = T[<<k, f[k - 1]>>]
    BY DEF Iterates
  <2>2. ASSUME NEW k \in 0 .. N
        PROVE  f[k] = IF k = 0 THEN b ELSE next(k, f[k - 1])
    <3>1. CASE k = 0
      BY <2>1, <3>1
    <3>2. CASE k # 0
      <4>1. k \in 1 .. N /\ k - 1 \in 0 .. N
        BY <1>1, <3>2
      <4>2. f[k - 1] \in X /\ f[k] = T[<<k, f[k - 1]>>]
        BY <2>1, <4>1
      <4> HIDE DEF next
      <4>3. QED  BY <1>5, <3>2, <4>1, <4>2
    <3>3. QED  BY <3>1, <3>2
  <2>3. QED  BY <2>1, <2>2
<1>8. sofar = body(sofar)
  <2> HIDE DEF body
  <2>1. QED  BY <1>7
<1> HIDE DEF sofar
<1>9. /\ sofar = [k \in 0 .. N |-> sofar[k]] /\ sofar[0] = b
      /\ \A k \in 1 .. N : sofar[k] = next(k, sofar[k - 1])
  <2>1. 0 \in 0 .. N /\ \A k \in 1 .. N : k \in 0 .. N /\ k # 0
    BY <1>1
  <2>2. QED  BY <1>8, <2>1
<1>10. \A k \in 1 .. N : sofar[k - 1] \in X => sofar[k] = T[<<k, sofar[k - 1]>>]
  <2> HIDE DEF next
  <2>1. QED  BY <1>5, <1>9
<1> HIDE DEF body
<1>11. sofar \in Iterates(N, X, b, T)
  <2> HIDE DEF next
  <2>1. QED  BY <1>1, <1>2, <1>4, <1>9, <1>10, IsIterate
<1>12. sofar \in [0 .. N -> X]
  BY <1>11 DEF Iterates
<1>13. AskAll(ask, refs, cache) = sofar[N]
  BY DEF AskAll, sofar, body, N, b
<1>14. QED  BY <1>9, <1>12, <1>13 DEF N, X, b, Conversations

(* With any cache of C, the answers to refs are f.                         *)
AnswersAs(C, ask, refs, f) ==
  \A k \in 1 .. Len(refs) : \A c \in C :
     ask[refs[k]][c].answer = f[k] /\ ask[refs[k]][c].cache \in C

(* Then they are f one after the other.                                    *)
LEMMA AskAllAnswers ==
  ASSUME NEW S, NEW C, NEW cache \in C, NEW refs, NEW ask,
         NEW f \in Seq(S), Len(f) = Len(refs), AnswersAs(C, ask, refs, f)
  PROVE  AskAll(ask, refs, cache).answers = f /\ AskAll(ask, refs, cache).cache \in C
<1> USE DEF AnswersAs
<1>0. Len(refs) \in Nat /\ \A k \in 1 .. Len(refs) : f[k] \in S
  BY Elements
<1>1. Conversations(S, C, ask, refs, cache) # {}
  BY <1>0, Conversation
<1>2. PICK sofar \in [0 .. Len(refs) -> [answers : Seq(S), cache : C]] :
         /\ sofar[0] = [answers |-> <<>>, cache |-> cache]
         /\ \A k \in 1 .. Len(refs) :
               sofar[k] = [answers |-> Append(sofar[k - 1].answers, ask[refs[k]][sofar[k - 1].cache].answer),
                           cache |-> ask[refs[k]][sofar[k - 1].cache].cache]
         /\ AskAll(ask, refs, cache) = sofar[Len(refs)]
  BY <1>1 DEF Conversations
<1> DEFINE N == Len(refs)
           a(k) == sofar[k].answers
           Z == {k \in 0 .. N : Len(a(k)) = k /\ \A j \in 1 .. k : a(k)[j] = f[j]}
<1>3. \A k \in 0 .. N : a(k) \in Seq(S) /\ sofar[k].cache \in C
  BY <1>0, <1>2
<1>4. 0 \in Z
  BY <1>0, <1>2, EmptySeq
<1>5. ASSUME NEW k \in 0 .. N - 1, k \in Z PROVE k + 1 \in Z
  <2>1. k + 1 \in 1 .. N /\ (k + 1) - 1 = k /\ k + 1 \in 0 .. N /\ k \in 0 .. N
    BY <1>0
  <2>2. a(k) \in Seq(S) /\ sofar[k].cache \in C /\ f[k + 1] \in S
    BY <1>0, <1>3, <2>1
  <2>3. a(k + 1) = Append(a(k), f[k + 1])
    <3>1. ask[refs[k + 1]][sofar[k].cache].answer = f[k + 1]
      BY <2>1, <2>2
    <3>2. sofar[k + 1] = [answers |-> Append(sofar[k].answers, ask[refs[k + 1]][sofar[k].cache].answer),
                          cache |-> ask[refs[k + 1]][sofar[k].cache].cache]
      <4> HIDE DEF a, Z
      <4>1. QED  BY <1>2, <2>1
    <3>3. QED  BY <3>1, <3>2
  <2>4. Len(a(k)) = k /\ \A j \in 1 .. k : a(k)[j] = f[j]
    BY <1>5
  <2> HIDE DEF a
  <2>5. /\ Len(a(k + 1)) = k + 1 /\ \A j \in 1 .. k : a(k + 1)[j] = f[j]
        /\ a(k + 1)[k + 1] = f[k + 1]
    BY <2>2, <2>3, <2>4, AppendProperties
  <2>6. \A j \in 1 .. k + 1 : j \in 1 .. k \/ j = k + 1
    BY <2>1
  <2>7. QED  BY <2>1, <2>5, <2>6
<1> HIDE DEF Z, a
<1>6. N \in Z
  <2>1. \A k \in 0 .. N : k \in Z
    BY <1>0, <1>4, <1>5, InductionUpTo
  <2>2. QED  BY <1>0, <2>1
<1>7. a(N) \in Seq(S) /\ Len(a(N)) = N /\ \A j \in 1 .. N : a(N)[j] = f[j]
  BY <1>0, <1>3, <1>6 DEF Z
<1>8. a(N) = f
  <2>1. f \in Seq(S) /\ Len(f) = N
    OBVIOUS
  <2>2. QED  BY <1>7, <2>1, SeqEqual
<1>9. QED  BY <1>0, <1>2, <1>3, <1>8 DEF a

-----------------------------------------------------------------------------
(* The memoized evaluation.                                                *)

Entries == [status : {"none", "ready", "error"}, proxies : Seq(Proxies)]
Results == [answer : Entries, cache : Caches]
Evaluations == [Nodes -> [Caches -> Results]]

(* The answers there are, and the cache of a new context.                  *)
LEMMA AnswerTypes ==
  /\ Answers \subseteq Entries /\ Failed \in Answers /\ OnCycle \in Answers
  /\ NothingAsked \in Caches
  /\ \A ref : PlainAnswer(ref) \in Answers
<1>1. <<>> \in Seq(Proxies) /\ \A s \in Sources : Content[s] \in Seq(Proxies)
  BY ContentAssumption, EmptySeq
<1>2. Answers \subseteq Entries
  BY DEF Answers, Entries
<1>3. Failed \in Answers /\ OnCycle \in Answers
  BY <1>1 DEF Failed, OnCycle, Answers
<1>4. NothingAsked \in Caches
  BY <1>1 DEF NothingAsked, NotAsked, Caches
<1>5. \A ref : PlainAnswer(ref) \in Answers
  BY <1>1, <1>3 DEF PlainAnswer, Ready, Answers
<1>6. QED  BY <1>2, <1>3, <1>4, <1>5

(* An answer that is cached leaves a cache.                                *)
LEMMA CachedType ==
  ASSUME NEW ref \in Nodes, NEW answer \in Entries, NEW cache \in Caches
  PROVE  Cached(ref, answer, cache) \in Results
BY DEF Cached, Results, Caches, Entries

(* Combined answers are an answer.                                         *)
LEMMA CombinedType ==
  ASSUME NEW n, NEW answers \in Seq(Entries)
  PROVE  Combined(n, answers) \in Answers
<1> DEFINE all == [k \in DOMAIN answers |-> answers[k].proxies]
<1>1. /\ Len(answers) \in Nat /\ DOMAIN answers = 1 .. Len(answers)
      /\ \A k \in 1 .. Len(answers) : answers[k] \in Entries
  BY Elements
<1>2. all \in [1 .. Len(answers) -> Seq(Proxies)]
  BY <1>1 DEF Entries
<1> HIDE DEF all
<1>3. all \in Seq(Seq(Proxies))
  BY <1>1, <1>2, FunctionSeq
<1>4. Processed(n, FlattenSeq(all)) \in Seq(Proxies)
  BY <1>3, FlattenSeqType, ProcessedType
<1>5. Ready(Processed(n, FlattenSeq(all))) \in Answers
  BY <1>4 DEF Ready, Answers
<1>6. Combined(n, answers) \in {Failed, Ready(Processed(n, FlattenSeq(all)))}
  BY DEF Combined, all
<1>7. QED  BY <1>5, <1>6, AnswerTypes

(* Questions in turn give answers and a cache.                             *)
LEMMA AskAllType ==
  ASSUME NEW ask \in Evaluations, NEW refs \in Seq(Nodes), NEW cache \in Caches
  PROVE  /\ AskAll(ask, refs, cache).answers \in Seq(Entries)
         /\ AskAll(ask, refs, cache).cache \in Caches
<1>1. Len(refs) \in Nat /\ \A k \in 1 .. Len(refs) : refs[k] \in Nodes
  BY Elements
<1>2. \A k \in 1 .. Len(refs) : \A c \in Caches :
         ask[refs[k]][c].answer \in Entries /\ ask[refs[k]][c].cache \in Caches
  <2> SUFFICES ASSUME NEW k \in 1 .. Len(refs), NEW c \in Caches
               PROVE  ask[refs[k]][c].answer \in Entries /\ ask[refs[k]][c].cache \in Caches
    OBVIOUS
  <2>1. ask[refs[k]] \in [Caches -> Results]
    BY <1>1 DEF Evaluations
  <2>2. ask[refs[k]][c] \in Results
    BY <2>1
  <2>3. QED  BY <2>2 DEF Results
<1>3. Conversations(Entries, Caches, ask, refs, cache) # {}
  BY <1>1, <1>2, Conversation
<1>4. PICK sofar \in [0 .. Len(refs) -> [answers : Seq(Entries), cache : Caches]] :
         AskAll(ask, refs, cache) = sofar[Len(refs)]
  BY <1>3 DEF Conversations
<1>5. sofar[Len(refs)] \in [answers : Seq(Entries), cache : Caches]
  BY <1>1
<1>6. QED  BY <1>4, <1>5

(* One step of the recursion of materializeProxySet.                       *)
Evaluate(stack, g, ref, cache) ==
  LET inputs == AskAll(g[stack \cup {ref}], InputsOf(ref), cache)
  IN  IF cache[ref] # NotAsked THEN [answer |-> cache[ref], cache |-> cache]
      ELSE IF ref \in stack THEN Cached(ref, OnCycle, cache)
      ELSE IF ref \in Compiled THEN Cached(ref, Combined(ref, inputs.answers), inputs.cache)
      ELSE Cached(ref, PlainAnswer(ref), cache)
EvaluateStep(stack, g) == [ref \in Nodes |-> [cache \in Caches |-> Evaluate(stack, g, ref, cache)]]

(* A longer stack leaves fewer nodes to ask.                               *)
Deeper(a, b) == Cardinality(Nodes \ a) < Cardinality(Nodes \ b)

(* A stack gets deeper with each node that is not on it.                   *)
LEMMA StackGrows ==
  ASSUME NEW stack \in SUBSET Nodes, NEW ref \in Nodes \ stack
  PROVE  stack \cup {ref} \in SUBSET Nodes /\ Deeper(stack \cup {ref}, stack)
<1> DEFINE a == Nodes \ (stack \cup {ref})
           b == Nodes \ stack
<1>1. b \in SUBSET Nodes /\ a \subseteq b /\ a # b
  OBVIOUS
<1> HIDE DEF a, b
<1>2. Smaller(a, b)
  BY <1>1, StrictlySmaller
<1>3. QED  BY <1>2 DEF Smaller, Deeper, a, b

(* A step of the evaluation gives results.                                 *)
LEMMA EvaluateType ==
  ASSUME TypeOK, NEW stack \in SUBSET Nodes, NEW g,
         \A a \in SUBSET Nodes : Deeper(a, stack) => g[a] \in Evaluations
  PROVE  EvaluateStep(stack, g) \in Evaluations
<1>1. ASSUME NEW ref \in Nodes, NEW cache \in Caches
      PROVE  Evaluate(stack, g, ref, cache) \in Results
  <2> DEFINE inputs == AskAll(g[stack \cup {ref}], InputsOf(ref), cache)
  <2>1. CASE cache[ref] # NotAsked
    <3>1. cache[ref] \in Entries
      BY DEF Caches, Entries
    <3>2. Evaluate(stack, g, ref, cache) = [answer |-> cache[ref], cache |-> cache]
      BY <2>1 DEF Evaluate
    <3>3. QED  BY <3>1, <3>2 DEF Results
  <2>2. CASE cache[ref] = NotAsked /\ ref \in stack
    <3>1. Evaluate(stack, g, ref, cache) = Cached(ref, OnCycle, cache)
      BY <2>2 DEF Evaluate
    <3>2. QED  BY <3>1, AnswerTypes, CachedType
  <2>3. CASE cache[ref] = NotAsked /\ ref \notin stack /\ ref \in Compiled
    <3>1. g[stack \cup {ref}] \in Evaluations
      BY <2>3, StackGrows
    <3>2. InputsOf(ref) \in Seq(Nodes)
      BY <2>3, InputsType
    <3>3. inputs.answers \in Seq(Entries) /\ inputs.cache \in Caches
      BY <3>1, <3>2, AskAllType
    <3>4. Evaluate(stack, g, ref, cache) = Cached(ref, Combined(ref, inputs.answers), inputs.cache)
      BY <2>3 DEF Evaluate
    <3> HIDE DEF inputs
    <3>5. Combined(ref, inputs.answers) \in Entries
      BY <3>3, CombinedType, AnswerTypes
    <3>6. QED  BY <3>3, <3>4, <3>5, CachedType
  <2>4. CASE cache[ref] = NotAsked /\ ref \notin stack /\ ref \notin Compiled
    <3>1. Evaluate(stack, g, ref, cache) = Cached(ref, PlainAnswer(ref), cache)
      BY <2>4 DEF Evaluate
    <3>2. PlainAnswer(ref) \in Entries
      BY AnswerTypes
    <3>3. QED  BY <3>1, <3>2, CachedType
  <2>5. QED  BY <2>1, <2>2, <2>3, <2>4
<1>2. QED  BY <1>1 DEF EvaluateStep, Evaluations

(* A step of the evaluation looks at deeper stacks only.                   *)
LEMMA EvaluateDescends ==
  ASSUME NEW stack \in SUBSET Nodes, NEW g, NEW h,
         \A a \in SUBSET Nodes : Deeper(a, stack) => g[a] = h[a]
  PROVE  EvaluateStep(stack, g) = EvaluateStep(stack, h)
<1>1. ASSUME NEW ref \in Nodes, NEW cache \in Caches
      PROVE  Evaluate(stack, g, ref, cache) = Evaluate(stack, h, ref, cache)
  <2>1. CASE ref \in stack
    BY <2>1 DEF Evaluate
  <2>2. CASE ref \notin stack
    <3>1. g[stack \cup {ref}] = h[stack \cup {ref}]
      BY <2>2, StackGrows
    <3>2. QED  BY <3>1 DEF Evaluate
  <2>3. QED  BY <2>1, <2>2
<1>2. \A ref \in Nodes : [cache \in Caches |-> Evaluate(stack, g, ref, cache)]
                         = [cache \in Caches |-> Evaluate(stack, h, ref, cache)]
  BY <1>1
<1>3. QED  BY <1>2 DEF EvaluateStep

(* materializeProxySet is what its definition says.                        *)
LEMMA EvaluationDefined ==
  ASSUME TypeOK
  PROVE  \A stack \in SUBSET Nodes : /\ materializeProxySet[stack] = EvaluateStep(stack, materializeProxySet)
                                     /\ materializeProxySet[stack] \in Evaluations
<1> DEFINE D == SUBSET Nodes
           mu == [a \in D |-> Cardinality(Nodes \ a)]
           M == Cardinality(Nodes)
           T == [ag \in D \X [D -> Evaluations] |-> EvaluateStep(ag[1], ag[2])]
<1>1. M \in Nat /\ \A a \in D : Cardinality(Nodes \ a) \in Nat /\ Cardinality(Nodes \ a) <= M
  <2>1. \A a \in D : Nodes \ a \in SUBSET Nodes
    OBVIOUS
  <2>2. QED  BY <2>1, NodesAssumption, FS_CardinalityType, FS_Subset
<1>2. mu \in [D -> Nat] /\ \A a \in D : mu[a] <= M
  BY <1>1
<1>3. \A a \in D : \A g \in [D -> Evaluations] :
         T[<<a, g>>] = EvaluateStep(a, g) /\ EvaluateStep(a, g) \in Evaluations
  <2>1. \A a \in D : \A g \in [D -> Evaluations] : EvaluateStep(a, g) \in Evaluations
    <3> SUFFICES ASSUME NEW a \in D, NEW g \in [D -> Evaluations] PROVE EvaluateStep(a, g) \in Evaluations
      OBVIOUS
    <3>1. \A e \in SUBSET Nodes : g[e] \in Evaluations
      OBVIOUS
    <3> HIDE DEF T, mu, M
    <3>2. QED  BY <3>1, EvaluateType
  <2>2. QED  BY <2>1
<1>4. T \in Rules(D, Evaluations)
  BY <1>3 DEF Rules
<1>5. \A a, e \in D : mu[e] < mu[a] <=> Deeper(e, a)
  BY DEF Deeper
<1>6. Evaluations # {}
  <2>1. \A c \in Caches : [answer |-> Failed, cache |-> c] \in Results
    BY AnswerTypes DEF Results
  <2>2. [ref \in Nodes |-> [c \in Caches |-> [answer |-> Failed, cache |-> c]]] \in Evaluations
    BY <2>1 DEF Evaluations
  <2>3. QED  BY <2>2
<1> HIDE DEF T, mu, M
<1>7. Descends(D, Evaluations, mu, T)
  <2> SUFFICES ASSUME NEW a \in D, NEW g \in [D -> Evaluations], NEW h \in [D -> Evaluations],
                      \A e \in D : mu[e] < mu[a] => g[e] = h[e]
               PROVE  T[<<a, g>>] = T[<<a, h>>]
    BY DEF Descends
  <2>1. \A e \in SUBSET Nodes : Deeper(e, a) => g[e] = h[e]
    BY <1>5
  <2>2. EvaluateStep(a, g) = EvaluateStep(a, h)
    BY <2>1, EvaluateDescends
  <2>3. QED  BY <1>3, <2>2
<1>8. PICK f \in Solutions(D, Evaluations, T) : TRUE
  <2> HIDE DEF D
  <2>1. QED  BY <1>1, <1>2, <1>4, <1>6, <1>7, Recursion
<1> DEFINE body(g) == [stack \in D |-> EvaluateStep(stack, g)]
<1>9. f = body(f)
  BY <1>3 DEF Solutions
<1>10. materializeProxySet = CHOOSE g : g = body(g)
  BY DEF materializeProxySet, EvaluateStep, Evaluate
<1>11. materializeProxySet = body(materializeProxySet)
  <2> HIDE DEF body
  <2>1. QED  BY <1>9, <1>10
<1>12. \A a \in D : materializeProxySet[a] = EvaluateStep(a, materializeProxySet)
  BY <1>11
<1> DEFINE Z == {a \in D : materializeProxySet[a] \in Evaluations}
<1>13. ASSUME NEW a \in D, \A e \in D : mu[e] < mu[a] => e \in Z
       PROVE  a \in Z
  <2>1. \A e \in SUBSET Nodes : Deeper(e, a) => materializeProxySet[e] \in Evaluations
    BY <1>5, <1>13
  <2>2. EvaluateStep(a, materializeProxySet) \in Evaluations
    BY <2>1, EvaluateType
  <2>3. QED  BY <1>12, <2>2
<1>14. \A a \in D : a \in Z
  <2> HIDE DEF D, Z
  <2>1. QED  BY <1>2, <1>13, MeasureInduction
<1>15. QED  BY <1>12, <1>14

-----------------------------------------------------------------------------
(* The evaluation is right, and what it leaves in the cache is right too.  *)

RightCaches == {c \in Caches : \A x \in Nodes : c[x] # NotAsked => c[x] = RightAnswer(x)}

(* A new context holds nothing wrong.                                      *)
LEMMA NothingAskedIsRight == NothingAsked \in RightCaches
BY AnswerTypes DEF NothingAsked, RightCaches

(* A right answer keeps the cache right.                                   *)
LEMMA CachedIsRight ==
  ASSUME TypeOK, NEW ref \in Nodes, NEW cache \in RightCaches
  PROVE  LET r == Cached(ref, RightAnswer(ref), cache)
         IN  r.answer = RightAnswer(ref) /\ r.cache \in RightCaches
<1> DEFINE c == [cache EXCEPT ![ref] = RightAnswer(ref)]
<1>1. RightAnswer(ref) \in Entries
  BY RightAnswerType, AnswerTypes
<1>2. cache \in [Nodes -> Entries] /\ \A x \in Nodes : cache[x] # NotAsked => cache[x] = RightAnswer(x)
  BY DEF RightCaches, Caches, Entries
<1>3. c \in [Nodes -> Entries]
  BY <1>1, <1>2
<1>4. \A x \in Nodes : c[x] = IF x = ref THEN RightAnswer(ref) ELSE cache[x]
  BY <1>2
<1> HIDE DEF c
<1>5. c \in RightCaches
  BY <1>2, <1>3, <1>4 DEF RightCaches, Caches, Entries
<1>6. QED  BY <1>5 DEF Cached, c

(* A set under way is above every set on the stack, so it is on a cycle    *)
(* when it is on the stack itself.                                         *)
BelowStack(stack, ref) == \A s \in stack : ref \in Above(Used, s)

(* With a cache that holds right answers only, a set below the stack gets  *)
(* its right answer and leaves a cache of right answers.                   *)
LEMMA EvaluatesRight ==
  ASSUME TypeOK
  PROVE  \A stack \in SUBSET Nodes : \A ref \in Nodes, cache \in RightCaches :
            BelowStack(stack, ref) =>
               /\ materializeProxySet[stack][ref][cache].answer = RightAnswer(ref)
               /\ materializeProxySet[stack][ref][cache].cache \in RightCaches
<1> DEFINE D == SUBSET Nodes
           mu == [a \in D |-> Cardinality(Nodes \ a)]
           Right(stack) == \A ref \in Nodes, cache \in RightCaches :
                              BelowStack(stack, ref) =>
                                 /\ materializeProxySet[stack][ref][cache].answer = RightAnswer(ref)
                                 /\ materializeProxySet[stack][ref][cache].cache \in RightCaches
           Z == {stack \in D : Right(stack)}
<1>1. mu \in [D -> Nat]
  <2>1. \A a \in D : Nodes \ a \in SUBSET Nodes
    OBVIOUS
  <2>2. QED  BY <2>1, NodesAssumption, FS_CardinalityType, FS_Subset
<1>2. \A a, e \in D : mu[e] < mu[a] <=> Deeper(e, a)
  BY DEF Deeper
<1> HIDE DEF mu
<1>3. ASSUME NEW stack \in D, \A e \in D : mu[e] < mu[stack] => e \in Z,
             NEW ref \in Nodes, NEW cache \in RightCaches, BelowStack(stack, ref)
      PROVE  LET r == materializeProxySet[stack][ref][cache]
             IN  r.answer = RightAnswer(ref) /\ r.cache \in RightCaches
  <2> DEFINE r == materializeProxySet[stack][ref][cache]
             ask == materializeProxySet[stack \cup {ref}]
             inputs == AskAll(ask, InputsOf(ref), cache)
  <2>1. cache \in Caches /\ \A x \in Nodes : cache[x] # NotAsked => cache[x] = RightAnswer(x)
    BY DEF RightCaches
  <2>2. r = Evaluate(stack, materializeProxySet, ref, cache)
    <3>1. materializeProxySet[stack] = EvaluateStep(stack, materializeProxySet)
      BY EvaluationDefined
    <3>2. QED  BY <2>1, <3>1 DEF EvaluateStep
  <2> HIDE DEF r
  <2>3. CASE cache[ref] # NotAsked
    <3>1. r = [answer |-> cache[ref], cache |-> cache]
      BY <2>2, <2>3 DEF Evaluate
    <3>2. QED  BY <2>1, <2>3, <3>1 DEF r
  <2>4. CASE cache[ref] = NotAsked /\ ref \in stack
    <3>1. r = Cached(ref, Failed, cache)
      BY <2>2, <2>4 DEF Evaluate, OnCycle
    <3>2. ref \in Above(Used, ref)
      BY <1>3, <2>4 DEF BelowStack
    <3>3. ~Sound(ref)
      BY <3>2 DEF Sound, OnACycle
    <3>4. RightAnswer(ref) = Failed
      BY <3>3, RightAnswerBySoundness
    <3>5. r = Cached(ref, RightAnswer(ref), cache)
      BY <3>1, <3>4
    <3>6. QED  BY <3>5, CachedIsRight DEF r
  <2>5. CASE cache[ref] = NotAsked /\ ref \notin stack /\ ref \in Compiled
    <3>1. stack \cup {ref} \in D /\ Deeper(stack \cup {ref}, stack)
      BY <2>5, StackGrows
    <3>2. Right(stack \cup {ref})
      BY <1>2, <1>3, <3>1
    <3>3. /\ InputsOf(ref) \in Seq(Nodes) /\ Len(InputsOf(ref)) \in Nat
          /\ DOMAIN InputsOf(ref) = 1 .. Len(InputsOf(ref))
      BY <2>5, InputsType, Elements
    <3>4. ASSUME NEW i \in ToSet(InputsOf(ref))
          PROVE  i \in Nodes /\ BelowStack(stack \cup {ref}, i)
      <4>1. i \in Above(Used, ref) /\ i \in Nodes
        BY <2>5, AboveInputs, InputsType
      <4>2. \A s \in stack : Above(Used, ref) \subseteq Above(Used, s)
        BY <1>3, UsedEdges, AboveTransitive DEF BelowStack
      <4>3. QED  BY <4>1, <4>2 DEF BelowStack
    <3> DEFINE f == [k \in DOMAIN InputsOf(ref) |-> RightAnswer(InputsOf(ref)[k])]
    <3>5. \A k \in 1 .. Len(InputsOf(ref)) : InputsOf(ref)[k] \in ToSet(InputsOf(ref)) /\ f[k] = RightAnswer(InputsOf(ref)[k])
      BY <3>3 DEF ToSet
    <3>6. f \in [1 .. Len(InputsOf(ref)) -> Entries]
      BY <3>3, <3>4, <3>5, RightAnswerType, AnswerTypes
    <3> HIDE DEF f
    <3>7. f \in Seq(Entries) /\ Len(f) = Len(InputsOf(ref))
      BY <3>3, <3>6, FunctionSeq
    <3>8. AnswersAs(RightCaches, ask, InputsOf(ref), f)
      BY <3>2, <3>4, <3>5 DEF AnswersAs
    <3> HIDE DEF ask, Z
    <3>9. inputs.answers = f /\ inputs.cache \in RightCaches
      BY <3>7, <3>8, AskAllAnswers
    <3> HIDE DEF inputs
    <3>10. Combined(ref, f) = RightAnswer(ref)
      BY <2>5, RightAnswerOfInputs DEF f
    <3>11. r = Cached(ref, Combined(ref, inputs.answers), inputs.cache)
      BY <2>2, <2>5 DEF Evaluate, inputs, ask
    <3>12. r = Cached(ref, RightAnswer(ref), inputs.cache)
      BY <3>9, <3>10, <3>11
    <3>13. QED  BY <3>9, <3>12, CachedIsRight DEF r
  <2>6. CASE cache[ref] = NotAsked /\ ref \notin stack /\ ref \notin Compiled
    <3>1. r = Cached(ref, PlainAnswer(ref), cache)
      BY <2>2, <2>6 DEF Evaluate
    <3>2. PlainAnswer(ref) = RightAnswer(ref)
      BY <2>6, RightAnswerPlain
    <3>3. r = Cached(ref, RightAnswer(ref), cache)
      BY <3>1, <3>2
    <3>4. QED  BY <3>3, CachedIsRight DEF r
  <2>7. QED  BY <2>3, <2>4, <2>5, <2>6
<1>4. ASSUME NEW stack \in D, \A e \in D : mu[e] < mu[stack] => e \in Z
      PROVE  stack \in Z
  <2>1. Right(stack)
    BY <1>3, <1>4
  <2>2. QED  BY <2>1
<1>5. \A stack \in D : stack \in Z
  <2> HIDE DEF D, Z
  <2>1. QED  BY <1>1, <1>4, MeasureInduction
<1>6. QED  BY <1>5

(* Whatever is asked for in one context, and in whatever order, each       *)
(* answer is right.                                                        *)
LEMMA AnswersToAreRight ==
  ASSUME TypeOK, NEW refs \in Seq(Nodes)
  PROVE  AnswersTo(refs) = [k \in DOMAIN refs |-> RightAnswer(refs[k])]
<1> DEFINE f == [k \in DOMAIN refs |-> RightAnswer(refs[k])]
           ask == materializeProxySet[{}]
<1>1. Len(refs) \in Nat /\ DOMAIN refs = 1 .. Len(refs) /\ \A k \in 1 .. Len(refs) : refs[k] \in Nodes
  BY Elements
<1>2. \A ref \in Nodes : BelowStack({}, ref)
  BY DEF BelowStack
<1>3. \A k \in 1 .. Len(refs) : f[k] = RightAnswer(refs[k])
  BY <1>1
<1>4. f \in [1 .. Len(refs) -> Entries]
  BY <1>1, RightAnswerType, AnswerTypes
<1> HIDE DEF f
<1>5. AnswersAs(RightCaches, ask, refs, f)
  <2>1. {} \in SUBSET Nodes
    OBVIOUS
  <2>2. QED  BY <1>1, <1>2, <1>3, <2>1, EvaluatesRight DEF AnswersAs
<1> HIDE DEF ask
<1>6. AskAll(ask, refs, NothingAsked).answers = f
  <2>1. f \in Seq(Entries) /\ Len(f) = Len(refs)
    BY <1>1, <1>4, FunctionSeq
  <2>2. QED  BY <1>5, <2>1, NothingAskedIsRight, AskAllAnswers
<1>7. QED  BY <1>6 DEF AnswersTo, ask, f

-----------------------------------------------------------------------------
(* The lineage of a set.                                                   *)

Lineages == [sources : SUBSET Nodes, mixed : BOOLEAN, operations : SUBSET Nodes, cycle : BOOLEAN]
Analyses == [Nodes -> Lineages]

(* One step of the recursion of analyzeLineage.                            *)
Analyze(stack, g, ref) ==
  LET upstream == {g[stack \cup {ref}][i] : i \in ToSet(InputsOf(ref))}
      sources == UNION {u.sources : u \in upstream}
  IN  IF ref \in stack THEN LineageOf({}, FALSE, {}, TRUE)
      ELSE IF ref \in Compiled
      THEN LineageOf(sources, Cardinality(sources) > 1,
                     {ref} \cup UNION {u.operations : u \in upstream},
                     \E u \in upstream : u.cycle)
      ELSE LineageOf({ref} \cap {s \in Sources : Exists(s)}, FALSE, {}, FALSE)
AnalyzeStep(stack, g) == [ref \in Nodes |-> Analyze(stack, g, ref)]

(* A step of the analysis gives lineages.                                  *)
LEMMA AnalyzeType ==
  ASSUME TypeOK, NEW stack \in SUBSET Nodes, NEW g,
         \A a \in SUBSET Nodes : Deeper(a, stack) => g[a] \in Analyses
  PROVE  AnalyzeStep(stack, g) \in Analyses
<1>1. ASSUME NEW ref \in Nodes PROVE Analyze(stack, g, ref) \in Lineages
  <2>1. CASE ref \in stack
    BY <2>1 DEF Analyze, LineageOf, Lineages
  <2>2. CASE ref \notin stack /\ ref \in Compiled
    <3> DEFINE upstream == {g[stack \cup {ref}][i] : i \in ToSet(InputsOf(ref))}
               sources == UNION {u.sources : u \in upstream}
               operations == {ref} \cup UNION {u.operations : u \in upstream}
               mixed == Cardinality(sources) > 1
               cycle == \E u \in upstream : u.cycle
    <3>1. g[stack \cup {ref}] \in Analyses
      BY <2>2, StackGrows
    <3>2. \A i \in ToSet(InputsOf(ref)) : i \in Nodes
      BY <2>2, InputsType
    <3>3. upstream \subseteq Lineages
      BY <3>1, <3>2 DEF Analyses
    <3>4. Analyze(stack, g, ref) = LineageOf(sources, mixed, operations, cycle)
      BY <2>2 DEF Analyze
    <3> HIDE DEF upstream
    <3>5. sources \subseteq Nodes /\ operations \subseteq Nodes
      BY <3>3 DEF Lineages
    <3>6. mixed \in BOOLEAN /\ cycle \in BOOLEAN
      OBVIOUS
    <3> HIDE DEF sources, operations, mixed, cycle
    <3>7. QED  BY <3>4, <3>5, <3>6 DEF LineageOf, Lineages
  <2>3. CASE ref \notin stack /\ ref \notin Compiled
    BY <2>3 DEF Analyze, LineageOf, Lineages
  <2>4. QED  BY <2>1, <2>2, <2>3
<1>2. QED  BY <1>1 DEF AnalyzeStep, Analyses

(* A step of the analysis looks at deeper stacks only.                     *)
LEMMA AnalyzeDescends ==
  ASSUME NEW stack \in SUBSET Nodes, NEW g, NEW h,
         \A a \in SUBSET Nodes : Deeper(a, stack) => g[a] = h[a]
  PROVE  AnalyzeStep(stack, g) = AnalyzeStep(stack, h)
<1>1. ASSUME NEW ref \in Nodes
      PROVE  Analyze(stack, g, ref) = Analyze(stack, h, ref)
  <2>1. CASE ref \in stack
    BY <2>1 DEF Analyze
  <2>2. CASE ref \notin stack
    <3>1. g[stack \cup {ref}] = h[stack \cup {ref}]
      BY <2>2, StackGrows
    <3>2. QED  BY <3>1 DEF Analyze
  <2>3. QED  BY <2>1, <2>2
<1>2. QED  BY <1>1 DEF AnalyzeStep

(* analyzeLineage is what its definition says.                             *)
LEMMA AnalysisDefined ==
  ASSUME TypeOK
  PROVE  \A stack \in SUBSET Nodes : /\ analyzeLineage[stack] = AnalyzeStep(stack, analyzeLineage)
                                     /\ analyzeLineage[stack] \in Analyses
<1> DEFINE D == SUBSET Nodes
           mu == [a \in D |-> Cardinality(Nodes \ a)]
           M == Cardinality(Nodes)
           T == [ag \in D \X [D -> Analyses] |-> AnalyzeStep(ag[1], ag[2])]
<1>1. M \in Nat /\ \A a \in D : Cardinality(Nodes \ a) \in Nat /\ Cardinality(Nodes \ a) <= M
  <2>1. \A a \in D : Nodes \ a \in SUBSET Nodes
    OBVIOUS
  <2>2. QED  BY <2>1, NodesAssumption, FS_CardinalityType, FS_Subset
<1>2. mu \in [D -> Nat] /\ \A a \in D : mu[a] <= M
  BY <1>1
<1>3. \A a \in D : \A g \in [D -> Analyses] :
         T[<<a, g>>] = AnalyzeStep(a, g) /\ AnalyzeStep(a, g) \in Analyses
  <2>1. \A a \in D : \A g \in [D -> Analyses] : AnalyzeStep(a, g) \in Analyses
    <3> SUFFICES ASSUME NEW a \in D, NEW g \in [D -> Analyses] PROVE AnalyzeStep(a, g) \in Analyses
      OBVIOUS
    <3>1. \A e \in SUBSET Nodes : g[e] \in Analyses
      OBVIOUS
    <3> HIDE DEF T, mu, M
    <3>2. QED  BY <3>1, AnalyzeType
  <2>2. QED  BY <2>1
<1>4. T \in Rules(D, Analyses)
  BY <1>3 DEF Rules
<1>5. \A a, e \in D : mu[e] < mu[a] <=> Deeper(e, a)
  BY DEF Deeper
<1>6. Analyses # {}
  <2>1. LineageOf({}, FALSE, {}, FALSE) \in Lineages
    BY DEF LineageOf, Lineages
  <2>2. [ref \in Nodes |-> LineageOf({}, FALSE, {}, FALSE)] \in Analyses
    BY <2>1 DEF Analyses
  <2>3. QED  BY <2>2
<1> HIDE DEF T, mu, M
<1>7. Descends(D, Analyses, mu, T)
  <2> SUFFICES ASSUME NEW a \in D, NEW g \in [D -> Analyses], NEW h \in [D -> Analyses],
                      \A e \in D : mu[e] < mu[a] => g[e] = h[e]
               PROVE  T[<<a, g>>] = T[<<a, h>>]
    BY DEF Descends
  <2>1. \A e \in SUBSET Nodes : Deeper(e, a) => g[e] = h[e]
    BY <1>5
  <2>2. AnalyzeStep(a, g) = AnalyzeStep(a, h)
    BY <2>1, AnalyzeDescends
  <2>3. QED  BY <1>3, <2>2
<1>8. PICK f \in Solutions(D, Analyses, T) : TRUE
  <2> HIDE DEF D
  <2>1. QED  BY <1>1, <1>2, <1>4, <1>6, <1>7, Recursion
<1> DEFINE body(g) == [stack \in D |-> AnalyzeStep(stack, g)]
<1>9. f = body(f)
  BY <1>3 DEF Solutions
<1>10. analyzeLineage = CHOOSE g : g = body(g)
  BY DEF analyzeLineage, AnalyzeStep, Analyze
<1>11. analyzeLineage = body(analyzeLineage)
  <2> HIDE DEF body
  <2>1. QED  BY <1>9, <1>10
<1>12. \A a \in D : analyzeLineage[a] = AnalyzeStep(a, analyzeLineage)
  BY <1>11
<1> DEFINE Z == {a \in D : analyzeLineage[a] \in Analyses}
<1>13. ASSUME NEW a \in D, \A e \in D : mu[e] < mu[a] => e \in Z
       PROVE  a \in Z
  <2>1. \A e \in SUBSET Nodes : Deeper(e, a) => analyzeLineage[e] \in Analyses
    BY <1>5, <1>13
  <2>2. AnalyzeStep(a, analyzeLineage) \in Analyses
    BY <2>1, AnalyzeType
  <2>3. QED  BY <1>12, <2>2
<1>14. \A a \in D : a \in Z
  <2> HIDE DEF D, Z
  <2>1. QED  BY <1>2, <1>13, MeasureInduction
<1>15. QED  BY <1>12, <1>14

(* The same, in the words of the code.                                     *)
LEMMA AnalysisOf ==
  ASSUME TypeOK, NEW stack \in SUBSET Nodes, NEW ref \in Nodes
  PROVE  LET l == analyzeLineage[stack][ref]
             upstream(i) == analyzeLineage[stack \cup {ref}][i]
         IN  /\ ref \in stack => l.sources = {} /\ l.cycle /\ l.operations = {}
             /\ ref \notin stack /\ ref \in Compiled =>
                   /\ l.sources = UNION {upstream(i).sources : i \in ToSet(InputsOf(ref))}
                   /\ ref \in l.operations
                   /\ l.cycle <=> \E i \in ToSet(InputsOf(ref)) : upstream(i).cycle
             /\ ref \notin stack /\ ref \notin Compiled =>
                   /\ l.sources = {ref} \cap {s \in Sources : Exists(s)}
                   /\ l.operations = {} /\ ~l.cycle
<1> DEFINE l == analyzeLineage[stack][ref]
<1>1. l = Analyze(stack, analyzeLineage, ref)
  <2>1. analyzeLineage[stack] = AnalyzeStep(stack, analyzeLineage)
    BY AnalysisDefined
  <2>2. QED  BY <2>1 DEF AnalyzeStep
<1> HIDE DEF l
<1>2. CASE ref \in stack
  BY <1>1, <1>2 DEF Analyze, LineageOf, l
<1>3. CASE ref \notin stack /\ ref \in Compiled
  <2> DEFINE upstream == {analyzeLineage[stack \cup {ref}][i] : i \in ToSet(InputsOf(ref))}
             sources == UNION {u.sources : u \in upstream}
             operations == {ref} \cup UNION {u.operations : u \in upstream}
             cycle == \E u \in upstream : u.cycle
  <2>1. l = LineageOf(sources, Cardinality(sources) > 1, operations, cycle)
    BY <1>1, <1>3 DEF Analyze
  <2>2. sources = UNION {analyzeLineage[stack \cup {ref}][i].sources : i \in ToSet(InputsOf(ref))}
    OBVIOUS
  <2>3. cycle <=> \E i \in ToSet(InputsOf(ref)) : analyzeLineage[stack \cup {ref}][i].cycle
    OBVIOUS
  <2>4. ref \in operations
    OBVIOUS
  <2> HIDE DEF sources, operations, cycle, upstream
  <2>5. l.sources = sources /\ l.operations = operations /\ l.cycle = cycle
    BY <2>1 DEF LineageOf
  <2>6. QED  BY <1>3, <2>2, <2>3, <2>4, <2>5 DEF l
<1>4. CASE ref \notin stack /\ ref \notin Compiled
  BY <1>1, <1>4 DEF Analyze, LineageOf, l
<1>5. QED  BY <1>2, <1>3, <1>4

(* Induction on the stack, from the longest.                               *)
LEMMA StackInduction ==
  ASSUME NEW Z,
         \A stack \in SUBSET Nodes : (\A ref \in Nodes \ stack : stack \cup {ref} \in Z) => stack \in Z
  PROVE  \A stack \in SUBSET Nodes : stack \in Z
<1> DEFINE D == SUBSET Nodes
           mu == [a \in D |-> Cardinality(Nodes \ a)]
<1>1. mu \in [D -> Nat]
  <2>1. \A a \in D : Nodes \ a \in SUBSET Nodes
    OBVIOUS
  <2>2. QED  BY <2>1, NodesAssumption, FS_CardinalityType, FS_Subset
<1>2. \A a, e \in D : mu[e] < mu[a] <=> Deeper(e, a)
  BY DEF Deeper
<1> HIDE DEF mu
<1>3. ASSUME NEW a \in D, \A e \in D : mu[e] < mu[a] => e \in Z
      PROVE  a \in Z
  <2>1. \A ref \in Nodes \ a : a \cup {ref} \in Z
    BY <1>2, <1>3, StackGrows
  <2>2. QED  BY <2>1
<1>4. \A a \in D : a \in Z
  <2> HIDE DEF D
  <2>1. QED  BY <1>1, <1>3, MeasureInduction
<1>5. QED  BY <1>4

(* A cycle is reported where there is one above a set or through it.       *)
CycleAbove(ref) == \E x \in Above(Used, ref) \cup {ref} : OnACycle(x)

(* A cycle reported for a set below the stack is there; where none is      *)
(* reported there is none, and no set of the stack is above.               *)
LEMMA LineageFindsCycles ==
  ASSUME TypeOK
  PROVE  \A stack \in SUBSET Nodes : \A ref \in Nodes :
            /\ BelowStack(stack, ref) /\ analyzeLineage[stack][ref].cycle => CycleAbove(ref)
            /\ ~analyzeLineage[stack][ref].cycle =>
                  (Above(Used, ref) \cup {ref}) \cap stack = {} /\ ~CycleAbove(ref)
<1> DEFINE Right(stack) == \A ref \in Nodes :
              /\ BelowStack(stack, ref) /\ analyzeLineage[stack][ref].cycle => CycleAbove(ref)
              /\ ~analyzeLineage[stack][ref].cycle =>
                    (Above(Used, ref) \cup {ref}) \cap stack = {} /\ ~CycleAbove(ref)
           Z == {stack \in SUBSET Nodes : Right(stack)}
<1>1. ASSUME NEW stack \in SUBSET Nodes, \A ref \in Nodes \ stack : stack \cup {ref} \in Z,
             NEW ref \in Nodes
      PROVE  /\ BelowStack(stack, ref) /\ analyzeLineage[stack][ref].cycle => CycleAbove(ref)
             /\ ~analyzeLineage[stack][ref].cycle =>
                   (Above(Used, ref) \cup {ref}) \cap stack = {} /\ ~CycleAbove(ref)
  <2> DEFINE l == analyzeLineage[stack][ref]
             deep == stack \cup {ref}
  <2>1. CASE ref \in stack
    <3>1. l.cycle
      BY <2>1, AnalysisOf
    <3>2. BelowStack(stack, ref) => ref \in Above(Used, ref)
      BY <2>1 DEF BelowStack
    <3> HIDE DEF Z
    <3>3. QED  BY <3>1, <3>2 DEF CycleAbove, OnACycle
  <2>2. CASE ref \notin stack /\ ref \in Compiled
    <3>1. l.cycle <=> \E i \in ToSet(InputsOf(ref)) : analyzeLineage[deep][i].cycle
      BY <2>2, AnalysisOf
    <3>2. Right(deep)
      BY <1>1, <2>2
    <3>3. \A i \in ToSet(InputsOf(ref)) :
             i \in Nodes /\ i \in Above(Used, ref) /\ Above(Used, i) \subseteq Above(Used, ref)
      BY <2>2, InputsType, AboveInputs
    <3>4. ASSUME BelowStack(stack, ref), l.cycle PROVE CycleAbove(ref)
      <4>1. PICK i \in ToSet(InputsOf(ref)) : analyzeLineage[deep][i].cycle
        BY <3>1, <3>4
      <4>2. \A s \in stack : Above(Used, ref) \subseteq Above(Used, s)
        BY <3>4, UsedEdges, AboveTransitive DEF BelowStack
      <4>3. BelowStack(deep, i)
        BY <3>3, <4>2 DEF BelowStack
      <4>4. CycleAbove(i)
        BY <3>2, <3>3, <4>1, <4>3
      <4>5. QED  BY <3>3, <4>4 DEF CycleAbove
    <3>5. ASSUME ~l.cycle
          PROVE  (Above(Used, ref) \cup {ref}) \cap stack = {} /\ ~CycleAbove(ref)
      <4>1. \A i \in ToSet(InputsOf(ref)) :
               (Above(Used, i) \cup {i}) \cap deep = {} /\ ~CycleAbove(i)
        BY <3>1, <3>2, <3>3, <3>5
      <4>2. \A x \in Above(Used, ref) : \E i \in ToSet(InputsOf(ref)) : x = i \/ x \in Above(Used, i)
        BY AboveInputs
      <4>3. \A x \in Above(Used, ref) : x \notin deep /\ ~OnACycle(x)
        BY <4>1, <4>2 DEF CycleAbove
      <4>4. QED  BY <2>2, <4>3 DEF CycleAbove, OnACycle
    <3> HIDE DEF Z
    <3>6. QED  BY <3>4, <3>5
  <2>3. CASE ref \notin stack /\ ref \notin Compiled
    <3>1. ~l.cycle
      BY <2>3, AnalysisOf
    <3>2. Above(Used, ref) = {}
      BY <2>3, AboveInputs
    <3> HIDE DEF Z
    <3>3. QED  BY <2>3, <3>1, <3>2 DEF CycleAbove, OnACycle
  <2>4. QED  BY <2>1, <2>2, <2>3
<1>2. \A stack \in SUBSET Nodes : (\A ref \in Nodes \ stack : stack \cup {ref} \in Z) => stack \in Z
  <2> SUFFICES ASSUME NEW stack \in SUBSET Nodes, \A ref \in Nodes \ stack : stack \cup {ref} \in Z
               PROVE  Right(stack)
    OBVIOUS
  <2>1. QED  BY <1>1
<1>3. \A stack \in SUBSET Nodes : stack \in Z
  <2> HIDE DEF Z
  <2>1. QED  BY <1>2, StackInduction
<1>4. QED  BY <1>3

(* The sources of a lineage are sources above the set, or the set itself.  *)
LEMMA LineageSourcesExist ==
  ASSUME TypeOK
  PROVE  \A stack \in SUBSET Nodes : \A ref \in Nodes :
            \A x \in analyzeLineage[stack][ref].sources :
               x \in Above(Used, ref) \cup {ref} /\ x \in Sources /\ Exists(x)
<1> DEFINE Right(stack) == \A ref \in Nodes :
              \A x \in analyzeLineage[stack][ref].sources :
                 x \in Above(Used, ref) \cup {ref} /\ x \in Sources /\ Exists(x)
           Z == {stack \in SUBSET Nodes : Right(stack)}
<1>1. ASSUME NEW stack \in SUBSET Nodes, \A ref \in Nodes \ stack : stack \cup {ref} \in Z,
             NEW ref \in Nodes, NEW x \in analyzeLineage[stack][ref].sources
      PROVE  x \in Above(Used, ref) \cup {ref} /\ x \in Sources /\ Exists(x)
  <2> DEFINE l == analyzeLineage[stack][ref]
             deep == stack \cup {ref}
  <2>1. CASE ref \in stack
    BY <1>1, <2>1, AnalysisOf
  <2>2. CASE ref \notin stack /\ ref \in Compiled
    <3>1. l.sources = UNION {analyzeLineage[deep][i].sources : i \in ToSet(InputsOf(ref))}
      BY <2>2, AnalysisOf
    <3>2. PICK i \in ToSet(InputsOf(ref)) : x \in analyzeLineage[deep][i].sources
      BY <1>1, <3>1
    <3>3. i \in Nodes /\ i \in Above(Used, ref) /\ Above(Used, i) \subseteq Above(Used, ref)
      BY <2>2, InputsType, AboveInputs
    <3>4. Right(deep)
      BY <1>1, <2>2
    <3>5. QED  BY <3>2, <3>3, <3>4
  <2>3. CASE ref \notin stack /\ ref \notin Compiled
    <3>1. l.sources = {ref} \cap {s \in Sources : Exists(s)}
      BY <2>3, AnalysisOf
    <3>2. QED  BY <1>1, <3>1
  <2>4. QED  BY <2>1, <2>2, <2>3
<1>2. \A stack \in SUBSET Nodes : (\A ref \in Nodes \ stack : stack \cup {ref} \in Z) => stack \in Z
  <2> SUFFICES ASSUME NEW stack \in SUBSET Nodes, \A ref \in Nodes \ stack : stack \cup {ref} \in Z
               PROVE  Right(stack)
    OBVIOUS
  <2>1. QED  BY <1>1
<1>3. \A stack \in SUBSET Nodes : stack \in Z
  <2> HIDE DEF Z
  <2>1. QED  BY <1>2, StackInduction
<1>4. QED  BY <1>3

(* The edges that do not lead into the stack.                              *)
Avoiding(stack) == {e \in Used : e.to \notin stack}

(* No source that a path beside the stack comes from is missing.           *)
LEMMA LineageFindsSources ==
  ASSUME TypeOK
  PROVE  \A stack \in SUBSET Nodes : stack \subseteq Compiled =>
            \A ref \in Nodes \ stack : \A x \in Above(Avoiding(stack), ref) \cup {ref} :
               x \in Sources /\ Exists(x) => x \in analyzeLineage[stack][ref].sources
<1> DEFINE Right(stack) == stack \subseteq Compiled =>
              \A ref \in Nodes \ stack : \A x \in Above(Avoiding(stack), ref) \cup {ref} :
                 x \in Sources /\ Exists(x) => x \in analyzeLineage[stack][ref].sources
           Z == {stack \in SUBSET Nodes : Right(stack)}
<1>1. ASSUME NEW stack \in SUBSET Nodes, \A ref \in Nodes \ stack : stack \cup {ref} \in Z,
             stack \subseteq Compiled, NEW ref \in Nodes \ stack,
             NEW x \in Above(Avoiding(stack), ref) \cup {ref}, x \in Sources, Exists(x)
      PROVE  x \in analyzeLineage[stack][ref].sources
  <2> DEFINE l == analyzeLineage[stack][ref]
             deep == stack \cup {ref}
  <2>0. Avoiding(stack) \subseteq Edges /\ Avoiding(stack) \subseteq Used /\ Avoiding(deep) \subseteq Edges
    BY UsedEdges DEF Avoiding
  <2>1. CASE ref \in Compiled
    <3>1. l.sources = UNION {analyzeLineage[deep][i].sources : i \in ToSet(InputsOf(ref))}
      BY <2>1, AnalysisOf
    <3>2. Right(deep)
      BY <1>1
    <3>3. deep \subseteq Compiled
      BY <1>1, <2>1
    <3> DEFINE R == {y \in Nodes : \E i \in ToSet(InputsOf(ref)) :
                        i \notin deep /\ (y = i \/ y \in Above(Avoiding(deep), i))}
               W == R \cup deep
    <3>4. ClosedFrom(Avoiding(stack), ref, W)
      <4> SUFFICES ASSUME NEW e \in Avoiding(stack), e.to = ref \/ e.to \in W PROVE e.from \in W
        BY DEF ClosedFrom
      <4>1. e \in Used /\ e.to \notin stack /\ e.from \in Nodes
        BY UsedEdges DEF Avoiding
      <4>2. CASE e.to = ref
        <5>1. e.from \in ToSet(InputsOf(ref))
          BY <4>1, <4>2, UsedEdges
        <5>2. QED  BY <4>1, <5>1
      <4>3. CASE e.to # ref
        <5>1. e.to \in R /\ e.to \notin deep
          BY <4>1, <4>3
        <5>2. e \in Avoiding(deep)
          BY <4>1, <5>1 DEF Avoiding
        <5>3. PICK i \in ToSet(InputsOf(ref)) :
                 i \notin deep /\ (e.to = i \/ e.to \in Above(Avoiding(deep), i))
          BY <5>1
        <5>4. e.from \in Above(Avoiding(deep), i)
          BY <2>0, <5>2, <5>3, AboveClosed DEF ClosedFrom
        <5>5. QED  BY <4>1, <5>3, <5>4
      <4>4. QED  BY <4>2, <4>3
    <3>5. x \notin deep
      BY <1>1, <3>3, InputsType
    <3>6. x \in Above(Avoiding(stack), ref)
      BY <1>1, <3>5
    <3>7. x \in R
      <4>1. Above(Avoiding(stack), ref) \subseteq W
        <5> HIDE DEF W
        <5>1. QED  BY <2>0, <3>4, AboveLeast
      <4>2. QED  BY <3>5, <3>6, <4>1
    <3>8. PICK i \in ToSet(InputsOf(ref)) : i \notin deep /\ (x = i \/ x \in Above(Avoiding(deep), i))
      BY <3>7
    <3>9. i \in Nodes \ deep
      BY <2>1, <3>8, InputsType
    <3> HIDE DEF Z, R, W
    <3>10. x \in analyzeLineage[deep][i].sources
      BY <1>1, <3>2, <3>3, <3>8, <3>9
    <3>11. QED  BY <3>1, <3>10
  <2>2. CASE ref \notin Compiled
    <3>1. l.sources = {ref} \cap {s \in Sources : Exists(s)}
      BY <2>2, AnalysisOf
    <3>2. Above(Avoiding(stack), ref) = {}
      <4>1. Above(Avoiding(stack), ref) \subseteq Above(Used, ref)
        BY <2>0, UsedEdges, AboveMonotone
      <4>2. QED  BY <2>2, <4>1, AboveInputs
    <3>3. QED  BY <1>1, <3>1, <3>2
  <2>3. QED  BY <2>1, <2>2
<1>2. \A stack \in SUBSET Nodes : (\A ref \in Nodes \ stack : stack \cup {ref} \in Z) => stack \in Z
  <2> SUFFICES ASSUME NEW stack \in SUBSET Nodes, \A ref \in Nodes \ stack : stack \cup {ref} \in Z
               PROVE  Right(stack)
    OBVIOUS
  <2>1. QED  BY <1>1
<1>3. \A stack \in SUBSET Nodes : stack \in Z
  <2> HIDE DEF Z
  <2>1. QED  BY <1>2, StackInduction
<1>4. QED  BY <1>3

(* The lineage of a set names the existing sources above it.               *)
LEMMA LineageIsRight ==
  ASSUME TypeOK, NEW n \in Nodes
  PROVE  /\ Lineage(n).cycle <=> CycleAbove(n)
         /\ Lineage(n).sources = {x \in (Above(Used, n) \cup {n}) \cap Sources : Exists(x)}
         /\ Lineage(n).operations = {} => n \notin Compiled
<1>1. {} \in SUBSET Nodes /\ BelowStack({}, n) /\ {} \subseteq Compiled /\ n \in Nodes \ {}
  BY DEF BelowStack
<1>2. Avoiding({}) = Used
  BY DEF Avoiding
<1>3. Lineage(n).cycle => CycleAbove(n)
  BY <1>1, LineageFindsCycles DEF Lineage
<1>4. ~Lineage(n).cycle => ~CycleAbove(n)
  BY <1>1, LineageFindsCycles DEF Lineage
<1>5. Lineage(n).sources \subseteq {x \in (Above(Used, n) \cup {n}) \cap Sources : Exists(x)}
  BY <1>1, LineageSourcesExist DEF Lineage
<1>6. {x \in (Above(Used, n) \cup {n}) \cap Sources : Exists(x)} \subseteq Lineage(n).sources
  BY <1>1, <1>2, LineageFindsSources DEF Lineage
<1>7. n \in Compiled => n \in Lineage(n).operations
  BY <1>1, AnalysisOf DEF Lineage
<1>8. CycleAbove(n) \in BOOLEAN /\ Lineage(n).cycle \in BOOLEAN
  BY <1>1, AnalysisDefined DEF Lineage, Analyses, Lineages, CycleAbove
<1>9. QED  BY <1>3, <1>4, <1>5, <1>6, <1>7, <1>8

-----------------------------------------------------------------------------
(* The invariants.                                                         *)

(* The orders of the questions are sequences of nodes.                     *)
LEMMA OrdersType ==
  ASSUME NEW order \in Orders
  PROVE  order \in Seq(Nodes)
<1> DEFINE N == Cardinality(Transforms)
<1>1. order \in [1 .. N -> Transforms]
  BY DEF Orders, SetToSeqs
<1>2. Transforms \in SUBSET Nodes
  BY DEF Nodes
<1>3. N \in Nat
  BY <1>2, NodesAssumption, FS_Subset, FS_CardinalityType
<1> HIDE DEF N
<1>4. order \in Seq(Transforms)
  BY <1>1, <1>3, FunctionSeq
<1>5. QED  BY <1>2, <1>4, SeqMonotonic

(* In a project that compiles, nothing but an unresolved source makes a    *)
(* set fail.                                                               *)
LEMMA CompiledSetsAnswer ==
  ASSUME TypeOK, GraphCompiles, NEW n \in Compiled, RightAnswer(n) = Failed
  PROVE  Above(Used, n) \cap unresolved # {}
<1>1. ~Sound(n)
  BY RightAnswerBySoundness DEF Ready, Failed
<1>2. PICK x \in Above(Used, n) \cup {n} : ~(Exists(x) /\ x \notin unresolved /\ ~OnACycle(x))
  BY <1>1 DEF Sound
<1>3. n \in Nodes /\ n \notin Sources
  BY InputsType
<1>4. x \in Nodes
  BY <1>2, <1>3, AboveInputs
<1>5. ~OnACycle(x)
  <2>1. x \notin Above(ToSet(edges), x)
    BY <1>4 DEF GraphCompiles, detectDataCycles
  <2>2. ToSet(edges) \subseteq Edges
    BY Elements DEF TypeOK
  <2>3. Above(Used, x) \subseteq Above(ToSet(edges), x)
    BY <2>2, UsedEdges, AboveMonotone
  <2>4. QED  BY <2>1, <2>3 DEF OnACycle
<1>6. Exists(x)
  <2>1. CASE x = n
    BY <2>1 DEF Exists
  <2>2. CASE x \in Above(Used, n)
    <3>1. PICK e \in Used : e.from = x
      BY <2>2, UsedEdges, FirstEdge
    <3>2. e.to \in Compiled /\ x \in ToSet(InputsOf(e.to))
      BY <3>1, UsedEdges
    <3>3. e.to \in (Transforms \cap nodes) \ off
      BY <3>2 DEF Compiled
    <3>4. PICK k \in DOMAIN InputsOf(e.to) : InputsOf(e.to)[k] = x
      BY <3>2 DEF ToSet
    <3>5. QED  BY <3>3, <3>4 DEF GraphCompiles
  <2>3. QED  BY <1>2, <2>1, <2>2
<1>7. x \in unresolved
  BY <1>2, <1>5, <1>6
<1>8. x # n
  BY <1>3, <1>7 DEF TypeOK
<1>9. QED  BY <1>2, <1>7, <1>8

(* The answers are right in every well-typed graph.                        *)
LEMMA TypedAnswersAreRight ==
  ASSUME TypeOK
  PROVE  AnswersAreRight
<1>1. ASSUME NEW order \in Orders
      PROVE  AnswersTo(order) = [k \in DOMAIN order |-> RightAnswer(order[k])]
  BY OrdersType, AnswersToAreRight
<1>2. ASSUME GraphCompiles, NEW n \in Compiled, RightAnswer(n) = Failed
      PROVE  Above(Used, n) \cap unresolved # {}
  BY <1>2, CompiledSetsAnswer
<1>3. ASSUME NEW n \in Transforms
      PROVE  /\ Lineage(n).cycle <=> \E x \in Above(Used, n) \cup {n} : OnACycle(x)
             /\ Lineage(n).sources = {x \in (Above(Used, n) \cup {n}) \cap Sources : Exists(x)}
  <2>1. n \in Nodes
    BY DEF Nodes
  <2>2. QED  BY <2>1, LineageIsRight DEF CycleAbove
<1>4. QED  BY <1>1, <1>2, <1>3 DEF AnswersAreRight

(* In whatever order the sets of a project are asked for, each answer is   *)
(* the one it would have alone, and the lineage agrees with it             *)
(* (materialize.ts 30-128, lineage.ts 17-58).                              *)
THEOREM AnswersStayRight == Spec => []AnswersAreRight
<1>1. TypeOK => AnswersAreRight
  BY TypedAnswersAreRight
<1>2. QED  BY <1>1, TypeCorrect, PTL

(* What the client loads itself is the set: it has one source, and nothing *)
(* is done to its proxies.                                                 *)
LEMMA LoadedByItself ==
  ASSUME TypeOK, NEW n \in Nodes, Exists(n), LoadsAll(Lineage(n))
  PROVE  /\ n \in Sources /\ Lineage(n).sources = {n}
         /\ RightAnswer(n) = Ready(Content[n])
<1>1. Lineage(n).operations = {} /\ Lineage(n).sources \cap unresolved = {}
  BY DEF LoadsAll
<1>2. n \notin Compiled
  BY <1>1, LineageIsRight
<1>3. n \in Sources
  BY <1>2 DEF Exists
<1>4. Above(Used, n) = {}
  BY <1>2, AboveInputs
<1>5. Lineage(n).sources = {n}
  BY <1>3, <1>4, LineageIsRight
<1>6. n \notin unresolved
  BY <1>1, <1>5
<1>7. RightAnswer(n) = Ready(Content[n])
  BY <1>2, <1>3, <1>6, RightAnswerPlain DEF PlainAnswer
<1>8. QED  BY <1>3, <1>5, <1>7

(* Exports keep the sets in every well-typed graph.                        *)
LEMMA TypedExportKeepsTheSet ==
  ASSUME TypeOK
  PROVE  ExportKeepsTheSet
<1> SUFFICES ASSUME NEW n \in {x \in Sources \cup Transforms : Exists(x)},
                    NEW modes \in SourceModes, NEW portable \in BOOLEAN, NEW consumer \in Consumers
             PROVE  LET plan == planRemoteProxySource(Lineage(n), modes, portable, consumer)
                        mode == {modes[s] : s \in {s \in Sources \cap (Above(Used, n) \cup {n}) : Exists(s)}}
                        gets == resolveProxySet(n, modes, Lineage(n), AnswersTo(<<n>>)[1], plan)
                    IN  /\ gets \in {Failed, IF n \in Sources /\ modes[n] = "provider" THEN Ready(Flow(n))
                                             ELSE IF plan = "native-remote" THEN RightAnswer(n)
                                             ELSE Named(RightAnswer(n))}
                        /\ gets = Failed => RightAnswer(n) = Failed \/ "remote" \in mode
                        /\ plan = "native-remote" => mode \subseteq {"auto", "remote"} /\ consumer = "group"
                        /\ plan = "materialized" => "remote" \notin mode
  BY DEF ExportKeepsTheSet
<1> DEFINE lineage == Lineage(n)
           right == RightAnswer(n)
           plan == planRemoteProxySource(lineage, modes, portable, consumer)
           origins == {s \in Sources \cap (Above(Used, n) \cup {n}) : Exists(s)}
           mode == {modes[s] : s \in origins}
           remote == {s \in lineage.sources : modes[s] \notin {"local", "provider"}}
           given == n \in Sources /\ modes[n] = "provider"
           gets == resolveProxySet(n, modes, lineage, right, plan)
<1>1. n \in Nodes /\ Exists(n)
  BY DEF Nodes
<1>2. AnswersTo(<<n>>)[1] = right
  <2>1. <<n>> \in Seq(Nodes) /\ DOMAIN <<n>> = 1 .. 1 /\ <<n>>[1] = n
    BY <1>1
  <2>2. AnswersTo(<<n>>) = [k \in 1 .. 1 |-> RightAnswer(<<n>>[k])]
    BY <2>1, AnswersToAreRight
  <2>3. QED  BY <2>1, <2>2
<1>3. lineage.sources = origins
  BY <1>1, LineageIsRight
<1>4. plan = IF \A s \in remote : modes[s] = "materialized" THEN "materialized"
             ELSE IF remote = lineage.sources /\ LoadsAll(lineage) /\ consumer = "group" /\ portable
             THEN "native-remote"
             ELSE IF \E s \in remote : modes[s] = "remote" THEN "unsupported" ELSE "materialized"
  BY DEF planRemoteProxySource
<1>5. /\ plan \in {"materialized", "native-remote", "unsupported"}
      /\ modes \in [Sources -> Modes]
  BY <1>4 DEF SourceModes
<1>6. gets = IF given THEN Ready(Content[n])
             ELSE CASE plan = "unsupported" -> Failed
                    [] plan = "native-remote" -> Ready(Content[CHOOSE s \in lineage.sources : TRUE])
                    [] plan = "materialized" -> Named(right)
  BY DEF resolveProxySet
<1>7. \A x : Ready(x) # Failed
  BY DEF Ready, Failed
<1>8. (Named(right) = Failed) => (right = Failed)
  BY <1>7 DEF Named
<1>9. given => gets = Ready(Flow(n)) /\ gets # Failed
  <2>1. n \in Sources => Flow(n) = Content[n]
    BY FlowOfSource
  <2> HIDE DEF gets
  <2>2. QED  BY <1>6, <1>7, <2>1
<1> HIDE DEF lineage, plan, gets, given, right
<1>10. SUFFICES /\ ~given => /\ gets \in {Failed, IF plan = "native-remote" THEN right ELSE Named(right)}
                             /\ gets = Failed => right = Failed \/ "remote" \in mode
                /\ plan = "native-remote" => mode \subseteq {"auto", "remote"} /\ consumer = "group"
                /\ plan = "materialized" => "remote" \notin mode
  <2> HIDE DEF mode
  <2>1. QED  BY <1>2, <1>9, <1>10 DEF lineage, plan, gets, given, right, mode
<1>11. CASE plan = "native-remote"
  <2>1. /\ remote = lineage.sources /\ LoadsAll(lineage) /\ consumer = "group"
        /\ ~\A s \in remote : modes[s] = "materialized"
    <3> HIDE DEF remote
    <3>1. QED  BY <1>4, <1>11
  <2>2. lineage.sources = {n} /\ n \in Sources /\ right = Ready(Content[n])
    BY <1>1, <2>1, LoadedByItself DEF lineage, right
  <2>3. modes[n] \in {"auto", "remote"}
    BY <1>5, <2>1, <2>2 DEF Modes
  <2>4. mode = {modes[n]}
    BY <1>3, <2>2
  <2>5. (CHOOSE s \in lineage.sources : TRUE) = n
    BY <2>2
  <2>6. ~given
    BY <2>3 DEF given
  <2>7. gets = right /\ gets # Failed
    BY <1>6, <1>7, <1>11, <2>2, <2>5, <2>6
  <2> HIDE DEF mode
  <2>8. QED  BY <1>11, <2>1, <2>3, <2>4, <2>7
<1>12. CASE plan = "materialized"
  <2>1. \A s \in remote : modes[s] # "remote"
    <3> HIDE DEF remote
    <3>1. QED  BY <1>4, <1>12
  <2>2. "remote" \notin mode
    <3> SUFFICES ASSUME NEW s \in origins PROVE modes[s] # "remote"
      OBVIOUS
    <3>1. s \in lineage.sources
      BY <1>3
    <3>2. CASE s \in remote
      BY <2>1, <3>2
    <3>3. CASE s \notin remote
      BY <3>1, <3>3
    <3>4. QED  BY <3>2, <3>3
  <2>3. ~given => gets = Named(right)
    BY <1>6, <1>12
  <2> HIDE DEF mode
  <2>4. QED  BY <1>8, <1>12, <2>2, <2>3
<1>13. CASE plan = "unsupported"
  <2>1. ~given => gets = Failed
    BY <1>6, <1>13
  <2>2. PICK s \in remote : modes[s] = "remote"
    <3> HIDE DEF remote
    <3>1. QED  BY <1>4, <1>13
  <2>3. "remote" \in mode
    BY <1>3, <2>2
  <2> HIDE DEF mode
  <2>4. QED  BY <1>13, <2>1, <2>3
<1>14. QED  BY <1>5, <1>11, <1>12, <1>13

(* Whatever the export modes and the target, a client that gets a set gets *)
(* what the set contains, as the list it loads or each proxy once; it gets *)
(* nothing only if the set fails or must be loaded; what may not be loaded *)
(* is not, and what must be is not replaced (remoteSourcePlanner.ts 46-125,*)
(* targets/mihomo/providers.ts 24-50).                                     *)
THEOREM ExportsKeepTheSet == Spec => []ExportKeepsTheSet
<1>1. TypeOK => ExportKeepsTheSet
  BY TypedExportKeepsTheSet
<1>2. QED  BY <1>1, TypeCorrect, PTL

-----------------------------------------------------------------------------
(* Edits and cycles.                                                       *)

HasCycle(es) == \E n \in Nodes : n \in Above(es, n)

(* Fewer edges close no cycle.                                             *)
LEMMA FewerEdges ==
  ASSUME NEW es, NEW fs, fs \subseteq es, es \subseteq Edges, HasCycle(fs)
  PROVE  HasCycle(es)
BY AboveMonotone DEF HasCycle

(* Without a path through n, the edges into n do not matter.               *)
LEMMA NotThrough ==
  ASSUME NEW fs, NEW es, fs \subseteq es, es \subseteq Edges, NEW n,
         \A e \in es \ fs : e.to = n,
         NEW m, m # n, n \notin Above(fs, m)
  PROVE  Above(es, m) = Above(fs, m)
<1>1. fs \subseteq Edges
  OBVIOUS
<1>2. ClosedFrom(fs, m, Above(fs, m))
  BY <1>1, AboveClosed
<1>3. ClosedFrom(es, m, Above(fs, m))
  BY <1>2 DEF ClosedFrom
<1>4. QED  BY <1>3, AboveLeast, AboveMonotone

(* Edges into n from nodes that n is not above close no cycle, however     *)
(* many they are.                                                          *)
LEMMA PickedInputsCloseNoCycle ==
  ASSUME NEW old, old \subseteq Edges, NEW es, es \subseteq Edges, NEW n \in Nodes,
         \A e \in es : \/ e \in old /\ e.to # n
                       \/ e.to = n /\ e.from # n /\ n \notin Above(old, e.from),
         HasCycle(es)
  PROVE  HasCycle(old)
<1> DEFINE fs == {e \in es : e.to # n}
<1>1. fs \subseteq old /\ fs \subseteq es /\ fs \subseteq Edges /\ \A e \in es \ fs : e.to = n
  OBVIOUS
<1>2. \A e \in es : e.to = n => e.from # n /\ n \notin Above(old, e.from)
  OBVIOUS
<1> HIDE DEF fs
<1>3. ASSUME NEW a, a # n, n \notin Above(old, a) PROVE Above(es, a) = Above(fs, a)
  <2>1. n \notin Above(fs, a)
    BY <1>1, <1>3, AboveMonotone
  <2>2. QED  BY <1>1, <1>3, <2>1, NotThrough
<1>4. n \notin Above(es, n)
  <2> SUFFICES ASSUME n \in Above(es, n) PROVE FALSE
    OBVIOUS
  <2>1. PICK e \in es : e.to = n /\ (n = e.from \/ n \in Above(es, e.from))
    BY LastEdge
  <2>2. e.from # n /\ n \notin Above(old, e.from)
    BY <1>2, <2>1
  <2>3. n \in Above(fs, e.from)
    BY <1>3, <2>1, <2>2
  <2>4. QED  BY <1>1, <2>2, <2>3, AboveMonotone
<1>5. PICK m \in Nodes : m \in Above(es, m)
  BY DEF HasCycle
<1>6. m # n
  BY <1>4, <1>5
<1>7. SUFFICES m \in Above(fs, m)
  BY <1>1, AboveMonotone DEF HasCycle
<1>8. CASE n \notin Above(fs, m)
  BY <1>1, <1>5, <1>6, <1>8, NotThrough
<1>9. CASE n \in Above(fs, m)
  <2> DEFINE W == Above(fs, m) \cup {n} \cup Above(es, n)
  <2>1. ClosedFrom(fs, m, Above(fs, m)) /\ ClosedFrom(es, n, Above(es, n))
    BY <1>1, AboveClosed
  <2>2. ClosedFrom(es, m, W)
    BY <1>1, <1>6, <2>1 DEF ClosedFrom
  <2> HIDE DEF W
  <2>3. m \in W
    BY <1>5, <2>2, AboveLeast
  <2>4. n \in Above(es, m)
    BY <1>1, <1>9, AboveMonotone
  <2>5. m \notin Above(es, n)
    BY <1>4, <2>4, AboveTransitive
  <2>6. QED  BY <1>6, <2>3, <2>5 DEF W
<1>10. QED  BY <1>8, <1>9

(* Two steps that follow each other, u before d: the nodes of P come       *)
(* before them, those of Q after them, and O are all other edges.          *)
Pipeline(O, P, Q, u, d) ==
  O \cup {Edge(p, u) : p \in P} \cup {Edge(u, d)} \cup {Edge(d, q) : q \in Q}
InLine(O, P, Q, u, d) ==
  /\ O \subseteq Edges /\ u \in Nodes /\ d \in Nodes /\ u # d
  /\ P \subseteq Nodes \ {u, d} /\ Q \subseteq Nodes \ {u, d}
  /\ \A e \in O : {e.from, e.to} \cap {u, d} = {}

(* The edges of a pipeline by their ends.                                  *)
LEMMA PipelineEdges ==
  ASSUME NEW O, NEW P, NEW Q, NEW u, NEW d, InLine(O, P, Q, u, d)
  PROVE  /\ Pipeline(O, P, Q, u, d) \subseteq Edges
         /\ InLine(O, P, Q, d, u)
         /\ \A e \in Pipeline(O, P, Q, u, d) :
               \/ e \in O /\ e.from \notin {u, d} /\ e.to \notin {u, d}
               \/ e.from \in P /\ e.to = u
               \/ e.from = u /\ e.to = d
               \/ e.from = d /\ e.to \in Q
         /\ \A p \in P : \E e \in Pipeline(O, P, Q, u, d) : e.from = p /\ e.to = u
         /\ \A q \in Q : \E e \in Pipeline(O, P, Q, u, d) : e.from = d /\ e.to = q
         /\ \E e \in Pipeline(O, P, Q, u, d) : e.from = u /\ e.to = d
         /\ O \subseteq Pipeline(O, P, Q, u, d)
<1>1. /\ \A p \in P : Edge(p, u) \in Edges /\ Edge(p, u).from = p /\ Edge(p, u).to = u
      /\ \A q \in Q : Edge(d, q) \in Edges /\ Edge(d, q).from = d /\ Edge(d, q).to = q
      /\ Edge(u, d) \in Edges /\ Edge(u, d).from = u /\ Edge(u, d).to = d
  BY EdgeType DEF InLine
<1>2. InLine(O, P, Q, d, u)
  BY DEF InLine
<1>3. \A e \in O : e \in Edges /\ e.from \notin {u, d} /\ e.to \notin {u, d}
  BY DEF InLine
<1>4. QED  BY <1>1, <1>2, <1>3 DEF Pipeline

(* Exchanged, the steps have the same above every other node.              *)
LEMMA ExchangeKeepsAbove ==
  ASSUME NEW O, NEW P, NEW Q, NEW u, NEW d, InLine(O, P, Q, u, d), NEW n, n \notin {u, d}
  PROVE  Above(Pipeline(O, P, Q, u, d), n) \subseteq Above(Pipeline(O, P, Q, d, u), n)
<1> DEFINE es == Pipeline(O, P, Q, u, d)
           fs == Pipeline(O, P, Q, d, u)
           A == Above(fs, n)
<1>1. /\ es \subseteq Edges /\ InLine(O, P, Q, d, u)
      /\ \A e \in es : \/ e \in O /\ e.from \notin {u, d} /\ e.to \notin {u, d}
                       \/ e.from \in P /\ e.to = u
                       \/ e.from = u /\ e.to = d
                       \/ e.from = d /\ e.to \in Q
  BY PipelineEdges
<1>2. /\ fs \subseteq Edges /\ O \subseteq fs
      /\ \A e \in fs : \/ e \in O /\ e.from \notin {u, d} /\ e.to \notin {u, d}
                       \/ e.from \in P /\ e.to = d
                       \/ e.from = d /\ e.to = u
                       \/ e.from = u /\ e.to \in Q
      /\ \A p \in P : \E e \in fs : e.from = p /\ e.to = d
      /\ \A q \in Q : \E e \in fs : e.from = u /\ e.to = q
      /\ \E e \in fs : e.from = d /\ e.to = u
  BY <1>1, PipelineEdges
<1> HIDE DEF es, fs
<1>3. ClosedFrom(fs, n, A)
  BY <1>2, AboveClosed
<1>4. u # d /\ P \cap {u, d} = {} /\ Q \cap {u, d} = {}
  BY DEF InLine
<1>5. d \in A => u \in A
  <2> SUFFICES ASSUME d \in A PROVE u \in A
    OBVIOUS
  <2>1. PICK e \in fs : e.from = d /\ (e.to = n \/ e.to \in A)
    BY <1>2, FirstEdge
  <2> HIDE DEF A
  <2>2. e.to = u
    BY <1>2, <1>4, <2>1
  <2>3. QED  BY <2>1, <2>2
<1> HIDE DEF A
<1>6. u \in A => d \in A
  BY <1>2, <1>3 DEF ClosedFrom
<1>7. ASSUME NEW e \in es, e.to = n \/ e.to \in A PROVE e.from \in A
  <2>1. CASE e \in O
    BY <1>2, <1>3, <1>7, <2>1 DEF ClosedFrom
  <2>2. CASE e.from \in P /\ e.to = u
    <3>1. d \in A
      BY <1>6, <1>7, <2>2
    <3>2. QED  BY <1>2, <1>3, <2>2, <3>1 DEF ClosedFrom
  <2>3. CASE e.from = u /\ e.to = d
    BY <1>5, <1>7, <2>3
  <2>4. CASE e.from = d /\ e.to \in Q
    <3>1. PICK f \in fs : f.from = u /\ f.to = e.to
      BY <1>2, <2>4
    <3>2. u \in A
      BY <1>3, <1>7, <3>1 DEF ClosedFrom
    <3>3. QED  BY <1>6, <2>4, <3>2
  <2>5. QED  BY <1>1, <2>1, <2>2, <2>3, <2>4
<1>8. ClosedFrom(es, n, A)
  BY <1>7 DEF ClosedFrom
<1>9. QED  BY <1>1, <1>8, AboveLeast DEF A, es, fs

(* The first step comes to stand where the second was.                     *)
LEMMA ExchangeOfSteps ==
  ASSUME NEW O, NEW P, NEW Q, NEW u, NEW d, InLine(O, P, Q, u, d),
         d \notin Above(Pipeline(O, P, Q, u, d), u)
  PROVE  LET es == Pipeline(O, P, Q, u, d)
             fs == Pipeline(O, P, Q, d, u)
         IN  /\ \A n \in Nodes \ {u, d} : Above(fs, n) = Above(es, n)
             /\ Above(fs, u) = (Above(es, d) \ {u}) \cup {d}
             /\ d \notin Above(fs, d) /\ u \notin Above(fs, d)
<1> DEFINE es == Pipeline(O, P, Q, u, d)
           fs == Pipeline(O, P, Q, d, u)
<1>1. /\ es \subseteq Edges /\ InLine(O, P, Q, d, u)
      /\ \A e \in es : \/ e \in O /\ e.from \notin {u, d} /\ e.to \notin {u, d}
                       \/ e.from \in P /\ e.to = u
                       \/ e.from = u /\ e.to = d
                       \/ e.from = d /\ e.to \in Q
      /\ \A p \in P : \E e \in es : e.from = p /\ e.to = u
      /\ \E e \in es : e.from = u /\ e.to = d
  BY PipelineEdges
<1>2. /\ fs \subseteq Edges
      /\ \A e \in fs : \/ e \in O /\ e.from \notin {u, d} /\ e.to \notin {u, d}
                       \/ e.from \in P /\ e.to = d
                       \/ e.from = d /\ e.to = u
                       \/ e.from = u /\ e.to \in Q
      /\ \A p \in P : \E e \in fs : e.from = p /\ e.to = d
      /\ \E e \in fs : e.from = d /\ e.to = u
  BY <1>1, PipelineEdges
<1>3. \A n : n \notin {u, d} => Above(fs, n) = Above(es, n)
  <2> SUFFICES ASSUME NEW n, n \notin {u, d} PROVE Above(fs, n) = Above(es, n)
    OBVIOUS
  <2>1. Above(es, n) \subseteq Above(fs, n)
    BY ExchangeKeepsAbove
  <2>2. Above(fs, n) \subseteq Above(es, n)
    <3>1. n \notin {d, u}
      OBVIOUS
    <3> HIDE DEF es, fs
    <3>2. QED  BY <1>1, <3>1, ExchangeKeepsAbove DEF es, fs
  <2>3. QED  BY <2>1, <2>2
<1>4. u # d /\ P \cap {u, d} = {} /\ Q \cap {u, d} = {}
  BY DEF InLine
<1>5. d \notin Above(es, u)
  OBVIOUS
<1> HIDE DEF es, fs
<1>6. ClosedFrom(es, u, Above(es, u)) /\ ClosedFrom(es, d, Above(es, d))
  BY <1>1, AboveClosed
<1>7. \A p \in P : p \in Above(es, u) /\ Above(es, p) \subseteq Above(es, u) /\ Above(fs, p) = Above(es, p)
  <2> SUFFICES ASSUME NEW p \in P
               PROVE  p \in Above(es, u) /\ Above(es, p) \subseteq Above(es, u) /\ Above(fs, p) = Above(es, p)
    OBVIOUS
  <2>1. p \in Above(es, u)
    BY <1>1, <1>6 DEF ClosedFrom
  <2>2. p \notin {u, d}
    BY <1>4
  <2>3. QED  BY <1>1, <1>3, <2>1, <2>2, AboveTransitive
<1>8. u \notin Above(es, u)
  <2> SUFFICES ASSUME u \in Above(es, u) PROVE FALSE
    OBVIOUS
  <2>1. PICK e \in es : e.from = u /\ (e.to = u \/ e.to \in Above(es, u))
    BY <1>1, FirstEdge
  <2>2. e.to = d
    BY <1>1, <1>4, <2>1
  <2>3. QED  BY <1>4, <1>5, <2>1, <2>2
<1>9. Above(fs, d) \subseteq Above(es, u)
  <2> SUFFICES ASSUME NEW x \in Above(fs, d) PROVE x \in Above(es, u)
    OBVIOUS
  <2>1. PICK e \in fs : e.to = d /\ (x = e.from \/ x \in Above(fs, e.from))
    BY <1>2, LastEdge
  <2>2. e.from \in P
    BY <1>2, <1>4, <2>1
  <2>3. QED  BY <1>7, <2>1, <2>2
<1>10. Above(es, u) \subseteq Above(fs, d)
  <2> SUFFICES ASSUME NEW x \in Above(es, u) PROVE x \in Above(fs, d)
    OBVIOUS
  <2>1. PICK e \in es : e.to = u /\ (x = e.from \/ x \in Above(es, e.from))
    BY <1>1, LastEdge
  <2>2. e.from \in P
    BY <1>1, <1>4, <2>1
  <2>3. e.from \in Above(fs, d)
    BY <1>2, <2>2, AboveClosed DEF ClosedFrom
  <2>4. Above(fs, e.from) \subseteq Above(fs, d)
    BY <1>2, <2>3, AboveTransitive
  <2>5. QED  BY <1>7, <2>1, <2>2, <2>3, <2>4
<1>11. Above(es, d) = {u} \cup Above(es, u)
  <2>1. ASSUME NEW x \in Above(es, d) PROVE x = u \/ x \in Above(es, u)
    <3>1. PICK e \in es : e.to = d /\ (x = e.from \/ x \in Above(es, e.from))
      BY <1>1, LastEdge
    <3>2. e.from = u
      BY <1>1, <1>4, <3>1
    <3>3. QED  BY <3>1, <3>2
  <2>2. u \in Above(es, d)
    BY <1>1, <1>6 DEF ClosedFrom
  <2>3. Above(es, u) \subseteq Above(es, d)
    BY <1>1, <2>2, AboveTransitive
  <2>4. QED  BY <2>1, <2>2, <2>3
<1>12. Above(fs, u) = {d} \cup Above(fs, d)
  <2>1. ASSUME NEW x \in Above(fs, u) PROVE x = d \/ x \in Above(fs, d)
    <3>1. PICK e \in fs : e.to = u /\ (x = e.from \/ x \in Above(fs, e.from))
      BY <1>2, LastEdge
    <3>2. e.from = d
      BY <1>2, <1>4, <3>1
    <3>3. QED  BY <3>1, <3>2
  <2>2. d \in Above(fs, u)
    BY <1>2, AboveClosed DEF ClosedFrom
  <2>3. Above(fs, d) \subseteq Above(fs, u)
    BY <1>2, <2>2, AboveTransitive
  <2>4. QED  BY <2>1, <2>2, <2>3
<1>13. Above(fs, u) = (Above(es, d) \ {u}) \cup {d}
  BY <1>8, <1>9, <1>10, <1>11, <1>12
<1>14. d \notin Above(fs, d) /\ u \notin Above(fs, d)
  BY <1>5, <1>8, <1>9
<1>15. QED  BY <1>3, <1>13, <1>14 DEF es, fs

(* What a swap makes of an edge: one into u, the one between, one out of d *)
(* and any other.                                                          *)
Moved(s, t, u, d, k) ==
  \/ s[k].to = u /\ s[k].from \notin {u, d} /\ t[k] = Edge(s[k].from, d)
  \/ s[k].from = u /\ s[k].to = d /\ t[k] = Edge(d, u)
  \/ s[k].from = d /\ s[k].to \notin {u, d} /\ t[k] = Edge(u, s[k].to)
  \/ s[k].from \notin {u, d} /\ s[k].to \notin {u, d} /\ t[k] = s[k]

(* A swap makes of each edge what its ends call for.                       *)
LEMMA SwapMoves ==
  ASSUME NEW s \in Seq(Edges), NEW u \in Nodes, NEW d \in Nodes, resolveProcessingSwap(s, u, d)
  PROVE  /\ u # d
         /\ \A k \in DOMAIN s : Moved(s, Swapped(s, u, d), u, d, k)
         /\ \E k \in DOMAIN s : s[k].from = u /\ s[k].to = d
<1> DEFINE t == Swapped(s, u, d)
<1>1. Len(s) \in Nat /\ DOMAIN s = 1 .. Len(s) /\ ToSet(s) \subseteq Edges
      /\ \A k \in DOMAIN s : s[k] \in ToSet(s)
  BY Elements DEF ToSet
<1>2. IsFiniteSet(DOMAIN s)
  BY <1>1, FS_Interval
<1>3. From(s, u) \in SUBSET (DOMAIN s)
  BY DEF From
<1>4. PICK j : From(s, u) = {j}
  <2>1. IsFiniteSet(From(s, u)) /\ Cardinality(From(s, u)) = 1
    BY <1>2, <1>3, FS_Subset DEF resolveProcessingSwap
  <2>2. QED  BY <2>1, FS_Singleton
<1>5. To(s, d) = {j} /\ j \in DOMAIN s /\ s[j].from = u /\ s[j].to = d
  BY <1>4 DEF resolveProcessingSwap, From, To
<1>6. \A k \in DOMAIN s : (s[k].from = u => k = j) /\ (s[k].to = d => k = j)
  BY <1>4, <1>5 DEF From, To
<1>7. d \notin Above(ToSet(s), u) /\ ClosedFrom(ToSet(s), u, Above(ToSet(s), u))
  BY <1>1, AboveClosed DEF resolveProcessingSwap
<1>8. \A k \in DOMAIN s : ~(s[k].from = d /\ s[k].to = u)
  BY <1>1, <1>7 DEF ClosedFrom
<1>9. u # d
  BY <1>5, <1>8
<1>10. ASSUME NEW k \in DOMAIN s PROVE Moved(s, t, u, d, k)
  <2>1. t[k] = CASE k \in To(s, u) -> Edge(s[k].from, d)
                 [] k \in From(s, u) -> Edge(d, u)
                 [] k \in From(s, d) -> Edge(u, s[k].to)
                 [] OTHER -> s[k]
    BY DEF Swapped
  <2>2. /\ k \in To(s, u) <=> s[k].to = u
        /\ k \in From(s, u) <=> s[k].from = u
        /\ k \in From(s, d) <=> s[k].from = d
    BY DEF To, From
  <2> HIDE DEF t
  <2>3. CASE s[k].to = u
    <3>1. s[k].from # u /\ s[k].from # d
      BY <1>5, <1>6, <1>8, <1>9, <2>3
    <3>2. t[k] = Edge(s[k].from, d)
      BY <2>1, <2>2, <2>3, <3>1
    <3>3. QED  BY <2>3, <3>1, <3>2 DEF Moved
  <2>4. CASE s[k].from = u
    <3>1. s[k].to = d
      BY <1>5, <1>6, <2>4
    <3>2. s[k].to # u /\ s[k].from # d
      BY <1>9, <2>4, <3>1
    <3>3. t[k] = Edge(d, u)
      BY <2>1, <2>2, <2>4, <3>2
    <3>4. QED  BY <2>4, <3>1, <3>3 DEF Moved
  <2>5. CASE s[k].from = d
    <3>1. s[k].to # u /\ s[k].from # u
      BY <1>8, <1>9, <2>5
    <3>2. s[k].to # d
      BY <1>5, <1>6, <3>1
    <3>3. t[k] = Edge(u, s[k].to)
      BY <2>1, <2>2, <2>5, <3>1
    <3>4. QED  BY <2>5, <3>1, <3>2, <3>3 DEF Moved
  <2>6. CASE s[k].to # u /\ s[k].from # u /\ s[k].from # d
    <3>1. s[k].to # d
      BY <1>5, <1>6, <2>6
    <3>2. t[k] = s[k]
      BY <2>1, <2>2, <2>6
    <3>3. QED  BY <2>6, <3>1, <3>2 DEF Moved
  <2>7. QED  BY <2>3, <2>4, <2>5, <2>6
<1>11. QED  BY <1>5, <1>9, <1>10

(* The edges before and after a swap are the two pipelines.                *)
LEMMA SwapExchanges ==
  ASSUME NEW s \in Seq(Edges), NEW u \in Nodes, NEW d \in Nodes, resolveProcessingSwap(s, u, d)
  PROVE  \E O, P, Q : /\ InLine(O, P, Q, u, d)
                      /\ ToSet(s) = Pipeline(O, P, Q, u, d)
                      /\ ToSet(Swapped(s, u, d)) = Pipeline(O, P, Q, d, u)
<1> DEFINE t == Swapped(s, u, d)
           O == {s[k] : k \in {i \in DOMAIN s : s[i].from \notin {u, d} /\ s[i].to \notin {u, d}}}
           P == {s[k].from : k \in {i \in DOMAIN s : s[i].to = u}}
           Q == {s[k].to : k \in {i \in DOMAIN s : s[i].from = d}}
<1>1. DOMAIN t = DOMAIN s
  BY SwappedType
<1>2. u # d /\ (\A k \in DOMAIN s : Moved(s, t, u, d, k)) /\ \E k \in DOMAIN s : s[k].from = u /\ s[k].to = d
  BY SwapMoves
<1> HIDE DEF t
<1>3. \A k \in DOMAIN s : s[k] \in Edges /\ s[k] = Edge(s[k].from, s[k].to) /\ s[k].from \in Nodes /\ s[k].to \in Nodes
  <2>1. \A k \in DOMAIN s : s[k] \in Edges
    BY Elements
  <2>2. \A e \in Edges : e = Edge(e.from, e.to) /\ e.from \in Nodes /\ e.to \in Nodes
    BY DEF Edges, Edge
  <2>3. QED  BY <2>1, <2>2
<1>4. InLine(O, P, Q, u, d)
  BY <1>2, <1>3 DEF InLine, Moved
<1>5. ToSet(s) = Pipeline(O, P, Q, u, d)
  <2>1. ASSUME NEW k \in DOMAIN s PROVE s[k] \in Pipeline(O, P, Q, u, d)
    <3>1. CASE s[k].to = u
      <4>1. s[k].from \in P /\ s[k] = Edge(s[k].from, u)
        BY <1>3, <3>1
      <4> HIDE DEF O, P, Q
      <4>2. QED  BY <4>1 DEF Pipeline
    <3>2. CASE s[k].from = u /\ s[k].to = d
      <4>1. s[k] = Edge(u, d)
        BY <1>3, <3>2
      <4> HIDE DEF O, P, Q
      <4>2. QED  BY <4>1 DEF Pipeline
    <3>3. CASE s[k].from = d
      <4>1. s[k].to \in Q /\ s[k] = Edge(d, s[k].to)
        BY <1>3, <3>3
      <4> HIDE DEF O, P, Q
      <4>2. QED  BY <4>1 DEF Pipeline
    <3>4. CASE s[k].from \notin {u, d} /\ s[k].to \notin {u, d}
      <4>1. s[k] \in O
        BY <3>4
      <4> HIDE DEF O, P, Q
      <4>2. QED  BY <4>1 DEF Pipeline
    <3>5. QED  BY <1>2, <3>1, <3>2, <3>3, <3>4 DEF Moved
  <2>2. ASSUME NEW e \in Pipeline(O, P, Q, u, d) PROVE \E k \in DOMAIN s : s[k] = e
    <3>1. CASE e \in O
      BY <3>1
    <3>2. CASE \E p \in P : e = Edge(p, u)
      BY <1>3, <3>2
    <3>3. CASE e = Edge(u, d)
      BY <1>2, <1>3, <3>3
    <3>4. CASE \E q \in Q : e = Edge(d, q)
      BY <1>3, <3>4
    <3> HIDE DEF O, P, Q
    <3>5. QED  BY <3>1, <3>2, <3>3, <3>4 DEF Pipeline
  <2> HIDE DEF O, P, Q
  <2>3. QED  BY <2>1, <2>2 DEF ToSet
<1>6. ToSet(t) = Pipeline(O, P, Q, d, u)
  <2>1. ASSUME NEW k \in DOMAIN s PROVE t[k] \in Pipeline(O, P, Q, d, u)
    <3>1. CASE s[k].to = u /\ t[k] = Edge(s[k].from, d)
      <4>1. s[k].from \in P
        BY <3>1
      <4> HIDE DEF O, P, Q
      <4>2. QED  BY <3>1, <4>1 DEF Pipeline
    <3>2. CASE t[k] = Edge(d, u)
      <4> HIDE DEF O, P, Q
      <4>1. QED  BY <3>2 DEF Pipeline
    <3>3. CASE s[k].from = d /\ t[k] = Edge(u, s[k].to)
      <4>1. s[k].to \in Q
        BY <3>3
      <4> HIDE DEF O, P, Q
      <4>2. QED  BY <3>3, <4>1 DEF Pipeline
    <3>4. CASE s[k].from \notin {u, d} /\ s[k].to \notin {u, d} /\ t[k] = s[k]
      <4>1. t[k] \in O
        BY <3>4
      <4> HIDE DEF O, P, Q
      <4>2. QED  BY <4>1 DEF Pipeline
    <3>5. QED  BY <1>2, <3>1, <3>2, <3>3, <3>4 DEF Moved
  <2>2. ASSUME NEW e \in Pipeline(O, P, Q, d, u) PROVE \E k \in DOMAIN s : t[k] = e
    <3>1. CASE e \in O
      BY <1>2, <3>1 DEF Moved
    <3>2. CASE \E p \in P : e = Edge(p, d)
      BY <1>2, <3>2 DEF Moved
    <3>3. CASE e = Edge(d, u)
      BY <1>2, <3>3 DEF Moved
    <3>4. CASE \E q \in Q : e = Edge(u, q)
      BY <1>2, <3>4 DEF Moved
    <3> HIDE DEF O, P, Q
    <3>5. QED  BY <3>1, <3>2, <3>3, <3>4 DEF Pipeline
  <2> HIDE DEF O, P, Q
  <2>3. QED  BY <1>1, <2>1, <2>2 DEF ToSet
<1> HIDE DEF O, P, Q
<1>7. QED  BY <1>4, <1>5, <1>6 DEF t

(* The opposite swap is possible, and takes the swap back.                 *)
LEMMA SwapBack ==
  ASSUME NEW s \in Seq(Edges), NEW u \in Transforms, NEW d \in Transforms, resolveProcessingSwap(s, u, d),
         u \notin Above(ToSet(Swapped(s, u, d)), d)
  PROVE  LET t == Swapped(s, u, d)
         IN  resolveProcessingSwap(t, d, u) /\ Swapped(t, d, u) = s
<1> DEFINE t == Swapped(s, u, d)
<1>1. u \in Nodes /\ d \in Nodes
  BY DEF Nodes
<1>2. DOMAIN t = DOMAIN s
  BY <1>1, SwappedType
<1>3. u # d /\ \A k \in DOMAIN s : Moved(s, t, u, d, k)
  BY <1>1, SwapMoves
<1>4. u \notin Above(ToSet(t), d)
  OBVIOUS
<1> HIDE DEF t
<1>5. \A k \in DOMAIN s : s[k] = Edge(s[k].from, s[k].to)
  <2>1. \A k \in DOMAIN s : s[k] \in Edges
    BY Elements
  <2>2. \A e \in Edges : e = Edge(e.from, e.to)
    BY DEF Edges, Edge
  <2>3. QED  BY <2>1, <2>2
<1>6. \A a, b : Edge(a, b).from = a /\ Edge(a, b).to = b
  BY DEF Edge
<1>7. \A k \in DOMAIN s :
         /\ t[k].to = d <=> s[k].to = u
         /\ t[k].from = d <=> s[k].from = u
         /\ t[k].to = u <=> s[k].from = u
         /\ t[k].from = u <=> s[k].from = d
         /\ s[k].to = d <=> s[k].from = u
         /\ s[k].to = u => t[k].from = s[k].from /\ s[k].from \notin {u, d}
         /\ s[k].from = d => t[k].to = s[k].to /\ s[k].to \notin {u, d}
         /\ \A p : p \notin {u, d} => (t[k].from = p <=> s[k].from = p) /\ (t[k].to = p <=> s[k].to = p)
  <2> SUFFICES ASSUME NEW k \in DOMAIN s
               PROVE  /\ t[k].to = d <=> s[k].to = u
                      /\ t[k].from = d <=> s[k].from = u
                      /\ t[k].to = u <=> s[k].from = u
                      /\ t[k].from = u <=> s[k].from = d
                      /\ s[k].to = d <=> s[k].from = u
                      /\ s[k].to = u => t[k].from = s[k].from /\ s[k].from \notin {u, d}
                      /\ s[k].from = d => t[k].to = s[k].to /\ s[k].to \notin {u, d}
                      /\ \A p : p \notin {u, d} => (t[k].from = p <=> s[k].from = p) /\ (t[k].to = p <=> s[k].to = p)
    OBVIOUS
  <2>1. CASE s[k].to = u /\ s[k].from \notin {u, d} /\ t[k] = Edge(s[k].from, d)
    BY <1>3, <1>6, <2>1
  <2>2. CASE s[k].from = u /\ s[k].to = d /\ t[k] = Edge(d, u)
    BY <1>3, <1>6, <2>2
  <2>3. CASE s[k].from = d /\ s[k].to \notin {u, d} /\ t[k] = Edge(u, s[k].to)
    BY <1>3, <1>6, <2>3
  <2>4. CASE s[k].from \notin {u, d} /\ s[k].to \notin {u, d} /\ t[k] = s[k]
    BY <1>3, <2>4
  <2>5. QED  BY <1>3, <2>1, <2>2, <2>3, <2>4 DEF Moved
<1>8. /\ To(t, d) = To(s, u) /\ From(t, d) = From(s, u) /\ To(t, u) = From(s, u)
      /\ From(t, u) = From(s, d)
      /\ \A p : p \notin {u, d} => From(t, p) = From(s, p) /\ To(t, p) = To(s, p)
  <2>1. To(t, d) = To(s, u)
    BY <1>2, <1>7 DEF To
  <2>2. From(t, d) = From(s, u)
    BY <1>2, <1>7 DEF From
  <2>3. To(t, u) = From(s, u)
    BY <1>2, <1>7 DEF To, From
  <2>4. From(t, u) = From(s, d)
    BY <1>2, <1>7 DEF From
  <2>5. ASSUME NEW p, p \notin {u, d} PROVE From(t, p) = From(s, p)
    BY <1>2, <1>7, <2>5 DEF From
  <2>6. ASSUME NEW p, p \notin {u, d} PROVE To(t, p) = To(s, p)
    BY <1>2, <1>7, <2>6 DEF To
  <2>7. QED  BY <2>1, <2>2, <2>3, <2>4, <2>5, <2>6
<1>9. /\ Cardinality(To(s, u)) <= 1 /\ Cardinality(From(s, d)) <= 1 /\ Cardinality(From(s, u)) = 1
      /\ \A k \in To(s, u) : s[k].from \in Transforms => Cardinality(From(s, s[k].from)) = 1
      /\ \A k \in From(s, d) : s[k].to \in Transforms => Cardinality(To(s, s[k].to)) = 1
  BY DEF resolveProcessingSwap
<1>10. \A k \in To(t, d) : t[k].from \in Transforms => Cardinality(From(t, t[k].from)) = 1
  <2> SUFFICES ASSUME NEW k \in To(s, u), t[k].from \in Transforms
               PROVE  Cardinality(From(t, t[k].from)) = 1
    BY <1>8
  <2>1. t[k].from = s[k].from /\ s[k].from \notin {u, d}
    BY <1>7 DEF To
  <2>2. QED  BY <1>8, <1>9, <2>1
<1>11. \A k \in From(t, u) : t[k].to \in Transforms => Cardinality(To(t, t[k].to)) = 1
  <2> SUFFICES ASSUME NEW k \in From(s, d), t[k].to \in Transforms
               PROVE  Cardinality(To(t, t[k].to)) = 1
    BY <1>8
  <2>1. t[k].to = s[k].to /\ s[k].to \notin {u, d}
    BY <1>7 DEF From
  <2>2. QED  BY <1>8, <1>9, <2>1
<1>12. resolveProcessingSwap(t, d, u)
  BY <1>4, <1>8, <1>9, <1>10, <1>11 DEF resolveProcessingSwap
<1>13. Swapped(t, d, u) = s
  <2> DEFINE r == Swapped(t, d, u)
  <2>1. DOMAIN r = DOMAIN s /\ r = [k \in DOMAIN s |-> r[k]]
    BY <1>2 DEF Swapped
  <2>2. ASSUME NEW k \in DOMAIN s PROVE r[k] = s[k]
    <3>1. r[k] = CASE k \in To(t, d) -> Edge(t[k].from, u)
                   [] k \in From(t, d) -> Edge(u, d)
                   [] k \in From(t, u) -> Edge(d, t[k].to)
                   [] OTHER -> t[k]
      BY <1>2 DEF Swapped
    <3>2. /\ k \in To(t, d) <=> s[k].to = u
          /\ k \in From(t, d) <=> s[k].from = u
          /\ k \in From(t, u) <=> s[k].from = d
      BY <1>8 DEF To, From
    <3> HIDE DEF r
    <3>3. CASE s[k].to = u
      <4>1. s[k].from # u /\ s[k].from # d /\ t[k].from = s[k].from
        BY <1>7, <3>3
      <4>2. r[k] = Edge(t[k].from, u)
        BY <3>1, <3>2, <3>3, <4>1
      <4>3. QED  BY <1>5, <3>3, <4>1, <4>2
    <3>4. CASE s[k].from = u
      <4>1. s[k].to = d /\ s[k].to # u /\ s[k].from # d
        BY <1>3, <1>7, <3>4
      <4>2. r[k] = Edge(u, d)
        BY <3>1, <3>2, <3>4, <4>1
      <4>3. QED  BY <1>5, <3>4, <4>1, <4>2
    <3>5. CASE s[k].from = d
      <4>1. s[k].to # u /\ s[k].from # u /\ t[k].to = s[k].to
        BY <1>3, <1>7, <3>5
      <4>2. r[k] = Edge(d, t[k].to)
        BY <3>1, <3>2, <3>5, <4>1
      <4>3. QED  BY <1>5, <3>5, <4>1, <4>2
    <3>6. CASE s[k].to # u /\ s[k].from # u /\ s[k].from # d
      <4>1. r[k] = t[k]
        BY <3>1, <3>2, <3>6
      <4>2. t[k] = s[k]
        BY <1>3, <3>6 DEF Moved
      <4>3. QED  BY <4>1, <4>2
    <3>7. QED  BY <3>3, <3>4, <3>5, <3>6
  <2>3. s = [k \in DOMAIN s |-> s[k]]
    BY LenProperties
  <2> HIDE DEF r
  <2>4. r = s
    BY <2>1, <2>2, <2>3
  <2>5. QED  BY <2>4 DEF r
<1>14. QED  BY <1>12, <1>13 DEF t

(* A move exchanges two steps, closes no cycle and can be taken back.      *)
LEMMA MoveKeepsTheFlow ==
  ASSUME NEW s \in Seq(Edges), NEW u \in Transforms, NEW d \in Transforms, resolveProcessingSwap(s, u, d)
  PROVE  LET t == Swapped(s, u, d)
         IN  /\ \A n \in Nodes \ {u, d} : Above(ToSet(t), n) = Above(ToSet(s), n)
             /\ Above(ToSet(t), u) = (Above(ToSet(s), d) \ {u}) \cup {d}
             /\ resolveProcessingSwap(t, d, u) /\ Swapped(t, d, u) = s
             /\ HasCycle(ToSet(t)) => HasCycle(ToSet(s))
<1> DEFINE t == Swapped(s, u, d)
<1>1. u \in Nodes /\ d \in Nodes
  BY DEF Nodes
<1>2. PICK O, P, Q : /\ InLine(O, P, Q, u, d)
                     /\ ToSet(s) = Pipeline(O, P, Q, u, d)
                     /\ ToSet(t) = Pipeline(O, P, Q, d, u)
  BY <1>1, SwapExchanges
<1>3. d \notin Above(ToSet(s), u)
  BY DEF resolveProcessingSwap
<1> HIDE DEF t
<1>4. /\ \A n \in Nodes \ {u, d} : Above(ToSet(t), n) = Above(ToSet(s), n)
      /\ Above(ToSet(t), u) = (Above(ToSet(s), d) \ {u}) \cup {d}
      /\ d \notin Above(ToSet(t), d) /\ u \notin Above(ToSet(t), d)
  BY <1>2, <1>3, ExchangeOfSteps
<1>5. resolveProcessingSwap(t, d, u) /\ Swapped(t, d, u) = s
  BY <1>4, SwapBack DEF t
<1>6. ASSUME HasCycle(ToSet(t)) PROVE HasCycle(ToSet(s))
  <2>1. PICK m \in Nodes : m \in Above(ToSet(t), m)
    BY <1>6 DEF HasCycle
  <2>2. m # d
    BY <1>4, <2>1
  <2>3. m # u
    <3>1. u # d
      BY <1>2 DEF InLine
    <3>2. QED  BY <1>4, <2>1, <3>1
  <2>4. QED  BY <1>4, <2>1, <2>2, <2>3 DEF HasCycle
<1>7. QED  BY <1>4, <1>5, <1>6 DEF t

(* Only a connection drawn on the canvas can close a cycle, and a move of  *)
(* a step keeps the flow and can be taken back (useBuilderStore.ts 472-505,*)
(* processingPipeline.ts 51-120).                                          *)
THEOREM EditsPreserveTheFlow == Spec => EditsKeepTheFlow
<1> DEFINE Drawn == /\ \E a, b \in Nodes : Connect(a, b)
                    /\ ~\E n \in Nodes, inputs \in Picks : SetInputs(n, inputs)
           Closes == detectDataCycles(edges') /\ ~detectDataCycles(edges)
           Keeps(u, d) ==
              /\ \A n \in Nodes \ {u, d} : Above(ToSet(edges'), n) = Above(ToSet(edges), n)
              /\ Above(ToSet(edges'), u) = (Above(ToSet(edges), d) \ {u}) \cup {d}
              /\ resolveProcessingSwap(edges', d, u)
              /\ Swapped(edges', d, u) = edges
<1>1. ASSUME TypeOK, NEW u \in Transforms, NEW d \in Transforms, MoveStep(u, d)
      PROVE  Keeps(u, d) /\ (HasCycle(ToSet(edges')) => HasCycle(ToSet(edges)))
  <2>1. /\ edges \in Seq(Edges) /\ resolveProcessingSwap(edges, u, d)
        /\ edges' = Swapped(edges, u, d)
    BY <1>1 DEF TypeOK, MoveStep, SetEdges
  <2>2. QED  BY <2>1, MoveKeepsTheFlow
<1>2. ASSUME TypeOK, Next, ~Drawn PROVE HasCycle(ToSet(edges')) => HasCycle(ToSet(edges))
  <2>1. edges \in Seq(Edges) /\ ToSet(edges) \subseteq Edges
    BY <1>2, Elements DEF TypeOK
  <2>2. ASSUME NEW a \in Nodes, NEW b \in Nodes, Connect(a, b)
        PROVE  \E n \in Nodes, inputs \in Picks : SetInputs(n, inputs)
    BY <1>2, <2>2
  <2>3. ASSUME NEW k \in DOMAIN edges, Disconnect(k)
        PROVE  HasCycle(ToSet(edges')) => HasCycle(ToSet(edges))
    <3>1. k \in 1 .. Len(edges)
      BY <2>1, Elements
    <3>2. ToSet(edges') \subseteq ToSet(edges)
      BY <2>1, <2>3, <3>1, Removal DEF Disconnect, SetEdges
    <3>3. QED  BY <2>1, <3>2, FewerEdges
  <2>4. ASSUME NEW n \in Nodes, NEW inputs \in Picks, SetInputs(n, inputs)
        PROVE  HasCycle(ToSet(edges')) => HasCycle(ToSet(edges))
    <3> DEFINE W == [from : Nodes, to : Nodes \ {n}]
               elsewhere == Keeping(edges, W)
               new == [k \in DOMAIN inputs |-> Edge(inputs[k], n)]
    <3>1. elsewhere \in Seq(Edges) /\ ToSet(elsewhere) = ToSet(edges) \cap W
      BY <2>1, KeepingWorks
    <3>2. new \in Seq(Edges) /\ ToSet(new) = {Edge(a, n) : a \in ToSet(inputs)}
      BY PicksType, NewEdges
    <3>3. edges' = elsewhere \o new /\ \A k \in DOMAIN inputs : canUseWorkspaceInput(inputs[k], n)
      BY <2>4 DEF SetInputs, SetEdges
    <3> HIDE DEF elsewhere, new
    <3>4. edges' \in Seq(Edges) /\ ToSet(edges') = (ToSet(edges) \cap W) \cup {Edge(a, n) : a \in ToSet(inputs)}
      BY <3>1, <3>2, <3>3, Joined
    <3>5. \A a \in ToSet(inputs) : canUseWorkspaceInput(a, n)
      BY <3>3 DEF ToSet
    <3>6. \A a \in ToSet(inputs) : a # n /\ n \notin Above(ToSet(edges), a)
      BY <3>5 DEF canUseWorkspaceInput, isConnectionAllowed
    <3>7. \A e \in ToSet(edges') : \/ e \in ToSet(edges) /\ e.to # n
                                   \/ e.to = n /\ e.from # n /\ n \notin Above(ToSet(edges), e.from)
      BY <3>4, <3>6 DEF Edge
    <3>8. ToSet(edges') \subseteq Edges
      BY <3>4, Elements
    <3> DEFINE old == ToSet(edges)
               es == ToSet(edges')
    <3>9. old \subseteq Edges /\ es \subseteq Edges
      BY <2>1, <3>8
    <3>10. \A e \in es : \/ e \in old /\ e.to # n
                         \/ e.to = n /\ e.from # n /\ n \notin Above(old, e.from)
      BY <3>7
    <3> HIDE DEF W, old, es
    <3>11. HasCycle(es) => HasCycle(old)
      BY <3>9, <3>10, PickedInputsCloseNoCycle
    <3>12. QED  BY <3>11 DEF old, es
  <2>5. ASSUME NEW u \in Transforms, NEW d \in Transforms, MoveStep(u, d)
        PROVE  HasCycle(ToSet(edges')) => HasCycle(ToSet(edges))
    BY <1>1, <1>2, <2>5
  <2>6. ASSUME NEW n \in Nodes, ToggleDisabled(n) PROVE edges' = edges
    BY <2>6 DEF ToggleDisabled
  <2>7. ASSUME NEW n \in Nodes, RemoveNode(n)
        PROVE  HasCycle(ToSet(edges')) => HasCycle(ToSet(edges))
    <3>1. ToSet(edges') \subseteq ToSet(edges)
      BY <2>1, <2>7, KeepingWorks DEF RemoveNode
    <3>2. QED  BY <2>1, <3>1, FewerEdges
  <2> HIDE DEF Drawn
  <2>8. QED  BY <1>2, <2>2, <2>3, <2>4, <2>5, <2>6, <2>7 DEF Next
<1>3. ASSUME TypeOK, [Next]_vars
      PROVE  [/\ Closes => Drawn
              /\ \A u, d \in Transforms : MoveStep(u, d) => Keeps(u, d)]_vars
  <2>1. CASE UNCHANGED vars
    BY <2>1
  <2>2. CASE Next
    <3>1. Closes => HasCycle(ToSet(edges')) /\ ~HasCycle(ToSet(edges))
      BY DEF detectDataCycles, HasCycle
    <3>2. Closes => Drawn
      <4> HIDE DEF Closes, Drawn
      <4>1. QED  BY <1>2, <1>3, <2>2, <3>1
    <3>3. \A u, d \in Transforms : MoveStep(u, d) => Keeps(u, d)
      <4> HIDE DEF Keeps
      <4>1. QED  BY <1>1, <1>3
    <3> HIDE DEF Closes, Drawn, Keeps
    <3>4. QED  BY <3>2, <3>3
  <2>3. QED  BY <1>3, <2>1, <2>2
<1>4. QED  BY <1>3, TypeCorrect, PTL DEF Spec, EditsKeepTheFlow
=============================================================================
