------------------------- MODULE FetchGatewayProofs -------------------------
(***************************************************************************)
(* Proofs about FetchGateway, for every number of calls and every choice   *)
(* of deadlines and limits.                                                *)
(*                                                                         *)
(* Four facts carry them: what is left of a deadline and the age of the    *)
(* fetch add up to Timeout, whatever redirects and user agents it has gone *)
(* through; a client's patience is used up by the fetch it waits for or    *)
(* was used up before that began; the counter of withConcurrency() is the  *)
(* number of requests in progress; and of the requests of the last window  *)
(* the first is as old as that window, so that it is forgotten when the    *)
(* next one opens.                                                         *)
(***************************************************************************)
EXTENDS FetchGateway, FiniteSetTheorems, SequenceTheorems, WellFoundedInduction, TLAPS

CallType ==
    [pc : Phases \cup Outcomes, kind : Kinds, agent : 1 .. Agents, hop : 0 .. MaxRedirects,
     left : 0 .. Timeout, age : Nat, packed : BOOLEAN, wire : Nat, size : Nat]

ClientType == [waiting : BOOLEAN, patience : 0 .. Patience, slow : 0 .. Patience]

(* A call by itself. *)
Sound(r) ==
    /\ r.pc \in Fetching => r.left + r.age = Timeout
    /\ r.pc \in {"json", "resolve", "request"} => r.wire = 0 /\ r.size = 0
    /\ r.pc = "body" => r.size <= MaxBytes
    /\ r.pc = "text" => r.kind # "browser" /\ r.size <= MaxBytes

(* A call and the client that waits for it. *)
Waits(r, w) ==
    w.waiting =>
        /\ r.kind = "gateway"
        /\ \/ r.pc = "json" /\ w.patience + w.slow = Patience
           \/ r.pc \in Fetching /\ w.patience + w.slow + r.age = Patience

Holds(r) == r.kind = "gateway" /\ r.pc \in Phases

Slots == {c \in Calls : Holds(call[c])}

SlotsCounted ==
    /\ IsFiniteSet(Slots)
    /\ concurrent = Cardinality(Slots)
    /\ concurrent <= MaxConcurrent

Ages == 0 .. Window - 1

(* The window of the limiter and the requests it has allowed: those of the *)
(* window come last, and of those before it the first is always missing.   *)
Within(w, ages) ==
    /\ w \in [age : 0 .. Window, count : 0 .. MaxPerWindow]
    /\ ages \in Seq(Ages)
    /\ \A i, j \in 1 .. Len(ages) : i < j => ages[j] <= ages[i]
    /\ w.age < Window =>
          /\ w.count \in 1 .. Len(ages)
          /\ ages[Len(ages) - w.count + 1] = w.age
          /\ Len(ages) - w.count < MaxPerWindow
    /\ w.age = Window => Len(ages) < MaxPerWindow

IInv ==
    /\ call \in [Calls -> CallType]
    /\ client \in [Calls -> ClientType]
    /\ concurrent \in Nat
    /\ Within(window, recent)
    /\ \A c \in Calls : Sound(call[c]) /\ Waits(call[c], client[c])
    /\ SlotsCounted

LEMMA Constants ==
    /\ Timeout \in Nat /\ Timeout >= 1
    /\ Patience \in Nat /\ Patience >= 1
    /\ Window \in Nat /\ Window >= 1
    /\ MaxPerWindow \in Nat /\ MaxPerWindow >= 1
    /\ MaxConcurrent \in Nat /\ MaxConcurrent >= 1
    /\ Agents \in Nat /\ Agents >= 1
    /\ MaxRedirects \in Nat /\ MaxBytes \in Nat /\ None \notin Nat
<1>1. \A n \in Nat \ {0} : n \in Nat /\ n >= 1
  OBVIOUS
<1>2. QED  BY <1>1, TimeAssumption, SizeAssumption

\* The records that calls and clients are made of are well typed.
LEMMA Records ==
    /\ \A kind \in Kinds, pc \in Phases \cup Outcomes : At(pc, kind) \in CallType
    /\ \A pc, kind : At(pc, kind).pc = pc /\ At(pc, kind).kind = kind
    /\ NoCall \in CallType /\ Sound(NoCall) /\ ~Holds(NoCall)
    /\ Away \in ClientType /\ \A r : Waits(r, Away)
BY Constants DEF At, CallType, ClientType, NoCall, Away, Sound, Waits, Holds, Kinds,
                 Phases, Fetching, Outcomes

\* A fetch ends with a text within the limit, or with nothing.
LEMMA EndedIsSound ==
  ASSUME NEW kind \in Kinds, NEW size \in Nat \cup {None},
         size \in Nat => size <= MaxBytes \/ kind = "browser"
  PROVE  Ended(kind, size) \in CallType /\ Sound(Ended(kind, size)) /\ ~Holds(Ended(kind, size))
<1>1. CASE size = None \/ kind = "browser"
  BY <1>1, Records DEF Ended
<1>2. CASE ~(size = None \/ kind = "browser")
  <2>1. size \in Nat /\ size <= MaxBytes /\ kind # "browser"
    BY <1>2
  <2>2. Ended(kind, size) =
          [pc |-> "text", kind |-> kind, agent |-> 1, hop |-> 0, left |-> 0, age |-> 0,
           packed |-> FALSE, wire |-> 0, size |-> size]
    BY <1>2 DEF Ended, At
  <2>3. QED
    BY <2>1, <2>2, Constants DEF CallType, Sound, Holds, Phases, Fetching, Outcomes
<1>3. QED  BY <1>1, <1>2

-----------------------------------------------------------------------------
(* The rate limiter.                                                       *)

\* A set of natural numbers that is not empty has a least element.
LEMMA LeastNatural ==
  ASSUME NEW T \in SUBSET Nat, T # {}
  PROVE  \E n \in T : \A m \in T : n <= m
<1> DEFINE R == OpToRel(<, Nat)
<1>1. IsWellFoundedOn(R, Nat)
  BY NatLessThanWellFounded
<1>2. \A x, y \in Nat : x < y => <<x, y>> \in R
  BY DEF OpToRel
<1> HIDE DEF R
<1>3. PICK n \in T : \A m \in T : ~(<<m, n>> \in R)
  BY <1>1, WFMin
<1>4. \A m \in T : ~(m < n)
  BY <1>2, <1>3
<1>5. QED  BY <1>4

\* The length and the elements of a sequence.
LEMMA Elements ==
  ASSUME NEW S, NEW s \in Seq(S)
  PROVE  Len(s) \in Nat /\ \A i \in 1 .. Len(s) : s[i] \in S
BY LenProperties, ElementOfSeq

\* Of ages that do not increase, those that reach a window's are the first.
LEMMA OldComeFirst ==
  ASSUME NEW ages \in Seq(Nat), Window \in Nat,
         \A i, j \in 1 .. Len(ages) : i < j => ages[j] <= ages[i]
  PROVE  \E k \in 0 .. Len(ages) :
            \A i \in 1 .. Len(ages) : ages[i] + 1 >= Window <=> i <= k
<1> DEFINE n == Len(ages)
           T == {k \in 0 .. n : \A i \in 1 .. n : i > k => ages[i] + 1 < Window}
<1>1. n \in Nat /\ \A i \in 1 .. n : ages[i] \in Nat
  BY Elements
<1>2. n \in T /\ T \in SUBSET Nat
  BY <1>1
<1>3. PICK k \in T : \A m \in T : k <= m
  <2> HIDE DEF T
  <2>1. QED  BY <1>2, LeastNatural
<1>4. k \in 0 .. n /\ \A i \in 1 .. n : i > k => ages[i] + 1 < Window
  BY <1>3
<1>5. ASSUME NEW i \in 1 .. n, i <= k
      PROVE  ages[i] + 1 >= Window
  <2>1. k \in 1 .. n /\ k - 1 \in 0 .. n
    BY <1>1, <1>4, <1>5
  <2>2. PICK j \in 1 .. n : j > k - 1 /\ ~(ages[j] + 1 < Window)
    <3>1. k - 1 \notin T
      <4> HIDE DEF T
      <4>1. QED  BY <1>3, <1>4, <2>1
    <3>2. QED  BY <2>1, <3>1
  <2>3. j = k
    BY <1>1, <1>4, <2>1, <2>2
  <2>4. ages[k] <= ages[i]
    BY <1>1, <1>5, <2>1
  <2>5. QED  BY <1>1, <2>1, <2>2, <2>3, <2>4
<1>6. ASSUME NEW i \in 1 .. n
      PROVE  ages[i] + 1 >= Window <=> i <= k
  <2>1. CASE i <= k
    BY <1>5, <2>1
  <2>2. CASE ~(i <= k)
    <3>1. i > k /\ ages[i] \in Nat
      BY <1>1, <1>4, <2>2
    <3>2. ages[i] + 1 < Window
      BY <1>4, <3>1
    <3>3. QED  BY <2>2, <3>1, <3>2
  <2>3. QED  BY <2>1, <2>2
<1>7. QED  BY <1>4, <1>6

\* One unit later, the ages that are left are one unit older.
LEMMA AgedSequence ==
  ASSUME NEW ages \in Seq(Ages),
         \A i, j \in 1 .. Len(ages) : i < j => ages[j] <= ages[i]
  PROVE  \E k \in 0 .. Len(ages) :
            /\ \A i \in 1 .. Len(ages) : ages[i] + 1 >= Window <=> i <= k
            /\ Aged(ages) \in Seq(Ages)
            /\ Len(Aged(ages)) = Len(ages) - k
            /\ \A i \in 1 .. Len(ages) - k : Aged(ages)[i] = ages[i + k] + 1
<1> DEFINE n == Len(ages)
           P(k) == \A i \in 1 .. n : ages[i] + 1 >= Window <=> i <= k
           old == CHOOSE k \in 0 .. n : P(k)
<1>1. n \in Nat /\ \A i \in 1 .. n : ages[i] \in Ages
  BY Elements
<1>2. ages \in Seq(Nat)
  BY <1>1, IsASeq DEF Ages
<1>3. \E k \in 0 .. n : P(k)
  BY <1>2, OldComeFirst, Constants
<1>4. old \in 0 .. n /\ P(old)
  BY <1>3
<1>5. Aged(ages) = [i \in 1 .. n - old |-> ages[i + old] + 1]
  BY DEF Aged
<1> HIDE DEF old
<1>6. \A i \in 1 .. n - old : ages[i + old] + 1 \in Ages
  <2> SUFFICES ASSUME NEW i \in 1 .. n - old
               PROVE  ages[i + old] + 1 \in Ages
    OBVIOUS
  <2>1. i + old \in 1 .. n /\ ~(i + old <= old)
    BY <1>1, <1>4
  <2>2. ~(ages[i + old] + 1 >= Window)
    BY <1>4, <2>1
  <2>3. QED  BY <1>1, <2>1, <2>2, Constants DEF Ages
<1>7. n - old \in Nat
  BY <1>1, <1>4
<1>8. Aged(ages) \in Seq(Ages) /\ Len(Aged(ages)) = n - old
  BY <1>5, <1>6, <1>7, IsASeq
<1>9. QED  BY <1>4, <1>5, <1>8

\* A request that is allowed opens a window when the last one is forgotten up
\* to its first request, or is one more of the window.
LEMMA AllowKeeps ==
  ASSUME Within(window, recent), Allowed, Allow
  PROVE  Within(window', recent')
<1> DEFINE n == Len(recent)
<1>1. /\ window.age \in 0 .. Window /\ window.count \in 0 .. MaxPerWindow
      /\ n \in Nat /\ \A i \in 1 .. n : recent[i] \in Ages
  BY Elements DEF Within
<1>2. 0 \in Ages
  BY Constants DEF Ages
<1>3. /\ recent' \in Seq(Ages) /\ Len(recent') = n + 1
      /\ \A i \in 1 .. n : recent'[i] = recent[i]
      /\ recent'[n + 1] = 0
  BY <1>2, AppendProperties DEF Within, Allow
<1>4. \A i, j \in 1 .. Len(recent') : i < j => recent'[j] <= recent'[i]
  <2> SUFFICES ASSUME NEW i \in 1 .. n + 1, NEW j \in 1 .. n + 1, i < j
               PROVE  recent'[j] <= recent'[i]
    BY <1>3
  <2>1. i \in 1 .. n /\ recent'[i] = recent[i]
    BY <1>1, <1>3
  <2>2. CASE j = n + 1
    BY <1>1, <1>3, <2>1, <2>2 DEF Ages
  <2>3. CASE j # n + 1
    BY <1>1, <1>3, <2>1, <2>3 DEF Within
  <2>4. QED  BY <2>2, <2>3
<1>5. CASE window.age >= Window
  <2>1. window' = [age |-> 0, count |-> 1]
    BY <1>5 DEF Allow, Counted
  <2>2. n < MaxPerWindow
    BY <1>1, <1>5, Constants DEF Within
  <2>3. QED  BY <1>1, <1>3, <1>4, <2>1, <2>2, Constants DEF Within
<1>6. CASE ~(window.age >= Window)
  <2>1. window' = [window EXCEPT !.count = window.count + 1] /\ window.count < MaxPerWindow
    BY <1>6 DEF Allow, Counted, Allowed
  <2>2. window' \in [age : 0 .. Window, count : 0 .. MaxPerWindow]
        /\ window'.age = window.age /\ window'.count = window.count + 1
    <3>1. window.count + 1 \in 0 .. MaxPerWindow
      BY ONLY <1>1, <2>1, Constants
    <3>2. window \in [age : 0 .. Window, count : 0 .. MaxPerWindow]
      BY DEF Within
    <3> DEFINE c == window.count + 1
    <3>3. c \in 0 .. MaxPerWindow /\ window' = [window EXCEPT !.count = c]
      BY ONLY <2>1, <3>1
    <3> HIDE DEF c
    <3>4. window' \in [age : 0 .. Window, count : 0 .. MaxPerWindow]
          /\ window'.age = window.age /\ window'.count = c
      BY ONLY <3>2, <3>3
    <3>5. QED  BY ONLY <3>4 DEF c
  <2>3. /\ window.count \in 1 .. n /\ recent[n - window.count + 1] = window.age
        /\ n - window.count < MaxPerWindow
    BY <1>1, <1>6, Constants DEF Within
  <2>4. n - window.count + 1 \in 1 .. n
        /\ (n + 1) - (window.count + 1) + 1 = n - window.count + 1
    BY <1>1, <2>3
  <2>5. QED  BY <1>1, <1>3, <1>4, <1>6, <2>2, <2>3, <2>4, Constants DEF Within
<1>7. QED  BY <1>5, <1>6

\* When a window ends, its first request is forgotten with all before it.
LEMMA AgeKeeps ==
  ASSUME Within(window, recent),
         window' = [window EXCEPT !.age = IF @ < Window THEN @ + 1 ELSE @],
         recent' = Aged(recent)
  PROVE  Within(window', recent')
<1> DEFINE n == Len(recent)
<1>1. /\ window.age \in 0 .. Window /\ window.count \in 0 .. MaxPerWindow
      /\ n \in Nat /\ \A i \in 1 .. n : recent[i] \in Ages
  BY Elements DEF Within
<1>2. PICK k \in 0 .. n :
        /\ \A i \in 1 .. n : recent[i] + 1 >= Window <=> i <= k
        /\ recent' \in Seq(Ages)
        /\ Len(recent') = n - k
        /\ \A i \in 1 .. n - k : recent'[i] = recent[i + k] + 1
  BY AgedSequence DEF Within
<1>3. \A i, j \in 1 .. Len(recent') : i < j => recent'[j] <= recent'[i]
  <2> SUFFICES ASSUME NEW i \in 1 .. n - k, NEW j \in 1 .. n - k, i < j
               PROVE  recent'[j] <= recent'[i]
    BY <1>2
  <2>1. i + k \in 1 .. n /\ j + k \in 1 .. n /\ i + k < j + k
    <3>1. n \in Nat /\ k \in 0 .. n
      BY <1>1
    <3> HIDE DEF n
    <3>2. i \in 1 .. n - k /\ j \in 1 .. n - k /\ i < j
      OBVIOUS
    <3>3. QED  BY ONLY <3>1, <3>2
  <2>2. recent[j + k] <= recent[i + k]
    BY <2>1 DEF Within
  <2>3. QED  BY <1>1, <1>2, <2>1, <2>2 DEF Ages
<1>4. window' \in [age : 0 .. Window, count : 0 .. MaxPerWindow]
      /\ window'.age = (IF window.age < Window THEN window.age + 1 ELSE window.age)
      /\ window'.count = window.count
  <2> DEFINE age == IF window.age < Window THEN window.age + 1 ELSE window.age
  <2>1. age \in 0 .. Window
    BY <1>1, Constants
  <2>2. window' = [window EXCEPT !.age = age]
    OBVIOUS
  <2> HIDE DEF age
  <2>3. window' \in [age : 0 .. Window, count : 0 .. MaxPerWindow]
        /\ window'.age = age /\ window'.count = window.count
    BY <2>1, <2>2 DEF Within
  <2>4. QED  BY <2>3 DEF age
<1>5. CASE window.age < Window
  <2>1. /\ window.count \in 1 .. n /\ recent[n - window.count + 1] = window.age
        /\ n - window.count < MaxPerWindow
    BY <1>5 DEF Within
  <2> DEFINE f == n - window.count + 1
  <2>2. f \in 1 .. n
    BY <1>1, <2>1
  <2>3. window'.age = window.age + 1
    BY <1>4, <1>5
  <2>4. f <= k <=> window.age + 1 >= Window
    BY <1>2, <2>1, <2>2
  <2>5. CASE window.age + 1 = Window
    <3>1. n - k < MaxPerWindow
      <4>1. /\ n \in Nat /\ k \in Nat /\ window.count \in Nat /\ MaxPerWindow \in Nat
            /\ window.count <= MaxPerWindow
        BY ONLY <1>1, <1>2, Constants
      <4>2. n - window.count + 1 <= k
        BY <2>4, <2>5, Constants
      <4>3. QED  BY ONLY <4>1, <4>2
    <3>2. window'.age = Window /\ ~(window'.age < Window)
      BY ONLY <1>1, <2>3, <2>5, Constants
    <3>3. Len(recent') < MaxPerWindow
      BY ONLY <1>2, <3>1
    <3>4. QED  BY ONLY <1>2, <1>3, <1>4, <3>2, <3>3 DEF Within
  <2>6. CASE window.age + 1 # Window
    <3>1. window.age + 1 < Window /\ k < f
      <4>1. window.age + 1 < Window
        BY <1>1, <1>5, <2>6, Constants
      <4>2. ~(window.age + 1 >= Window)
        BY ONLY <1>1, <4>1, Constants
      <4>3. f \in Nat /\ k \in Nat
        BY ONLY <1>1, <1>2, <2>2
      <4>4. ~(f <= k)
        BY <2>4, <4>2
      <4> HIDE DEF f
      <4>5. QED  BY ONLY <4>1, <4>3, <4>4
    <3>2. /\ window.count \in 1 .. n - k
          /\ (n - k) - window.count + 1 \in 1 .. n - k
          /\ (n - k) - window.count + 1 + k = f
          /\ (n - k) - window.count < MaxPerWindow
      <4>1. /\ n \in Nat /\ k \in Nat /\ window.count \in Nat /\ MaxPerWindow \in Nat
            /\ 1 <= window.count /\ window.count <= n
        BY <1>1, <1>2, <2>1, Constants
      <4>2. QED  BY <2>1, <3>1, <4>1
    <3>3. recent'[(n - k) - window.count + 1] = window.age + 1
      BY <1>2, <2>1, <3>2
    <3>4. /\ window'.count \in 1 .. Len(recent')
          /\ recent'[Len(recent') - window'.count + 1] = window'.age
          /\ Len(recent') - window'.count < MaxPerWindow
          /\ window'.age # Window
      BY <1>2, <1>4, <2>3, <2>6, <3>2, <3>3
    <3>5. QED  BY ONLY <1>2, <1>3, <1>4, <3>4 DEF Within
  <2>7. QED  BY <2>5, <2>6
<1>6. CASE ~(window.age < Window)
  <2>1. window.age = Window /\ n < MaxPerWindow
    BY <1>1, <1>6, Constants DEF Within
  <2>2. n - k < MaxPerWindow
    BY <1>1, <1>2, <2>1, Constants
  <2>3. QED  BY <1>2, <1>3, <1>4, <2>1, <2>2, Constants DEF Within
<1>7. QED  BY <1>5, <1>6

\* Fewer than MaxPerWindow requests are left of the windows before.
LEMMA WithinIsBounded ==
  ASSUME Within(window, recent)
  PROVE  RateIsBounded
<1>1. window.age \in 0 .. Window /\ window.count \in 0 .. MaxPerWindow /\ Len(recent) \in Nat
  BY LenProperties DEF Within
<1>2. CASE window.age < Window
  <2>1. Len(recent) - window.count < MaxPerWindow
    BY <1>2 DEF Within
  <2>2. QED  BY <1>1, <2>1, Constants DEF RateIsBounded
<1>3. CASE window.age = Window
  <2>1. Len(recent) < MaxPerWindow
    BY <1>3 DEF Within
  <2>2. QED  BY <1>1, <2>1, Constants DEF RateIsBounded
<1>4. QED  BY <1>1, <1>2, <1>3, Constants

-----------------------------------------------------------------------------
(* The invariant.                                                          *)

LEMMA IInvImplies == IInv => TypeOK /\ OneDeadline /\ BodyWithinLimit /\ NoSlotIsLost /\ RateIsBounded
<1> SUFFICES ASSUME IInv
             PROVE  TypeOK /\ OneDeadline /\ BodyWithinLimit /\ NoSlotIsLost /\ RateIsBounded
  OBVIOUS
<1>1. TypeOK
  BY Constants DEF IInv, TypeOK, CallType, ClientType, SlotsCounted, Within, Ages
<1>2. OneDeadline
  BY Constants DEF IInv, OneDeadline, CallType, Sound
<1>3. BodyWithinLimit
  BY DEF IInv, BodyWithinLimit, Sound
<1>4. NoSlotIsLost
  BY DEF IInv, NoSlotIsLost, SlotsCounted, Slots, Holds
<1>5. RateIsBounded
  BY WithinIsBounded DEF IInv
<1>6. QED  BY <1>1, <1>2, <1>3, <1>4, <1>5

LEMMA InitIInv == Init => IInv
<1> SUFFICES ASSUME Init PROVE IInv
  OBVIOUS
<1>1. \A c \in Calls : call[c] = NoCall /\ client[c] = Away
  BY DEF Init
<1>2. Slots = {}
  BY <1>1, Records DEF Slots
<1>3. SlotsCounted
  BY <1>2, FS_EmptySet, Constants DEF Init, SlotsCounted
<1>4. Within(window, recent)
  <2>1. recent \in Seq(Ages) /\ Len(recent) = 0
    BY EmptySeq DEF Init
  <2>2. QED  BY <2>1, Constants DEF Init, Within
<1>5. QED  BY <1>1, <1>3, <1>4, Records, Constants DEF Init, IInv

-----------------------------------------------------------------------------
(* What the actions are made of.                                           *)

\* A call moves on, and keeps the slot it has.
LEMMA GotoKeeps ==
  ASSUME IInv, NEW c \in Calls, NEW r \in CallType, Sound(r), Waits(r, client[c]),
         Holds(r) <=> Holds(call[c]), Goto(c, r)
  PROVE  IInv'
<1>1. /\ call' = [call EXCEPT ![c] = r]
      /\ UNCHANGED <<client, concurrent, window, recent>>
  BY DEF Goto, Stay
<1>2. call' \in [Calls -> CallType] /\ \A d \in Calls : call'[d] = IF d = c THEN r ELSE call[d]
  BY <1>1 DEF IInv
<1>3. Slots' = Slots
  BY <1>2 DEF Slots
<1>4. QED  BY <1>1, <1>2, <1>3 DEF IInv, SlotsCounted

\* A fetch ends, and gives back its slot.
LEMMA FinishKeeps ==
  ASSUME IInv, NEW c \in Calls, NEW size \in Nat \cup {None},
         size \in Nat => size <= MaxBytes \/ call[c].kind = "browser",
         call[c].pc \in Phases, Finish(c, size)
  PROVE  IInv'
<1> DEFINE r == Ended(call[c].kind, size)
<1>1. call[c].kind \in Kinds
  BY DEF IInv, CallType
<1>2. r \in CallType /\ Sound(r) /\ ~Holds(r)
  BY <1>1, EndedIsSound
<1>3. /\ call' \in [Calls -> CallType]
      /\ \A d \in Calls : call'[d] = IF d = c THEN r ELSE call[d]
      /\ client' \in [Calls -> ClientType]
      /\ \A d \in Calls : client'[d] = IF d = c THEN Away ELSE client[d]
  BY <1>2, Records DEF IInv, Finish
<1>4. \A d \in Calls : Sound(call'[d]) /\ Waits(call'[d], client'[d])
  BY <1>2, <1>3, Records DEF IInv
<1>5. Slots' = Slots \ {c}
  BY <1>2, <1>3 DEF Slots
<1>6. c \in Slots <=> call[c].kind = "gateway"
  BY DEF Slots, Holds
<1>7. /\ IsFiniteSet(Slots')
      /\ Cardinality(Slots') = IF c \in Slots THEN Cardinality(Slots) - 1 ELSE Cardinality(Slots)
  BY <1>5, FS_RemoveElement DEF IInv, SlotsCounted
<1>8. Cardinality(Slots') \in Nat
  BY <1>7, FS_CardinalityType
<1>9. concurrent' = Cardinality(Slots') /\ concurrent' <= MaxConcurrent
  BY <1>6, <1>7, <1>8, Constants DEF IInv, SlotsCounted, Finish
<1>10. QED  BY <1>3, <1>4, <1>7, <1>8, <1>9 DEF IInv, SlotsCounted, Finish

LEMMA FailKeeps ==
  ASSUME IInv, NEW c \in Calls, call[c].pc \in Phases, Fail(c)
  PROVE  IInv'
BY FinishKeeps, Constants DEF Fail

-----------------------------------------------------------------------------
(* The actions.                                                            *)

LEMMA AskKeeps ==
  ASSUME IInv, NEW c \in Calls, Ask(c)
  PROVE  IInv'
<1>1. Within(window', recent')
  BY AllowKeeps DEF Ask, IInv
<1>2. call[c].pc \in Outcomes /\ ~client[c].waiting /\ ~Holds(call[c])
  BY DEF Ask, Free, Holds, Phases, Fetching, Outcomes
<1>3. CASE Allowed /\ concurrent < MaxConcurrent
  <2> DEFINE r == At("json", "gateway")
             w == [waiting |-> TRUE, patience |-> Patience, slow |-> 0]
  <2>1. call' = [call EXCEPT ![c] = r] /\ client' = [client EXCEPT ![c] = w]
        /\ concurrent' = concurrent + 1
    BY <1>3 DEF Ask
  <2>2. r \in CallType /\ Sound(r) /\ Holds(r)
    BY Records DEF Sound, Holds, Kinds, Phases, Fetching, Outcomes, At
  <2>3. w \in ClientType /\ Waits(r, w)
    BY Constants, Records DEF ClientType, Waits, Kinds, Phases
  <2>4. /\ call' \in [Calls -> CallType] /\ client' \in [Calls -> ClientType]
        /\ \A d \in Calls : call'[d] = IF d = c THEN r ELSE call[d]
        /\ \A d \in Calls : client'[d] = IF d = c THEN w ELSE client[d]
    BY <2>1, <2>2, <2>3 DEF IInv
  <2>5. \A d \in Calls : Sound(call'[d]) /\ Waits(call'[d], client'[d])
    BY <2>2, <2>3, <2>4 DEF IInv
  <2>6. Slots' = Slots \cup {c} /\ c \notin Slots
    BY <1>2, <2>2, <2>4 DEF Slots
  <2>7. IsFiniteSet(Slots') /\ Cardinality(Slots') = Cardinality(Slots) + 1
    BY <2>6, FS_AddElement DEF IInv, SlotsCounted
  <2>8. concurrent' \in Nat /\ concurrent' = Cardinality(Slots') /\ concurrent' <= MaxConcurrent
    BY <1>3, <2>1, <2>7, Constants DEF IInv, SlotsCounted
  <2>9. QED  BY <1>1, <2>4, <2>5, <2>7, <2>8 DEF IInv, SlotsCounted
<1>4. CASE ~(Allowed /\ concurrent < MaxConcurrent)
  <2>1. call' = [call EXCEPT ![c] = NoCall] /\ UNCHANGED <<client, concurrent>>
    BY <1>4 DEF Ask
  <2>2. call' \in [Calls -> CallType] /\ \A d \in Calls : call'[d] = IF d = c THEN NoCall ELSE call[d]
    BY <2>1, Records DEF IInv
  <2>3. \A d \in Calls : Sound(call'[d]) /\ Waits(call'[d], client'[d])
    BY <1>2, <2>1, <2>2, Records DEF IInv, Waits
  <2>4. Slots' = Slots
    BY <1>2, <2>2, Records DEF Slots
  <2>5. QED  BY <1>1, <2>1, <2>2, <2>3, <2>4 DEF IInv, SlotsCounted
<1>5. QED  BY <1>3, <1>4

LEMMA BeginKeeps ==
  ASSUME IInv, NEW c \in Calls,
         ReadJson(c) \/ \E kind \in {"schedule", "browser"} : Start(c, kind)
  PROVE  IInv'
<1>1. \A kind \in Kinds :
        /\ Begun(kind) \in CallType /\ Sound(Begun(kind))
        /\ Begun(kind).kind = kind /\ Begun(kind).pc \in Fetching /\ Begun(kind).age = 0
  <2> SUFFICES ASSUME NEW kind \in Kinds
               PROVE  /\ Begun(kind) \in CallType /\ Sound(Begun(kind))
                      /\ Begun(kind).kind = kind /\ Begun(kind).pc \in Fetching
                      /\ Begun(kind).age = 0
    OBVIOUS
  <2> DEFINE pc == IF kind = "browser" THEN "request" ELSE "resolve"
  <2>1. pc \in {"resolve", "request"}
    OBVIOUS
  <2>2. Begun(kind) = [At(pc, kind) EXCEPT !.left = Timeout]
    BY DEF Begun
  <2> HIDE DEF pc
  <2>3. /\ pc \in {"resolve", "request"}
        /\ Begun(kind) = [pc |-> pc, kind |-> kind, agent |-> 1, hop |-> 0, left |-> Timeout,
                          age |-> 0, packed |-> FALSE, wire |-> 0, size |-> 0]
    BY <2>1, <2>2 DEF At
  <2>4. QED  BY <2>3, Constants DEF CallType, Sound, Kinds, Phases, Fetching, Outcomes
<1>2. CASE ReadJson(c)
  <2>1. call[c].pc = "json" /\ client[c].waiting /\ Goto(c, Begun("gateway"))
    BY <1>2 DEF ReadJson, Goto
  <2>2. Waits(call[c], client[c]) /\ client[c].patience \in Nat /\ client[c].slow \in Nat
    BY Constants DEF IInv, ClientType
  <2>3. Holds(call[c]) /\ client[c].patience + client[c].slow = Patience
    BY <2>1, <2>2 DEF Waits, Holds, Phases, Fetching
  <2>4. Waits(Begun("gateway"), client[c]) /\ Holds(Begun("gateway"))
    BY <1>1, <2>2, <2>3 DEF Waits, Holds, Kinds, Phases
  <2>5. QED  BY <1>1, <2>1, <2>3, <2>4, GotoKeeps DEF Kinds
<1>3. CASE \E kind \in {"schedule", "browser"} : Start(c, kind)
  <2>1. PICK kind \in {"schedule", "browser"} : Start(c, kind)
    BY <1>3
  <2>2. kind \in Kinds /\ kind # "gateway" /\ ~client[c].waiting /\ Goto(c, Begun(kind))
    BY <2>1 DEF Start, Free, Goto, Kinds
  <2>3. ~Holds(call[c]) /\ ~Holds(Begun(kind))
    BY <1>1, <2>1, <2>2 DEF Start, Free, Holds, Phases, Fetching, Outcomes
  <2>4. Waits(Begun(kind), client[c])
    BY <2>2 DEF Waits
  <2>5. QED  BY <1>1, <2>2, <2>3, <2>4, GotoKeeps
<1>4. QED  BY <1>2, <1>3

\* A call that changes its place and nothing that its clocks, its slot or
\* its client depend on.
LEMMA MoveKeeps ==
  ASSUME IInv, NEW c \in Calls, NEW r \in CallType, call[c].pc \in Fetching,
         r.pc \in Fetching, r.kind = call[c].kind, r.left = call[c].left, r.age = call[c].age,
         r.pc # "body" => r.wire = 0 /\ r.size = 0,
         r.pc = "body" => r.size <= MaxBytes,
         Goto(c, r)
  PROVE  IInv'
<1>1. Sound(r)
  BY DEF IInv, Sound, Fetching
<1>2. Waits(r, client[c])
  BY DEF IInv, Waits, Fetching
<1>3. Holds(r) <=> Holds(call[c])
  BY DEF Holds, Phases
<1>4. QED  BY <1>1, <1>2, <1>3, GotoKeeps

\* Every step of a fetcher.
LEMMA FetchKeeps ==
  ASSUME IInv, NEW c \in Calls, Fetch(c)
  PROVE  IInv'
<1> DEFINE r == call[c]
<1>1. r \in CallType /\ Sound(r)
  BY DEF IInv
<1>2. \A pc \in Fetching : [r EXCEPT !.pc = pc] \in CallType
  BY <1>1 DEF CallType, Phases
<1>3. CASE Resolve(c)
  <2>1. r.pc = "resolve" /\ r.pc \in Phases /\ r.pc \in Fetching
    BY <1>3 DEF Resolve, Phases, Fetching
  <2>2. CASE Fail(c)
    BY <2>1, <2>2, FailKeeps
  <2>3. CASE Goto(c, [r EXCEPT !.pc = "request"])
    <3>1. [r EXCEPT !.pc = "request"] \in CallType
      BY <1>2 DEF Fetching
    <3>2. QED  BY <1>1, <2>1, <2>3, <3>1, MoveKeeps DEF Sound, Fetching, CallType
  <2>4. QED  BY <1>3, <2>2, <2>3 DEF Resolve, Unless
<1>4. CASE Refused(c) \/ Declared(c)
  BY <1>4, FailKeeps DEF Refused, Declared, Respond, Phases, Fetching
<1>5. CASE Redirected(c)
  <2> DEFINE s == [r EXCEPT !.pc = "resolve", !.hop = @ + 1]
  <2>1. r.pc = "request" /\ r.pc \in Phases /\ r.pc \in Fetching
    BY <1>5 DEF Redirected, Respond, Phases, Fetching
  <2>2. CASE Fail(c)
    BY <2>1, <2>2, FailKeeps
  <2>3. CASE r.hop # MaxRedirects /\ Goto(c, s)
    <3>1. r.hop + 1 \in 0 .. MaxRedirects
      BY <1>1, <2>3, Constants DEF CallType
    <3>2. s \in CallType
      BY <1>1, <3>1 DEF CallType, Phases, Fetching
    <3>3. QED  BY <1>1, <2>1, <2>3, <3>2, MoveKeeps DEF Sound, Fetching, CallType
  <2>4. QED  BY <1>5, <2>2, <2>3 DEF Redirected, Unless
<1>6. CASE Rejected(c)
  <2> DEFINE s == [r EXCEPT !.pc = "resolve", !.hop = 0, !.agent = @ + 1]
  <2>1. r.pc = "request" /\ r.pc \in Phases /\ r.pc \in Fetching
    BY <1>6 DEF Rejected, Respond, Phases, Fetching
  <2>2. CASE Fail(c)
    BY <2>1, <2>2, FailKeeps
  <2>3. CASE r.agent # Agents /\ Goto(c, s)
    <3>1. r.agent + 1 \in 1 .. Agents /\ 0 \in 0 .. MaxRedirects
      BY <1>1, <2>3, Constants DEF CallType
    <3>2. s \in CallType
      BY <1>1, <3>1 DEF CallType, Phases, Fetching
    <3>3. QED  BY <1>1, <2>1, <2>3, <3>2, MoveKeeps DEF Sound, Fetching, CallType
  <2>4. QED  BY <1>6, <2>2, <2>3 DEF Rejected, Unless
<1>7. CASE Accepted(c)
  <2>1. PICK packed \in BOOLEAN : Goto(c, [r EXCEPT !.pc = "body", !.packed = packed])
    BY <1>7 DEF Accepted
  <2> DEFINE s == [r EXCEPT !.pc = "body", !.packed = packed]
  <2>2. /\ s \in CallType /\ s.pc = "body" /\ s.kind = r.kind
        /\ s.left = r.left /\ s.age = r.age /\ s.size = r.size
    BY <1>1 DEF CallType, Phases, Fetching
  <2>3. r.pc = "request" /\ r.size = 0
    BY <1>1, <1>7 DEF Accepted, Respond, Sound
  <2>4. Goto(c, s) /\ s.size <= MaxBytes
    BY <2>1, <2>2, <2>3, Constants
  <2> HIDE DEF s
  <2>5. QED  BY <2>2, <2>3, <2>4, MoveKeeps DEF Fetching
<1>8. CASE Chunk(c)
  <2>1. r.pc = "body" /\ r.pc \in Phases /\ r.pc \in Fetching
    BY <1>8 DEF Chunk, Phases, Fetching
  <2> DEFINE s(n) == [r EXCEPT !.wire = r.wire + 1, !.size = r.size + n]
  <2>2. PICK n \in 0 .. 2 : IF Overflow(r.kind, r.wire + 1, r.size + n) THEN Fail(c) ELSE Goto(c, s(n))
    <3>1. (IF r.packed THEN 0 .. 2 ELSE {1}) \subseteq 0 .. 2
      OBVIOUS
    <3>2. PICK n \in IF r.packed THEN 0 .. 2 ELSE {1} :
             IF Overflow(r.kind, r.wire + 1, r.size + n) THEN Fail(c) ELSE Goto(c, s(n))
      BY <1>8 DEF Chunk
    <3>3. QED  BY <3>1, <3>2
  <2>3. r.wire + 1 \in Nat /\ r.size + n \in Nat
    BY <1>1 DEF CallType
  <2>4. CASE Fail(c)
    BY <2>1, <2>4, FailKeeps
  <2>5. CASE /\ ~Overflow(r.kind, r.wire + 1, r.size + n)
             /\ Goto(c, [r EXCEPT !.wire = r.wire + 1, !.size = r.size + n])
    <3>1. [r EXCEPT !.wire = r.wire + 1, !.size = r.size + n] \in CallType
      BY <1>1, <2>3 DEF CallType
    <3>2. r.size + n <= MaxBytes
      BY <2>3, <2>5, Constants DEF Overflow
    <3>3. QED  BY <1>1, <2>1, <2>5, <3>1, <3>2, MoveKeeps DEF CallType
  <2>6. QED  BY <2>2, <2>4, <2>5
<1>9. CASE Complete(c)
  <2>1. r.pc \in Phases /\ r.size \in Nat /\ 3 * r.size \in Nat
    BY <1>1, <1>9 DEF Complete, CallType, Phases, Fetching
  <2>2. PICK text \in {r.size, 3 * r.size} :
          IF text > MaxBytes /\ r.kind # "browser" THEN Fail(c) ELSE Finish(c, text)
    BY <1>9 DEF Complete
  <2>3. text \in Nat
    BY <2>1
  <2>4. CASE text > MaxBytes /\ r.kind # "browser"
    BY <2>1, <2>2, <2>4, FailKeeps
  <2>5. CASE ~(text > MaxBytes /\ r.kind # "browser")
    <3>1. text <= MaxBytes \/ r.kind = "browser"
      BY <2>3, <2>5, Constants
    <3>2. QED  BY <2>1, <2>2, <2>3, <2>5, <3>1, FinishKeeps
  <2>6. QED  BY <2>4, <2>5
<1>10. CASE Broken(c)
  BY <1>10, FailKeeps DEF Broken, Phases, Fetching
<1>11. QED
  BY <1>3, <1>4, <1>5, <1>6, <1>7, <1>8, <1>9, <1>10 DEF Fetch

LEMMA LeaveKeeps ==
  ASSUME IInv, NEW c \in Calls, GiveUp(c) \/ Withdraw(c)
  PROVE  IInv'
<1>1. client' = [client EXCEPT ![c] = Away] /\ UNCHANGED <<call, concurrent, window, recent>>
  BY DEF GiveUp, Withdraw
<1>2. /\ client' \in [Calls -> ClientType]
      /\ \A d \in Calls : client'[d] = IF d = c THEN Away ELSE client[d]
  BY <1>1, Records DEF IInv
<1>3. \A d \in Calls : Waits(call'[d], client'[d])
  BY <1>1, <1>2, Records DEF IInv
<1>4. Slots' = Slots
  BY <1>1 DEF Slots
<1>5. QED  BY <1>1, <1>2, <1>3, <1>4 DEF IInv, SlotsCounted

LEMMA AskOtherKeeps == ASSUME IInv, AskOther PROVE IInv'
<1>1. Slots' = Slots
  BY DEF AskOther, Slots
<1>2. QED  BY <1>1, AllowKeeps DEF AskOther, IInv, SlotsCounted

LEMMA TickKeeps == ASSUME IInv, Tick PROVE IInv'
<1> DEFINE w(c) == IF client[c].waiting
                   THEN [client[c] EXCEPT !.patience = @ - 1,
                                          !.slow = IF call[c].pc = "json" THEN @ + 1 ELSE @]
                   ELSE Away
<1>1. \A c \in Calls : call'[c] = Later(call[c]) /\ client'[c] = w(c)
  BY DEF Tick
<1>2. ASSUME NEW c \in Calls
      PROVE  /\ Later(call[c]) \in CallType /\ w(c) \in ClientType
             /\ Sound(Later(call[c])) /\ Waits(Later(call[c]), w(c))
             /\ Holds(Later(call[c])) <=> Holds(call[c])
  <2> DEFINE r == call[c]
             u == client[c]
  <2>1. r \in CallType /\ u \in ClientType /\ Sound(r) /\ Waits(r, u) /\ ~Due(c)
    BY DEF IInv, Tick
  <2>2. CASE r.pc \in Fetching
    <3>1. Later(r) = [r EXCEPT !.left = r.left - 1, !.age = r.age + 1]
      BY <2>2 DEF Later
    <3>2. r.left - 1 \in 0 .. Timeout /\ r.age + 1 \in Nat /\ r.left + r.age = Timeout
      BY <2>1, <2>2, Constants DEF CallType, Due, Sound
    <3>3. Later(r) \in CallType /\ Later(r).pc = r.pc /\ Later(r).kind = r.kind
          /\ Later(r).size = r.size /\ Later(r).wire = r.wire
          /\ Later(r).left = r.left - 1 /\ Later(r).age = r.age + 1
      BY <2>1, <3>1, <3>2 DEF CallType
    <3>4. Sound(Later(r)) /\ (Holds(Later(r)) <=> Holds(r))
      BY <2>1, <3>2, <3>3, Constants DEF Sound, Holds, CallType
    <3>5. CASE u.waiting
      <4>1. r.pc # "json"
        BY <2>2 DEF Fetching
      <4>2. w(c) = [u EXCEPT !.patience = u.patience - 1, !.slow = u.slow]
        BY <3>5, <4>1
      <4>3. u.patience - 1 \in 0 .. Patience
        BY <2>1, <3>5, Constants DEF ClientType, Due
      <4>4. w(c) \in ClientType /\ w(c).patience = u.patience - 1 /\ w(c).slow = u.slow
        BY <2>1, <4>2, <4>3 DEF ClientType
      <4>5. r.kind = "gateway" /\ u.patience + u.slow + r.age = Patience
        BY <2>1, <3>5, <4>1 DEF Waits
      <4>6. w(c).patience + w(c).slow + Later(r).age = Patience
        BY <2>1, <3>3, <4>4, <4>5, Constants DEF ClientType, CallType
      <4>7. Waits(Later(r), w(c))
        BY <2>2, <3>3, <4>5, <4>6 DEF Waits
      <4>8. QED  BY <3>3, <3>4, <4>4, <4>7
    <3>6. CASE ~u.waiting
      <4>1. w(c) = Away
        BY <3>6
      <4>2. QED  BY <3>3, <3>4, <4>1, Records
    <3>7. QED  BY <3>5, <3>6
  <2>3. CASE r.pc \notin Fetching
    <3>1. Later(r) = r
      BY <2>3 DEF Later
    <3>2. CASE u.waiting
      <4>1. r.pc = "json" /\ r.kind = "gateway" /\ u.patience + u.slow = Patience
        BY <2>1, <2>3, <3>2 DEF Waits
      <4>2. w(c) = [u EXCEPT !.patience = u.patience - 1, !.slow = u.slow + 1]
        BY <3>2, <4>1
      <4>3. u.patience - 1 \in 0 .. Patience /\ u.slow + 1 \in 0 .. Patience
        BY <2>1, <3>2, <4>1, Constants DEF ClientType, Due
      <4>4. w(c) \in ClientType /\ w(c).patience = u.patience - 1 /\ w(c).slow = u.slow + 1
        BY <2>1, <4>2, <4>3 DEF ClientType
      <4>5. w(c).patience + w(c).slow = Patience
        BY <2>1, <4>1, <4>4, Constants DEF ClientType
      <4>6. Waits(r, w(c))
        BY <4>1, <4>5 DEF Waits
      <4>7. QED  BY <2>1, <3>1, <4>4, <4>6
    <3>3. CASE ~u.waiting
      <4>1. w(c) = Away
        BY <3>3
      <4>2. QED  BY <2>1, <3>1, <4>1, Records
    <3>4. QED  BY <3>2, <3>3
  <2>4. QED  BY <2>2, <2>3
<1>3. call' \in [Calls -> CallType] /\ client' \in [Calls -> ClientType]
  BY <1>2 DEF Tick
<1>4. \A c \in Calls : Sound(call'[c]) /\ Waits(call'[c], client'[c])
  BY <1>1, <1>2
<1>5. Slots' = Slots
  BY <1>1, <1>2 DEF Slots
<1>6. Within(window', recent')
  BY AgeKeeps DEF IInv, Tick
<1>7. QED  BY <1>3, <1>4, <1>5, <1>6 DEF IInv, SlotsCounted, Tick

LEMMA StepIInv == IInv /\ [Next]_vars => IInv'
<1> SUFFICES ASSUME IInv, [Next]_vars PROVE IInv'
  OBVIOUS
<1>1. ASSUME NEW c \in Calls, LoseJson(c) \/ TimeUp(c) \/ Supersede(c)
      PROVE  IInv'
  BY <1>1, FailKeeps DEF LoseJson, TimeUp, Supersede, Phases
<1>2. CASE UNCHANGED vars
  <2>1. UNCHANGED <<call, client, concurrent, window, recent>> /\ Slots' = Slots
    BY <1>2 DEF vars, Slots
  <2>2. QED  BY <2>1 DEF IInv, SlotsCounted
<1>3. QED
  BY <1>1, <1>2, AskKeeps, BeginKeeps, FetchKeeps, LeaveKeeps, AskOtherKeeps, TickKeeps DEF Next

-----------------------------------------------------------------------------
(* The theorems.                                                           *)

LEMMA Inductive == Spec => []IInv
BY InitIInv, StepIInv, PTL DEF Spec

\* Every reachable state is well typed.
THEOREM TypeCorrect == Spec => []TypeOK
BY Inductive, IInvImplies, PTL

\* No fetch outlives the deadline it began with, however often it is
\* redirected or repeated under another user agent.
THEOREM DeadlineIsShared == Spec => []OneDeadline
BY Inductive, IInvImplies, PTL

\* No body and no text of the service is larger than allowed.
THEOREM BodyStaysWithinLimit == Spec => []BodyWithinLimit
BY Inductive, IInvImplies, PTL

\* The counter of withConcurrency() is the number of requests in progress.
THEOREM SlotsComeBack == Spec => []NoSlotIsLost
BY Inductive, IInvImplies, PTL

\* Around the boundary of two windows fewer than twice the requests of one
\* window are allowed in the time of one.
THEOREM RateStaysBounded == Spec => []RateIsBounded
BY Inductive, IInvImplies, PTL

\* A client gives up on a fetch only if the service took at least the
\* difference of the deadlines to read the request.
THEOREM ClientOutwaitsService == Spec => ServiceAnswersFirst
<1>1. ASSUME IInv
      PROVE  [\A c \in Calls : GiveUp(c) /\ call[c].pc \in Fetching
                => client[c].slow >= Patience - Timeout]_vars
  <2> SUFFICES ASSUME NEW c \in Calls, GiveUp(c), call[c].pc \in Fetching
               PROVE  client[c].slow >= Patience - Timeout
    OBVIOUS
  <2>1. client[c].waiting /\ client[c].patience = 0
    BY DEF GiveUp
  <2>2. /\ call[c].left \in Nat /\ call[c].age \in Nat /\ client[c].slow \in Nat
        /\ call[c].left + call[c].age = Timeout
        /\ call[c].pc # "json"
    <3>1. call[c] \in CallType /\ client[c] \in ClientType /\ Sound(call[c])
      BY <1>1 DEF IInv
    <3>2. QED  BY <3>1, Constants DEF CallType, ClientType, Sound, Fetching
  <2>3. client[c].slow + call[c].age = Patience
    <3>1. Waits(call[c], client[c])
      BY <1>1 DEF IInv
    <3>2. QED  BY <2>1, <2>2, <3>1 DEF Waits
  <2>4. QED  BY <2>2, <2>3, Constants
<1>2. QED  BY Inductive, <1>1, PTL DEF ServiceAnswersFirst
=============================================================================
