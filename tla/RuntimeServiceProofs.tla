------------------------ MODULE RuntimeServiceProofs ------------------------
(***************************************************************************)
(* Proofs about RuntimeService, for any number of sources, configurations, *)
(* refreshes in progress and restarts, and every length of the history,    *)
(* and about the RuntimeScheduler that calls it.                           *)
(*                                                                         *)
(* Only the newest refresh of a source may write, and it is as new as its  *)
(* number says: while it is under way, every row of its source is from a   *)
(* refresh numbered before it.  A deletion of the source outdates it, and  *)
(* what begins later is numbered after the deletion.                       *)
(***************************************************************************)
EXTENDS RuntimeService, RuntimeScheduler, SequenceTheorems, FiniteSetTheorems, TLAPS

(* A refresh whose result would be written. *)
Live(t) == call[t] # None /\ call[t].stage = "refreshing" /\ IsCurrent(t)

Rows(k) == ({active[k], pendingEmpty[k]} \ {None}) \cup Range(history[k])

(* The rows of a source are from refreshes numbered below n. *)
Below(k, n) == \A s \in Rows(k) : s.born < n

(* They are from refreshes that began after the last deletion. *)
Fresh == \A k \in Sources : \A s \in Rows(k) : s.born > erased[k]

Stamped == \A k \in Sources : Below(k, stamp + 1) /\ erased[k] <= stamp

(* A usable row that was fetched is known to the refresh that may replace it, *)
(* and a refresh that knows of one finds the source with an active row.       *)
Captures(t) ==
    LET s == active[call[t].source] IN
    /\ s # None /\ s.quality = "usable" /\ ~IsCopy(s) /\ s.config = call[t].config
         => call[t].captured = "usable"
    /\ call[t].captured = "usable" => s # None

Awaited ==
    \A t \in Tasks :
        Live(t) => /\ call[t].born <= stamp /\ call[t].born > erased[call[t].source]
                   /\ Below(call[t].source, call[t].born)
                   /\ Captures(t)

(* A candidate is empty and waits beside an active row. *)
PendingIsEmpty ==
    \A k \in Sources :
        pendingEmpty[k] # None => pendingEmpty[k].quality = "empty" /\ active[k] # None

IInv ==
    /\ TypeOK /\ HistoryWindow /\ Fresh
    /\ Stamped /\ Awaited /\ PendingIsEmpty

-----------------------------------------------------------------------------
(* The history of one source.                                              *)

Distinct(h) == \A i, j \in DOMAIN h : h[i].id = h[j].id => i = j

\* An upsert keeps the ids apart and records the snapshot.
LEMMA RecordedHistory ==
  ASSUME NEW h \in Seq(Snapshot), NEW s \in Snapshot, Distinct(h)
  PROVE  /\ Recorded(h, s) \in Seq(Snapshot) /\ Distinct(Recorded(h, s))
         /\ Len(Recorded(h, s)) \in Nat
         /\ \/ Len(Recorded(h, s)) = Len(h) /\ \E i \in 1 .. Len(h) : Recorded(h, s)[i] = s
            \/ Len(Recorded(h, s)) = Len(h) + 1 /\ Recorded(h, s)[Len(h) + 1] = s
         /\ \A i \in DOMAIN Recorded(h, s) : Recorded(h, s)[i] = s \/ Recorded(h, s)[i] \in Range(h)
<1> DEFINE g == Recorded(h, s)
<1>1. Len(h) \in Nat /\ h \in [1 .. Len(h) -> Snapshot] /\ DOMAIN h = 1 .. Len(h)
  BY LenProperties
<1>2. CASE \E i \in DOMAIN h : h[i].id = s.id
  <2>1. g = [i \in 1 .. Len(h) |-> IF h[i].id = s.id THEN s ELSE h[i]]
    BY <1>1, <1>2 DEF Recorded
  <2>2. g \in [1 .. Len(h) -> Snapshot]
    BY <1>1, <2>1
  <2>3. g \in Seq(Snapshot) /\ Len(g) = Len(h) /\ DOMAIN g = 1 .. Len(h)
    BY <1>1, <2>2, SeqDef, LenProperties
  <2>4. \E i \in 1 .. Len(h) : g[i] = s
    BY <1>1, <1>2, <2>1
  <2>5. Distinct(g)
    BY <1>1, <2>1, <2>3 DEF Distinct
  <2>6. \A i \in DOMAIN g : g[i] = s \/ g[i] \in Range(h)
    BY <1>1, <2>1, <2>3 DEF Range
  <2>7. QED  BY <1>1, <2>3, <2>4, <2>5, <2>6
<1>3. CASE ~\E i \in DOMAIN h : h[i].id = s.id
  <2>1. g = Append(h, s)
    BY <1>3 DEF Recorded
  <2>2. /\ g \in Seq(Snapshot) /\ Len(g) = Len(h) + 1
        /\ \A i \in 1 .. Len(h) : g[i] = h[i]
        /\ g[Len(h) + 1] = s
    BY <2>1, AppendProperties
  <2>3. DOMAIN g = 1 .. Len(h) + 1 /\ Len(g) \in Nat
    BY <1>1, <2>2, LenProperties
  <2>4. \A i \in DOMAIN g : i = Len(h) + 1 \/ i \in DOMAIN h
    BY <1>1, <2>3
  <2>5. Distinct(g)
    <3> SUFFICES ASSUME NEW i \in DOMAIN g, NEW j \in DOMAIN g, g[i].id = g[j].id
                 PROVE  i = j
      BY DEF Distinct
    <3>1. CASE i \in DOMAIN h /\ j \in DOMAIN h
      BY <1>1, <2>2, <3>1 DEF Distinct
    <3>2. CASE i = Len(h) + 1 /\ j \in DOMAIN h
      BY <1>1, <1>3, <2>2, <3>2
    <3>3. CASE i \in DOMAIN h /\ j = Len(h) + 1
      BY <1>1, <1>3, <2>2, <3>3
    <3>4. QED  BY <2>4, <3>1, <3>2, <3>3
  <2>6. \A i \in DOMAIN g : g[i] = s \/ g[i] \in Range(h)
    BY <1>1, <2>2, <2>4 DEF Range
  <2>7. QED  BY <2>2, <2>3, <2>5, <2>6
<1>4. QED  BY <1>2, <1>3

\* Pruning takes nothing but the first row of a history that is one too
\* long.
LEMMA PrunedHistory ==
  ASSUME NEW f \in Seq(Snapshot), Distinct(f), Len(f) <= MaxHistory + 1
  PROVE  /\ Pruned(f) \in Seq(Snapshot) /\ Distinct(Pruned(f)) /\ Len(Pruned(f)) <= MaxHistory
         /\ Range(Pruned(f)) \subseteq Range(f)
         /\ Len(f) <= MaxHistory => Pruned(f) = f
         /\ \A i \in 2 .. Len(f) : f[i] \in Range(Pruned(f))
<1>1. MaxHistory \in Nat /\ MaxHistory >= 1 /\ Len(f) \in Nat
  BY MaxHistoryAssumption, LenProperties
<1>2. Len(f) \in Nat /\ DOMAIN f = 1 .. Len(f) /\ \A i \in 1 .. Len(f) : f[i] \in Snapshot
  BY LenProperties
<1>3. CASE Len(f) > MaxHistory
  <2>1. Len(f) = MaxHistory + 1
    BY <1>1, <1>3
  <2>2. Pruned(f) = SubSeq(f, 2, Len(f))
    <3>1. Len(f) - MaxHistory + 1 = 2
      BY <1>1, <2>1
    <3>2. QED  BY <1>3, <3>1 DEF Pruned
  <2>3. \A i \in 2 .. Len(f) : f[i] \in Snapshot
    BY <1>2
  <2>4. /\ SubSeq(f, 2, Len(f)) \in Seq(Snapshot)
        /\ Len(SubSeq(f, 2, Len(f))) = IF 2 <= Len(f) THEN Len(f) - 2 + 1 ELSE 0
        /\ \A i \in 1 .. Len(f) - 2 + 1 : SubSeq(f, 2, Len(f))[i] = f[2 + i - 1]
    BY <1>2, <2>3, SubSeqProperties
  <2> DEFINE g == Pruned(f)
  <2>5. g \in Seq(Snapshot) /\ Len(g) = MaxHistory /\ \A i \in 1 .. MaxHistory : g[i] = f[i + 1]
    BY <1>1, <2>1, <2>2, <2>4
  <2> HIDE DEF g
  <2>6. DOMAIN g = 1 .. MaxHistory
    BY <2>5, LenProperties
  <2>7. \A i \in 1 .. MaxHistory : i + 1 \in DOMAIN f
    BY <1>1, <1>2, <2>1
  <2>8. Distinct(g)
    BY <1>1, <2>5, <2>6, <2>7 DEF Distinct
  <2>9. Range(g) \subseteq Range(f)
    BY <2>5, <2>6, <2>7 DEF Range
  <2>10. \A i \in 2 .. Len(f) : f[i] \in Range(g)
    <3> SUFFICES ASSUME NEW i \in 2 .. Len(f) PROVE f[i] \in Range(g)
      OBVIOUS
    <3>1. i - 1 \in 1 .. MaxHistory /\ (i - 1) + 1 = i
      BY <1>1, <2>1
    <3>2. g[i - 1] = f[i]
      BY <2>5, <3>1
    <3>3. QED  BY <2>6, <3>1, <3>2 DEF Range
  <2>11. QED  BY <1>1, <1>3, <2>1, <2>5, <2>8, <2>9, <2>10 DEF g
<1>4. CASE ~(Len(f) > MaxHistory)
  <2>1. Pruned(f) = f /\ Len(f) <= MaxHistory
    BY <1>1, <1>2, <1>4 DEF Pruned
  <2>2. \A i \in 2 .. Len(f) : f[i] \in Range(f)
    BY <1>2 DEF Range
  <2>3. QED  BY <2>1, <2>2
<1>5. QED  BY <1>3, <1>4

\* What writeActive() leaves of a history within its bound: nothing but rows
\* that were there and the snapshot, which is among them.
LEMMA WrittenHistory ==
  ASSUME NEW h \in Seq(Snapshot), NEW s \in Snapshot, Distinct(h), Len(h) <= MaxHistory
  PROVE  /\ Pruned(Recorded(h, s)) \in Seq(Snapshot) /\ Distinct(Pruned(Recorded(h, s)))
         /\ Len(Pruned(Recorded(h, s))) <= MaxHistory
         /\ s \in Range(Pruned(Recorded(h, s)))
         /\ \A x \in Range(Pruned(Recorded(h, s))) : x = s \/ x \in Range(h)
<1>1. PICK f : f = Recorded(h, s)
  OBVIOUS
<1>2. /\ f \in Seq(Snapshot) /\ Distinct(f) /\ Len(f) \in Nat
      /\ \/ Len(f) = Len(h) /\ \E i \in 1 .. Len(h) : f[i] = s
         \/ Len(f) = Len(h) + 1 /\ f[Len(h) + 1] = s
      /\ \A i \in DOMAIN f : f[i] = s \/ f[i] \in Range(h)
  BY <1>1, RecordedHistory
<1>3. Len(h) \in Nat /\ MaxHistory \in Nat /\ MaxHistory >= 1
  BY MaxHistoryAssumption, LenProperties
<1>4. DOMAIN f = 1 .. Len(f)
  BY <1>2, LenProperties
<1>5. Len(f) \in Nat /\ Len(f) <= MaxHistory + 1
  <2>1. Len(f) = Len(h) \/ Len(f) = Len(h) + 1
    BY <1>2
  <2>2. QED  BY <1>3, <2>1
<1>6. /\ Pruned(f) \in Seq(Snapshot) /\ Distinct(Pruned(f)) /\ Len(Pruned(f)) <= MaxHistory
      /\ Range(Pruned(f)) \subseteq Range(f)
      /\ Len(f) <= MaxHistory => Pruned(f) = f
      /\ \A i \in 2 .. Len(f) : f[i] \in Range(Pruned(f))
  BY <1>2, <1>5, PrunedHistory
<1>7. \A x \in Range(f) : x = s \/ x \in Range(h)
  BY <1>2 DEF Range
<1>8. s \in Range(Pruned(f))
  <2>1. CASE Len(f) <= MaxHistory
    <3>1. \E i \in 1 .. Len(f) : f[i] = s
      <4>1. CASE Len(f) = Len(h)
        BY <1>2, <1>3, <4>1
      <4>2. CASE Len(f) # Len(h)
        <5>1. Len(f) = Len(h) + 1 /\ f[Len(f)] = s
          BY <1>2, <4>2
        <5>2. Len(f) \in 1 .. Len(f)
          BY <1>3, <1>5, <5>1
        <5>3. QED  BY <5>1, <5>2
      <4>3. QED  BY <4>1, <4>2
    <3>2. QED  BY <1>6, <1>4, <2>1, <3>1 DEF Range
  <2>2. CASE ~(Len(f) <= MaxHistory)
    <3>1. Len(f) = Len(h) + 1 /\ f[Len(f)] = s
      <4>1. Len(f) # Len(h)
        BY <1>3, <1>5, <2>2
      <4>2. QED  BY <1>2, <4>1
    <3>2. Len(f) \in 2 .. Len(f)
      BY <1>3, <1>5, <2>2
    <3>3. QED  BY <1>6, <3>1, <3>2
  <2>3. QED  BY <2>1, <2>2
<1>9. QED  BY <1>1, <1>6, <1>7, <1>8

\* The rows of a history are snapshots.
LEMMA HistoryRows ==
  ASSUME NEW h \in Seq(Snapshot)
  PROVE  Range(h) \subseteq Snapshot
BY LenProperties DEF Range

\* writeActive() on one source.
LEMMA WriteKeeps ==
  ASSUME IInv, NEW k \in Sources, NEW s \in Snapshot, WriteActive(k, s)
  PROVE  /\ active' \in [Sources -> Snapshot \cup {None}]
         /\ history' \in [Sources -> Seq(Snapshot)]
         /\ HistoryWindow'
         /\ active'[k] = s
         /\ \A x \in Range(history'[k]) : x = s \/ x \in Range(history[k])
         /\ \A j \in Sources : j # k => active'[j] = active[j] /\ history'[j] = history[j]
<1> DEFINE g == Pruned(Recorded(history[k], s))
<1>1. /\ history[k] \in Seq(Snapshot) /\ Distinct(history[k]) /\ Len(history[k]) <= MaxHistory
  BY DEF IInv, TypeOK, HistoryWindow, Distinct
<1>2. /\ g \in Seq(Snapshot) /\ Distinct(g) /\ Len(g) <= MaxHistory /\ s \in Range(g)
      /\ \A x \in Range(g) : x = s \/ x \in Range(history[k])
  BY <1>1, WrittenHistory
<1>3. active' = [active EXCEPT ![k] = s] /\ history' = [history EXCEPT ![k] = g]
  BY DEF WriteActive
<1> HIDE DEF g
<1>4. /\ active' \in [Sources -> Snapshot \cup {None}]
      /\ history' \in [Sources -> Seq(Snapshot)]
      /\ active'[k] = s /\ history'[k] = g
      /\ \A j \in Sources : j # k => active'[j] = active[j] /\ history'[j] = history[j]
  BY <1>2, <1>3 DEF IInv, TypeOK
<1>5. HistoryWindow'
  BY <1>2, <1>4 DEF IInv, HistoryWindow, Distinct
<1>6. QED  BY <1>2, <1>4, <1>5

-----------------------------------------------------------------------------
(* The steps.                                                              *)

LEMMA InitIInv == Init => IInv
<1> SUFFICES ASSUME Init PROVE IInv
  OBVIOUS
<1>1. <<>> \in Seq(Snapshot) /\ Len(<<>>) = 0 /\ DOMAIN <<>> = {}
  BY EmptySeq
<1>2. TypeOK
  BY <1>1 DEF Init, TypeOK
<1>3. \A k \in Sources : history[k] = <<>> /\ Range(history[k]) = {} /\ active[k] = None
                         /\ pendingEmpty[k] = None /\ erased[k] = 0
  BY <1>1 DEF Init, Range
<1>4. HistoryWindow
  <2>1. 0 <= MaxHistory
    BY MaxHistoryAssumption
  <2>2. QED  BY <1>1, <1>3, <2>1 DEF HistoryWindow
<1>5. Fresh /\ Stamped /\ PendingIsEmpty
  BY <1>3 DEF Init, Fresh, Stamped, Below, Rows, PendingIsEmpty
<1>6. Awaited
  BY DEF Init, Awaited, Live
<1>7. QED  BY <1>2, <1>4, <1>5, <1>6 DEF IInv

\* A step that leaves the tables alone, and no refresh live that was not.
LEMMA CallsKeep ==
  ASSUME IInv, TypeOK', UNCHANGED <<tables, stamp, erased>>,
         \A t \in Tasks : Live(t)' => call'[t] = call[t] /\ Live(t)
  PROVE  IInv'
<1>1. HistoryWindow' /\ Fresh' /\ Stamped' /\ PendingIsEmpty'
  BY DEF IInv, tables, HistoryWindow, Fresh, Stamped, Below, Rows, PendingIsEmpty
<1>2. Awaited'
  BY DEF IInv, tables, Awaited, Below, Rows, Captures, IsCopy
<1>3. QED  BY <1>1, <1>2 DEF IInv

LEMMA RowsAreSnapshots ==
  ASSUME IInv, NEW k \in Sources
  PROVE  Rows(k) \subseteq Snapshot
BY HistoryRows DEF IInv, TypeOK, Rows

\* Every row is from a refresh that began after the last deletion.
LEMMA RowFacts ==
  ASSUME IInv, NEW k \in Sources, NEW s \in Rows(k)
  PROVE  s.born \in Nat /\ s.born > erased[k] /\ s.born <= stamp
<1>1. s \in Snapshot /\ s.born > erased[k] /\ s.born < stamp + 1
  BY RowsAreSnapshots DEF IInv, Fresh, Stamped, Below
<1>2. s.born \in Nat /\ stamp \in Nat
  BY <1>1 DEF Snapshot, IInv, TypeOK
<1>3. QED  BY <1>1, <1>2

\* A step that changes the rows of one source: they are still from refreshes
\* that began after the last deletion, and before any that stays live.
LEMMA RowsKeep ==
  ASSUME IInv, NEW k \in Sources,
         TypeOK', HistoryWindow', PendingIsEmpty', UNCHANGED erased, stamp' >= stamp,
         \A j \in Sources : j # k => /\ active'[j] = active[j] /\ history'[j] = history[j]
                                     /\ pendingEmpty'[j] = pendingEmpty[j],
         \A x \in Rows(k)' : x.born \in Nat /\ x.born > erased[k] /\ x.born <= stamp,
         \A p \in Tasks : Live(p)' => call'[p] = call[p] /\ Live(p),
         \A p \in Tasks : Live(p)' /\ call[p].source = k
                          => Captures(p)' /\ \A x \in Rows(k)' : x.born < call[p].born
  PROVE  IInv'
<1>1. stamp \in Nat /\ stamp' \in Nat /\ erased[k] \in Nat
  BY DEF IInv, TypeOK
<1>2. \A j \in Sources : j # k => Rows(j)' = Rows(j)
  BY DEF Rows
<1>3. \A j \in Sources : \A x \in Rows(j)' : x.born \in Nat /\ x.born > erased[j] /\ x.born <= stamp
  BY <1>2, RowFacts
<1>4. Fresh'
  BY <1>3 DEF Fresh
<1>5. Stamped'
  <2> SUFFICES ASSUME NEW j \in Sources PROVE (Below(j, stamp + 1) /\ erased[j] <= stamp)'
    BY DEF Stamped
  <2>1. erased[j] \in Nat /\ erased[j] <= stamp
    BY DEF IInv, Stamped, TypeOK
  <2>2. erased'[j] <= stamp'
    BY <1>1, <2>1
  <2>3. \A x \in Rows(j)' : x.born < stamp' + 1
    BY <1>1, <1>3
  <2>4. QED  BY <2>2, <2>3 DEF Below
<1>6. Awaited'
  <2> SUFFICES ASSUME NEW p \in Tasks, Live(p)'
               PROVE  (/\ call[p].born <= stamp /\ call[p].born > erased[call[p].source]
                       /\ Below(call[p].source, call[p].born)
                       /\ Captures(p))'
    BY DEF Awaited
  <2> DEFINE j == call[p].source
  <2>1. call'[p] = call[p] /\ Live(p)
    OBVIOUS
  <2>2. call[p] \in Call
    BY <2>1 DEF Live, IInv, TypeOK
  <2>3. j \in Sources /\ call[p].born \in Nat
    BY <2>2 DEF Call
  <2>4. call[p].born <= stamp /\ call[p].born > erased[j] /\ Below(j, call[p].born) /\ Captures(p)
    BY <2>1 DEF IInv, Awaited
  <2>5. call[p].born <= stamp'
    BY <1>1, <2>3, <2>4
  <2>6. CASE j = k
    BY <2>1, <2>4, <2>5, <2>6 DEF Below
  <2>7. CASE j # k
    <3>1. Captures(p)'
      BY <2>1, <2>3, <2>4, <2>7 DEF Captures, IsCopy
    <3>2. Below(j, call[p].born) /\ Rows(j)' = Rows(j)
      BY <1>2, <2>3, <2>4, <2>7
    <3>3. \A x \in Rows(j)' : x.born < call[p].born
      BY <3>2 DEF Below
    <3>4. QED  BY <2>1, <2>4, <2>5, <3>1, <3>3 DEF Below
  <2>8. QED  BY <2>6, <2>7
<1>7. QED  BY <1>4, <1>5, <1>6 DEF IInv

LEMMA RequestKeeps ==
  ASSUME IInv, NEW t \in Tasks, NEW k \in Sources, NEW c \in Configs, Request(t, k, c)
  PROVE  IInv'
<1>1. TypeOK'
  BY DEF IInv, TypeOK, tables, Request, Call
<1>2. \A p \in Tasks : Live(p)' => call'[p] = call[p] /\ Live(p)
  BY DEF IInv, TypeOK, Request, Live, IsCurrent
<1>3. QED  BY <1>1, <1>2, CallsKeep DEF Request

LEMMA GiveUpKeeps == ASSUME IInv, NEW t \in Tasks, GiveUp(t) PROVE IInv'
<1>1. TypeOK'
  BY DEF IInv, TypeOK, tables, GiveUp, Return
<1>2. \A p \in Tasks : Live(p)' => call'[p] = call[p] /\ Live(p)
  BY DEF IInv, TypeOK, GiveUp, Return, Live, IsCurrent
<1>3. QED  BY <1>1, <1>2, CallsKeep DEF GiveUp

LEMMA RestartKeeps == ASSUME IInv, Restart PROVE IInv'
<1>1. TypeOK'
  BY DEF IInv, TypeOK, tables, Restart
<1>2. \A p \in Tasks : ~Live(p)'
  BY DEF Restart, Live
<1>3. QED  BY <1>1, <1>2, CallsKeep DEF Restart

LEMMA BeginKeeps == ASSUME IInv, NEW t \in Tasks, Begin(t) PROVE IInv'
<1> DEFINE k == call[t].source
           r == [call[t] EXCEPT !.stage = "refreshing",
                                !.captured = ActiveQuality(k, call[t].config),
                                !.born = stamp + 1]
<1>1. /\ call[t] \in Call /\ k \in Sources /\ stamp \in Nat
      /\ call' = [call EXCEPT ![t] = r] /\ newest' = [newest EXCEPT ![k] = t]
      /\ stamp' = stamp + 1 /\ UNCHANGED <<active, history, pendingEmpty, erased>>
  BY DEF IInv, TypeOK, Begin, Call, tables
<1>2. ActiveQuality(k, call[t].config) \in {"none", "usable", "empty"}
  BY <1>1 DEF IInv, TypeOK, ActiveQuality, Snapshot
<1>3. /\ r \in Call /\ r.source = k /\ r.config = call[t].config /\ r.born = stamp + 1
      /\ r.captured = ActiveQuality(k, call[t].config)
  <2>1. stamp + 1 \in Nat
    BY <1>1
  <2>2. PICK q \in {"none", "usable", "empty"} : q = ActiveQuality(k, call[t].config)
    BY <1>2
  <2>3. r = [call[t] EXCEPT !.stage = "refreshing", !.captured = q, !.born = stamp + 1]
    BY <2>2
  <2> HIDE DEF r
  <2>4. QED  BY <1>1, <2>1, <2>2, <2>3 DEF Call
<1> HIDE DEF r
<1>4. /\ \A p \in Tasks : call'[p] = IF p = t THEN r ELSE call[p]
      /\ \A j \in Sources : newest'[j] = IF j = k THEN t ELSE newest[j]
  BY <1>1 DEF IInv, TypeOK
<1>5. TypeOK'
  BY <1>1, <1>3 DEF IInv, TypeOK
<1>6. HistoryWindow' /\ Fresh' /\ PendingIsEmpty'
  BY <1>1 DEF IInv, HistoryWindow, Fresh, Rows, PendingIsEmpty
<1>7. Stamped'
  <2> SUFFICES ASSUME NEW j \in Sources PROVE (Below(j, stamp + 1) /\ erased[j] <= stamp)'
    BY DEF Stamped
  <2>1. Below(j, stamp + 1) /\ erased[j] <= stamp /\ erased[j] \in Nat
        /\ history[j] \in Seq(Snapshot) /\ active[j] \in Snapshot \cup {None}
        /\ pendingEmpty[j] \in Snapshot \cup {None}
    BY DEF IInv, Stamped, TypeOK
  <2>2. Rows(j) \subseteq Snapshot
    BY <2>1, HistoryRows DEF Rows
  <2>3. \A x \in Rows(j) : x.born \in Nat
    BY <2>2 DEF Snapshot
  <2>4. Rows(j)' = Rows(j)
    BY <1>1 DEF Rows
  <2>5. QED  BY <1>1, <2>1, <2>3, <2>4 DEF Below
<1>8. Awaited'
  <2> SUFFICES ASSUME NEW p \in Tasks, Live(p)'
               PROVE  (/\ call[p].born <= stamp /\ call[p].born > erased[call[p].source]
                       /\ Below(call[p].source, call[p].born)
                       /\ Captures(p))'
    BY DEF Awaited
  <2>1. CASE p = t
    <3>1. Below(k, stamp + 1) /\ erased[k] <= stamp /\ erased[k] \in Nat
      BY <1>1 DEF IInv, Stamped, TypeOK
    <3>2. call'[p] = r
      BY <1>4, <2>1
    <3>3. Captures(p)'
      BY <1>1, <1>3, <3>2 DEF Captures, ActiveQuality, IsCopy
    <3>4. QED  BY <1>1, <1>3, <3>1, <3>2, <3>3 DEF Below, Rows
  <2>2. CASE p # t
    <3>1. call'[p] = call[p] /\ Live(p) /\ call[p].source # k
      <4>1. call'[p] = call[p] /\ call[p] # None /\ call[p] \in Call
        BY <1>4, <2>2 DEF Live, IInv, TypeOK
      <4>2. QED  BY <1>4, <2>2, <4>1 DEF Live, IsCurrent, Call
    <3>2. call[p] \in Call
      BY <3>1 DEF Live, IInv, TypeOK
    <3>3. QED  BY <1>1, <3>1, <3>2 DEF IInv, Awaited, Below, Rows, Captures, IsCopy, Call
  <2>3. QED  BY <2>1, <2>2
<1>9. QED  BY <1>5, <1>6, <1>7, <1>8 DEF IInv

\* A live call is well typed, and only the newest of its source is live.
LEMMA LiveCall ==
  ASSUME IInv, NEW t \in Tasks, Live(t)
  PROVE  /\ call[t] \in Call /\ call[t].source \in Sources /\ call[t].born \in Nat
         /\ newest[call[t].source] = t
         /\ \A p \in Tasks : Live(p) /\ call[p].source = call[t].source => p = t
<1>1. call[t] \in Call
  BY DEF IInv, TypeOK, Live
<1>2. QED  BY <1>1 DEF Call, Live, IsCurrent

\* Returning leaves the other calls as they are.
LEMMA Returned ==
  ASSUME IInv, NEW t \in Tasks, Return(t), UNCHANGED newest
  PROVE  /\ call' \in [Tasks -> Call \cup {None}]
         /\ \A p \in Tasks : Live(p)' => p # t /\ call'[p] = call[p] /\ Live(p)
BY DEF IInv, TypeOK, Return, Live, IsCurrent

LEMMA ResultType ==
  ASSUME NEW t \in Tasks, call[t] \in Call, NEW q \in {"usable", "empty"}
  PROVE  /\ Result(t, q) \in Snapshot /\ Result(t, q).born = call[t].born
         /\ Result(t, q).quality = q /\ Result(t, q).config = call[t].config
         /\ ~IsCopy(Result(t, q))
BY DEF Result, Call, Snapshot, IsCopy

LEMMA CommitKeeps == ASSUME IInv, NEW t \in Tasks, Commit(t) PROVE IInv'
<1>1. Live(t) /\ Return(t) /\ UNCHANGED <<pendingEmpty, newest, stamp, erased>>
  BY DEF Commit, Live
<1>2. PICK k \in Sources, n \in Nat :
        /\ call[t] \in Call /\ call[t].source = k /\ call[t].born = n
        /\ \A p \in Tasks : Live(p) /\ call[p].source = k => p = t
        /\ n > erased[k] /\ n <= stamp
  BY <1>1, LiveCall DEF IInv, Awaited
<1>3. PICK s \in Snapshot : s.born = n /\ WriteActive(k, s)
  BY <1>2, ResultType DEF Commit
<1>4. /\ active' \in [Sources -> Snapshot \cup {None}]
      /\ history' \in [Sources -> Seq(Snapshot)]
      /\ HistoryWindow'
      /\ active'[k] = s
      /\ \A x \in Range(history'[k]) : x = s \/ x \in Range(history[k])
      /\ \A j \in Sources : j # k => active'[j] = active[j] /\ history'[j] = history[j]
  BY <1>3, WriteKeeps
<1>5. TypeOK'
  BY <1>1, <1>4, Returned DEF IInv, TypeOK
<1>6. PendingIsEmpty'
  BY <1>1, <1>3, <1>4, NoneAssumption DEF IInv, PendingIsEmpty
<1>7. \A x \in Rows(k)' : x.born \in Nat /\ x.born > erased[k] /\ x.born <= stamp
  <2>1. \A x \in Rows(k)' : x = s \/ x \in Rows(k)
    BY <1>1, <1>4 DEF Rows
  <2>2. QED  BY <1>2, <1>3, <2>1, RowFacts
<1>8. \A p \in Tasks : Live(p)' => call'[p] = call[p] /\ Live(p) /\ call[p].source # k
  BY <1>1, <1>2, Returned
<1>9. stamp' >= stamp
  BY <1>1 DEF IInv, TypeOK
<1>10. QED  BY <1>1, <1>2, <1>4, <1>5, <1>6, <1>7, <1>8, <1>9, RowsKeep

LEMMA OfferEmptyKeeps == ASSUME IInv, NEW t \in Tasks, OfferEmpty(t) PROVE IInv'
<1>1. Live(t) /\ Return(t) /\ UNCHANGED <<active, history, newest, stamp, erased>>
  BY DEF OfferEmpty, Live
<1>2. PICK k \in Sources, n \in Nat :
        /\ call[t] \in Call /\ call[t].source = k /\ call[t].born = n
        /\ \A p \in Tasks : Live(p) /\ call[p].source = k => p = t
        /\ n > erased[k] /\ n <= stamp
  BY <1>1, LiveCall DEF IInv, Awaited
<1>3. PICK s \in Snapshot : /\ s.born = n /\ s.quality = "empty"
                            /\ pendingEmpty' = [pendingEmpty EXCEPT ![k] = s]
  BY <1>2, ResultType DEF OfferEmpty
<1>4. /\ pendingEmpty' \in [Sources -> Snapshot \cup {None}] /\ pendingEmpty'[k] = s
      /\ \A j \in Sources : j # k => pendingEmpty'[j] = pendingEmpty[j]
  BY <1>3 DEF IInv, TypeOK
<1>5. TypeOK'
  BY <1>1, <1>4, Returned DEF IInv, TypeOK
<1>6. PendingIsEmpty' /\ HistoryWindow'
  <2>1. active[k] # None
    BY <1>1, <1>2 DEF OfferEmpty, Offers, IInv, Awaited, Captures
  <2>2. QED  BY <1>1, <1>3, <1>4, <2>1 DEF IInv, PendingIsEmpty, HistoryWindow
<1>7. \A x \in Rows(k)' : x.born \in Nat /\ x.born > erased[k] /\ x.born <= stamp
  <2>1. \A x \in Rows(k)' : x = s \/ x \in Rows(k)
    BY <1>1, <1>4 DEF Rows
  <2>2. QED  BY <1>2, <1>3, <2>1, RowFacts
<1>8. \A p \in Tasks : Live(p)' => call'[p] = call[p] /\ Live(p) /\ call[p].source # k
  BY <1>1, <1>2, Returned
<1>9. stamp' >= stamp
  BY <1>1 DEF IInv, TypeOK
<1>10. QED  BY <1>1, <1>2, <1>4, <1>5, <1>6, <1>7, <1>8, <1>9, RowsKeep

\* The endpoints that only rearrange the rows of a source.
LEMMA RearrangedKeeps ==
  ASSUME IInv, NEW k \in Sources,
         TypeOK', HistoryWindow', PendingIsEmpty', UNCHANGED <<erased, newest, call>>,
         stamp' >= stamp,
         \A j \in Sources : j # k => /\ active'[j] = active[j] /\ history'[j] = history[j]
                                     /\ pendingEmpty'[j] = pendingEmpty[j],
         \A x \in Rows(k)' : \E y \in Rows(k) : x.born = y.born,
         \/ active'[k] = active[k]
         \/ active'[k] # None /\ (active'[k].quality = "empty" \/ IsCopy(active'[k]))
  PROVE  IInv'
<1>1. \A p \in Tasks : Live(p)' => call'[p] = call[p] /\ Live(p)
  BY DEF Live, IsCurrent
<1>2. \A x \in Rows(k)' : x.born \in Nat /\ x.born > erased[k] /\ x.born <= stamp
  BY RowFacts
<1>3. ASSUME NEW p \in Tasks, Live(p)', call[p].source = k
      PROVE  Captures(p)' /\ \A x \in Rows(k)' : x.born < call[p].born
  <2>1. Live(p) /\ Captures(p) /\ Below(k, call[p].born) /\ call'[p] = call[p]
    BY <1>1, <1>3 DEF IInv, Awaited
  <2>2. Captures(p)'
    BY <1>3, <2>1 DEF Captures, IsCopy
  <2>3. QED  BY <2>1, <2>2 DEF Below
<1>4. QED  BY <1>1, <1>2, <1>3, RowsKeep

LEMMA ConfirmEmptyKeeps == ASSUME IInv, NEW k \in Sources, ConfirmEmpty(k) PROVE IInv'
<1>1. PICK s \in Snapshot : /\ s = pendingEmpty[k] /\ s # None /\ s.quality = "empty"
                            /\ WriteActive(k, s)
  BY DEF ConfirmEmpty, IInv, TypeOK, PendingIsEmpty
<1>2. /\ active' \in [Sources -> Snapshot \cup {None}]
      /\ history' \in [Sources -> Seq(Snapshot)]
      /\ HistoryWindow'
      /\ active'[k] = s
      /\ \A x \in Range(history'[k]) : x = s \/ x \in Range(history[k])
      /\ \A j \in Sources : j # k => active'[j] = active[j] /\ history'[j] = history[j]
  BY <1>1, WriteKeeps
<1>3. /\ pendingEmpty' \in [Sources -> Snapshot \cup {None}]
      /\ pendingEmpty'[k] \in {pendingEmpty[k], None}
      /\ \A j \in Sources : j # k => pendingEmpty'[j] = pendingEmpty[j]
      /\ UNCHANGED <<newest, call, stamp, erased>>
  BY DEF ConfirmEmpty, IInv, TypeOK
<1>4. TypeOK' /\ stamp' >= stamp
  BY <1>2, <1>3 DEF IInv, TypeOK
<1>5. PendingIsEmpty'
  BY <1>1, <1>2, <1>3 DEF IInv, PendingIsEmpty
<1>6. Rows(k)' \subseteq Rows(k)
  BY <1>1, <1>2, <1>3 DEF Rows
<1>7. QED  BY <1>1, <1>2, <1>3, <1>4, <1>5, <1>6, RearrangedKeeps

LEMMA DiscardEmptyKeeps == ASSUME IInv, NEW k \in Sources, DiscardEmpty(k) PROVE IInv'
<1>1. /\ pendingEmpty' = [pendingEmpty EXCEPT ![k] = None]
      /\ UNCHANGED <<active, history, newest, call, stamp, erased>>
  BY DEF DiscardEmpty
<1>2. TypeOK' /\ stamp' >= stamp
  BY <1>1 DEF IInv, TypeOK
<1>3. PendingIsEmpty' /\ HistoryWindow'
  BY <1>1 DEF IInv, TypeOK, PendingIsEmpty, HistoryWindow
<1>4. /\ Rows(k)' \subseteq Rows(k)
      /\ \A j \in Sources : j # k => pendingEmpty'[j] = pendingEmpty[j]
  BY <1>1 DEF IInv, TypeOK, Rows
<1>5. QED  BY <1>1, <1>2, <1>3, <1>4, RearrangedKeeps

LEMMA RestoreKeeps == ASSUME IInv, NEW k \in Sources, Restore(k) PROVE IInv'
<1>1. PICK x \in Range(history[k]) : WriteActive(k, [x EXCEPT !.id = stamp + 1])
  BY DEF Restore
<1>2. stamp \in Nat /\ x \in Snapshot /\ x \in Rows(k) /\ x.born \in Nat /\ x.born <= stamp
  BY HistoryRows, RowFacts DEF IInv, TypeOK, Rows
<1>3. PICK s \in Snapshot : s.born = x.born /\ IsCopy(s) /\ WriteActive(k, s)
  <2>1. [x EXCEPT !.id = stamp + 1] \in Snapshot /\ [x EXCEPT !.id = stamp + 1].born = x.born
        /\ [x EXCEPT !.id = stamp + 1].id = stamp + 1
    BY <1>2 DEF Snapshot
  <2>2. PICK s : s = [x EXCEPT !.id = stamp + 1]
    OBVIOUS
  <2>3. s \in Snapshot /\ s.born = x.born /\ s.id = stamp + 1
    BY <2>1, <2>2
  <2>4. IsCopy(s)
    BY <1>2, <2>3 DEF IsCopy
  <2>5. WriteActive(k, s)
    BY <1>1, <2>2
  <2>6. QED  BY <2>3, <2>4, <2>5
<1>4. /\ active' \in [Sources -> Snapshot \cup {None}]
      /\ history' \in [Sources -> Seq(Snapshot)]
      /\ HistoryWindow'
      /\ active'[k] = s
      /\ \A y \in Range(history'[k]) : y = s \/ y \in Range(history[k])
      /\ \A j \in Sources : j # k => active'[j] = active[j] /\ history'[j] = history[j]
  BY <1>3, WriteKeeps
<1>5. stamp' = stamp + 1 /\ UNCHANGED <<pendingEmpty, newest, call, erased>>
  BY DEF Restore
<1>6. TypeOK' /\ stamp' >= stamp
  BY <1>2, <1>4, <1>5 DEF IInv, TypeOK
<1>7. PendingIsEmpty' /\ s # None
  BY <1>3, <1>4, <1>5, NoneAssumption DEF IInv, PendingIsEmpty
<1>8. \A y \in Rows(k)' : y = s \/ y \in Rows(k)
  BY <1>4, <1>5 DEF Rows
<1>9. \A y \in Rows(k)' : \E z \in Rows(k) : y.born = z.born
  BY <1>2, <1>3, <1>8
<1>10. QED  BY <1>3, <1>4, <1>5, <1>6, <1>7, <1>9, RearrangedKeeps

LEMMA ClearHistoryKeeps == ASSUME IInv, NEW k \in Sources, ClearHistory(k) PROVE IInv'
<1>1. /\ history' = [history EXCEPT ![k] = <<>>]
      /\ UNCHANGED <<active, pendingEmpty, newest, call, stamp, erased>>
  BY DEF ClearHistory
<1>2. <<>> \in Seq(Snapshot) /\ Len(<<>>) = 0 /\ DOMAIN <<>> = {} /\ Range(<<>>) = {}
  BY EmptySeq DEF Range
<1>3. /\ history'[k] = <<>> /\ \A j \in Sources : j # k => history'[j] = history[j]
      /\ history' \in [Sources -> Seq(Snapshot)]
  BY <1>1, <1>2 DEF IInv, TypeOK
<1>4. TypeOK' /\ stamp' >= stamp
  BY <1>1, <1>3 DEF IInv, TypeOK
<1>5. PendingIsEmpty'
  BY <1>1 DEF IInv, PendingIsEmpty
<1>6. HistoryWindow'
  BY <1>1, <1>2, <1>3, MaxHistoryAssumption DEF IInv, HistoryWindow
<1>7. Rows(k)' \subseteq Rows(k)
  BY <1>1, <1>2, <1>3 DEF Rows
<1>8. QED  BY <1>1, <1>3, <1>4, <1>5, <1>6, <1>7, RearrangedKeeps

\* After a deletion no refresh of the source is live: none is the newest.
LEMMA DeleteSourceKeeps == ASSUME IInv, NEW k \in Sources, DeleteSource(k) PROVE IInv'
<1>1. /\ active' = [active EXCEPT ![k] = None] /\ history' = [history EXCEPT ![k] = <<>>]
      /\ pendingEmpty' = [pendingEmpty EXCEPT ![k] = None]
      /\ erased' = [erased EXCEPT ![k] = stamp]
      /\ newest' = [newest EXCEPT ![k] = None] /\ UNCHANGED <<call, stamp>>
  BY DEF DeleteSource
<1>2. <<>> \in Seq(Snapshot) /\ Len(<<>>) = 0 /\ DOMAIN <<>> = {} /\ Range(<<>>) = {}
  BY EmptySeq DEF Range
<1>3. stamp \in Nat
  BY DEF IInv, TypeOK
<1>4. TypeOK'
  BY <1>1, <1>2, <1>3 DEF IInv, TypeOK
<1>5. /\ active'[k] = None /\ history'[k] = <<>> /\ pendingEmpty'[k] = None /\ erased'[k] = stamp
      /\ newest'[k] = None
      /\ \A j \in Sources : j # k =>
            /\ active'[j] = active[j] /\ history'[j] = history[j] /\ erased'[j] = erased[j]
            /\ pendingEmpty'[j] = pendingEmpty[j] /\ newest'[j] = newest[j]
  BY <1>1 DEF IInv, TypeOK
<1>6. HistoryWindow' /\ PendingIsEmpty'
  BY <1>2, <1>5, MaxHistoryAssumption DEF IInv, HistoryWindow, PendingIsEmpty
<1>7. Rows(k)' = {} /\ \A j \in Sources : j # k => Rows(j)' = Rows(j)
  BY <1>2, <1>5 DEF Rows
<1>8. Fresh'
  <2>1. \A j \in Sources : \A x \in Rows(j)' : x.born > erased'[j]
    BY <1>5, <1>7, RowFacts
  <2>2. QED  BY <2>1 DEF Fresh
<1>9. Stamped'
  BY <1>1, <1>3, <1>5, <1>7 DEF IInv, Stamped, Below
<1>10. Awaited'
  <2> SUFFICES ASSUME NEW p \in Tasks, Live(p)'
               PROVE  (/\ call[p].born <= stamp /\ call[p].born > erased[call[p].source]
                       /\ Below(call[p].source, call[p].born)
                       /\ Captures(p))'
    BY DEF Awaited
  <2>1. call'[p] = call[p] /\ call[p] \in Call
    BY <1>1 DEF Live, IInv, TypeOK
  <2>2. PICK j \in Sources : j = call[p].source
    BY <2>1 DEF Call
  <2>3. j # k /\ Live(p)
    BY <1>5, <2>1, <2>2, NoneAssumption DEF Live, IsCurrent
  <2>4. call[p].born <= stamp /\ call[p].born > erased[j] /\ Below(j, call[p].born) /\ Captures(p)
    BY <2>2, <2>3 DEF IInv, Awaited
  <2>5. Captures(p)'
    BY <1>5, <2>1, <2>2, <2>3, <2>4 DEF Captures, IsCopy
  <2>6. QED  BY <1>1, <1>5, <1>7, <2>1, <2>2, <2>3, <2>4, <2>5 DEF Below
<1>11. QED  BY <1>4, <1>6, <1>8, <1>9, <1>10 DEF IInv

LEMMA StepIInv == IInv /\ [Next]_vars => IInv'
<1> SUFFICES ASSUME IInv, [Next]_vars PROVE IInv'
  OBVIOUS
<1>1. CASE UNCHANGED vars
  <2>1. TypeOK' /\ UNCHANGED <<tables, stamp, erased>>
    BY <1>1 DEF vars, tables, IInv, TypeOK
  <2>2. \A t \in Tasks : Live(t)' => call'[t] = call[t] /\ Live(t)
    BY <1>1 DEF vars, Live, IsCurrent
  <2>3. QED  BY <2>1, <2>2, CallsKeep
<1>2. QED
  BY <1>1, RequestKeeps, BeginKeeps, CommitKeeps, OfferEmptyKeeps, GiveUpKeeps, ConfirmEmptyKeeps,
     DiscardEmptyKeeps, RestoreKeeps, ClearHistoryKeeps, DeleteSourceKeeps, RestartKeeps DEF Next

LEMMA Inductive == Spec => []IInv
BY InitIInv, StepIInv, PTL DEF Spec

\* What can take the place of an active row: nothing, the candidate kept for
\* confirmation, a restored copy, or the result of the newest refresh.
LEMMA Replacement ==
  ASSUME IInv, [Next]_vars, NEW k \in Sources, active'[k] # active[k]
  PROVE  \/ active'[k] = None
         \/ active'[k] = pendingEmpty[k]
         \/ IsCopy(active'[k])
         \/ \E t \in Tasks, q \in {"usable", "empty"} :
              /\ Live(t) /\ call[t].source = k /\ ~Offers(t, q)
              /\ active'[k] = Result(t, q)
<1>1. PICK j \in Sources :
        \/ \E t \in Tasks : Commit(t)
        \/ ConfirmEmpty(j) \/ Restore(j) \/ DeleteSource(j)
  BY DEF Next, vars, tables, Request, Begin, OfferEmpty, GiveUp, DiscardEmpty, ClearHistory, Restart
<1>2. active \in [Sources -> Snapshot \cup {None}] /\ stamp \in Nat
  BY DEF IInv, TypeOK
<1>3. CASE \E t \in Tasks : Commit(t)
  <2>1. PICK t \in Tasks, q \in {"usable", "empty"} :
          Live(t) /\ ~Offers(t, q) /\ active' = [active EXCEPT ![call[t].source] = Result(t, q)]
    BY <1>3 DEF Commit, WriteActive, Live
  <2>2. call[t].source = k /\ active'[k] = Result(t, q)
    BY <1>2, <2>1
  <2>3. QED  BY <2>1, <2>2
<1>4. CASE ConfirmEmpty(j)
  BY <1>2, <1>4 DEF ConfirmEmpty, WriteActive
<1>5. CASE Restore(j)
  <2>1. PICK x \in Range(history[j]) : active' = [active EXCEPT ![j] = [x EXCEPT !.id = stamp + 1]]
    BY <1>5 DEF Restore, WriteActive
  <2>2. x \in Snapshot /\ x \in Rows(j) /\ x.born \in Nat /\ x.born <= stamp
    BY <2>1, HistoryRows, RowFacts DEF IInv, TypeOK, Rows
  <2>3. [x EXCEPT !.id = stamp + 1].born = x.born /\ [x EXCEPT !.id = stamp + 1].id = stamp + 1
    BY <2>2 DEF Snapshot
  <2>4. active'[k] = [x EXCEPT !.id = stamp + 1]
    BY <1>2, <2>1
  <2>5. active'[k].born = x.born /\ active'[k].id = stamp + 1
    BY <2>3, <2>4
  <2>6. IsCopy(active'[k])
    BY <1>2, <2>2, <2>5 DEF IsCopy
  <2>7. QED  BY <2>6
<1>6. CASE DeleteSource(j)
  BY <1>2, <1>6 DEF DeleteSource
<1>7. QED  BY <1>1, <1>3, <1>4, <1>5, <1>6

-----------------------------------------------------------------------------
(* The results.                                                            *)

\* Every row of the three tables is a snapshot of its source, and the refreshes
\* in progress are well typed, in every state of the service.
THEOREM TypeCorrect == Spec => []TypeOK
BY Inductive, PTL DEF IInv

\* The history of a source never exceeds maxHistoryPerSource, holds no snapshot
\* twice, and holds the active one unless it was cleared since.
THEOREM HistoryStaysInWindow == Spec => []HistoryWindow
BY Inductive, PTL DEF IInv

\* DELETE of a source outdates every refresh of it that has entered the
\* coordinator: no such refresh, and no confirmation or restore after the DELETE,
\* brings back a row from before it or leaves a candidate without an active row.
THEOREM ErasureOutdates == Spec => []ErasedDataAreGone
<1>1. IInv => ErasedDataAreGone
  BY DEF IInv, Fresh, Rows, PendingIsEmpty, ErasedDataAreGone
<1>2. QED  BY <1>1, Inductive, PTL

\* Over any number of overlapping refreshes and restarts, the result of an older
\* refresh replaces that of a newer one only by confirmation or restore.
THEOREM RefreshesStayInOrder == Spec => RefreshesInOrder
<1>1. ASSUME IInv, [Next]_vars
      PROVE  [\A k \in Sources :
                active'[k] # active[k] /\ active[k] # None /\ active'[k] # None =>
                  \/ active'[k].born > active[k].born
                  \/ active'[k] = pendingEmpty[k]
                  \/ IsCopy(active'[k])]_active
  <2> SUFFICES ASSUME NEW k \in Sources,
                      active'[k] # active[k], active[k] # None, active'[k] # None
               PROVE  \/ active'[k].born > active[k].born
                      \/ active'[k] = pendingEmpty[k]
                      \/ IsCopy(active'[k])
    OBVIOUS
  <2>1. CASE \E t \in Tasks, q \in {"usable", "empty"} :
               Live(t) /\ call[t].source = k /\ ~Offers(t, q) /\ active'[k] = Result(t, q)
    <3>1. PICK t \in Tasks, q \in {"usable", "empty"} :
            Live(t) /\ call[t].source = k /\ active'[k] = Result(t, q)
      BY <2>1
    <3>2. call[t] \in Call /\ call[t].born \in Nat /\ Below(k, call[t].born)
      BY <1>1, <3>1, LiveCall DEF IInv, Awaited
    <3>3. active'[k].born = call[t].born
      BY <3>1, <3>2, ResultType
    <3>4. active[k] \in Rows(k)
      BY DEF Rows
    <3>5. active[k].born \in Nat /\ active[k].born < call[t].born
      BY <1>1, <3>2, <3>4, RowFacts DEF Below
    <3>6. QED  BY <3>2, <3>3, <3>5
  <2>2. QED  BY <1>1, <2>1, Replacement
<1>2. QED  BY Inductive, <1>1, PTL DEF Spec, RefreshesInOrder

\* A usable snapshot fetched from a URL is not replaced by an empty one fetched
\* from the same URL unless the empty one was kept for confirmation.
THEOREM UsableIsKept == Spec => FetchedUsableIsKept
<1>1. ASSUME IInv, [Next]_vars
      PROVE  [\A k \in Sources :
                /\ active[k] # None /\ active'[k] # None
                /\ active[k].quality = "usable" /\ ~IsCopy(active[k])
                /\ active'[k].quality = "empty" /\ ~IsCopy(active'[k])
                /\ active'[k].config = active[k].config
                => active'[k] = pendingEmpty[k]]_active
  <2> SUFFICES ASSUME NEW k \in Sources,
                      active[k] # None, active'[k] # None,
                      active[k].quality = "usable", ~IsCopy(active[k]),
                      active'[k].quality = "empty", ~IsCopy(active'[k]),
                      active'[k].config = active[k].config
               PROVE  active'[k] = pendingEmpty[k]
    OBVIOUS
  <2>1. active'[k] # active[k]
    OBVIOUS
  <2>2. ~\E t \in Tasks, q \in {"usable", "empty"} :
           Live(t) /\ call[t].source = k /\ ~Offers(t, q) /\ active'[k] = Result(t, q)
    <3> SUFFICES ASSUME NEW t \in Tasks, NEW q \in {"usable", "empty"},
                        Live(t), call[t].source = k, ~Offers(t, q), active'[k] = Result(t, q)
                 PROVE  FALSE
      OBVIOUS
    <3>1. call[t] \in Call /\ Captures(t)
      BY <1>1, LiveCall DEF IInv, Awaited
    <3>2. q = "empty" /\ active[k].config = call[t].config
      BY <3>1, ResultType
    <3>3. call[t].captured = "usable"
      BY <3>1, <3>2 DEF Captures
    <3>4. QED  BY <3>2, <3>3 DEF Offers
  <2>3. QED  BY <1>1, <2>1, <2>2, Replacement
<1>2. QED  BY Inductive, <1>1, PTL DEF Spec, FetchedUsableIsKept
-----------------------------------------------------------------------------
(* The scheduler, for any finite set of sources and any number of          *)
(* overlapping runs.                                                       *)
(*                                                                         *)
(* A run that finds its refresh outdated marks the schedule all the same.  *)
(* That is justified because whoever outdated it has completed, or is      *)
(* under way: while a run refreshes a source for which no refresh may      *)
(* complete any more, nothing is owed to that source.                      *)

Busy(r) == stage[r] # "idle"

(* A run that is under way has something to do. *)
BusyHasWork == \A r \in Runs : Busy(r) => todo[r] # <<>>

(* What a run refreshes is under way on somebody's behalf, or not owed. *)
NothingOwed ==
    \A r \in Runs :
        stage[r] = "refreshing" /\ caller[Current(r)] = None => ~owed[Current(r)]

SchedulerInv == SchedulerTypeOK /\ BusyHasWork /\ NothingOwed

\* The entry a run is busy with is one of its list, and a source.
LEMMA CurrentIsListed ==
  ASSUME SchedulerInv, NEW r \in Runs, Busy(r)
  PROVE  /\ Current(r) \in Sources /\ Current(r) \in Range(todo[r])
         /\ Len(todo[r]) \in Nat \ {0}
         /\ Tail(todo[r]) \in Seq(Sources)
         /\ Len(todo[r]) # 1 => Tail(todo[r]) # <<>>
<1>1. todo[r] \in Seq(Sources) /\ todo[r] # <<>>
  BY DEF SchedulerInv, SchedulerTypeOK, BusyHasWork
<1>2. /\ Head(todo[r]) \in Sources /\ Head(todo[r]) = todo[r][1]
      /\ Tail(todo[r]) \in Seq(Sources) /\ Len(Tail(todo[r])) = Len(todo[r]) - 1
  BY <1>1, HeadTailProperties
<1>3. Len(todo[r]) \in Nat \ {0} /\ DOMAIN todo[r] = 1 .. Len(todo[r])
  BY <1>1, EmptySeq, LenProperties
<1>4. 1 \in DOMAIN todo[r]
  BY <1>3
<1>5. Len(todo[r]) # 1 => Len(Tail(todo[r])) # 0
  BY <1>2, <1>3
<1>6. Len(<<>>) = 0
  OBVIOUS
<1>7. QED  BY <1>2, <1>3, <1>4, <1>5, <1>6 DEF Current, Range

\* An order of a set of sources is a list of them, and not empty if the set
\* is not.
LEMMA OrdersAreLists ==
  ASSUME NEW S \in SUBSET Sources, NEW q \in Orders(S), S # {}
  PROVE  q \in Seq(Sources) /\ q # <<>>
<1>1. IsFiniteSet(S)
  BY SourcesAssumption, FS_Subset
<1>2. Cardinality(S) \in Nat /\ Cardinality(S) # 0
  BY <1>1, FS_CardinalityType, FS_EmptySet
<1>3. q \in [1 .. Cardinality(S) -> Sources]
  BY DEF Orders
<1>4. q \in Seq(Sources) /\ Len(q) = Cardinality(S)
  BY <1>2, <1>3, SeqDef, LenProperties
<1>5. QED  BY <1>2, <1>4

LEMMA SchedulerStarts == SchedulerInit => SchedulerInv
BY CallersAssumption, MaxTroublesAssumption, EmptySeq
   DEF SchedulerInit, SchedulerInv, SchedulerTypeOK, Row, BusyHasWork, NothingOwed, Busy

LEMMA TickKeeps == ASSUME SchedulerInv, NEW r \in Runs, Tick(r) PROVE SchedulerInv'
<1>1. PICK q \in Orders(DueSources) : todo' = [todo EXCEPT ![r] = q]
  BY DEF Tick
<1>2. q \in Seq(Sources) /\ q # <<>>
  BY OrdersAreLists DEF DueSources, Tick
<1>3. stage' = [stage EXCEPT ![r] = "preparing"]
      /\ UNCHANGED <<schedule, due, caller, owed, troubles>>
  BY DEF Tick
<1>4. SchedulerTypeOK'
  BY <1>1, <1>2, <1>3 DEF SchedulerInv, SchedulerTypeOK
<1>5. BusyHasWork'
  BY <1>1, <1>2, <1>3 DEF SchedulerInv, SchedulerTypeOK, BusyHasWork, Busy
<1>6. NothingOwed'
  BY <1>1, <1>3 DEF SchedulerInv, SchedulerTypeOK, NothingOwed, Current
<1>7. QED  BY <1>4, <1>5, <1>6 DEF SchedulerInv

LEMMA BeginDueKeeps == ASSUME SchedulerInv, NEW r \in Runs, BeginDue(r) PROVE SchedulerInv'
<1>1. Current(r) \in Sources
  BY CurrentIsListed DEF BeginDue, Busy
<1>2. SchedulerTypeOK'
  BY <1>1 DEF SchedulerInv, SchedulerTypeOK, BeginDue
<1>3. BusyHasWork'
  BY DEF SchedulerInv, SchedulerTypeOK, BusyHasWork, Busy, BeginDue
<1>4. NothingOwed'
  <2> SUFFICES ASSUME NEW p \in Runs, stage'[p] = "refreshing", caller'[Current(p)'] = None
               PROVE  ~owed'[Current(p)']
    BY DEF NothingOwed
  <2>1. /\ Current(p)' = Current(p) /\ owed' = owed
        /\ caller' = [caller EXCEPT ![Current(r)] = r]
        /\ stage' = [stage EXCEPT ![r] = "refreshing"]
    BY DEF BeginDue, Current
  <2>2. caller'[Current(r)] = r /\ r # None
    BY <1>1, <2>1, CallersAssumption DEF SchedulerInv, SchedulerTypeOK
  <2>3. Current(p) # Current(r)
    BY <2>1, <2>2
  <2>4. p # r /\ stage[p] = "refreshing"
    BY <2>1, <2>3 DEF SchedulerInv, SchedulerTypeOK
  <2>5. caller[Current(p)] = None
    BY <2>1, <2>3 DEF SchedulerInv, SchedulerTypeOK
  <2>6. QED  BY <2>1, <2>4, <2>5 DEF SchedulerInv, NothingOwed
<1>5. QED  BY <1>2, <1>3, <1>4 DEF SchedulerInv

\* What marking a schedule leaves, whatever the refresh has changed.
LEMMA MarkKeeps ==
  ASSUME SchedulerInv, NEW r \in Runs, Busy(r), Mark(r)
  PROVE  /\ due' \in [Sources -> BOOLEAN] /\ schedule' \in [Sources -> Row]
         /\ todo' \in [Runs -> Seq(Sources)]
         /\ stage' \in [Runs -> {"idle", "preparing", "refreshing"}]
         /\ BusyHasWork'
         /\ stage'[r] # "refreshing"
         /\ \A p \in Runs : p # r => stage'[p] = stage[p] /\ todo'[p] = todo[p]
<1>1. /\ Current(r) \in Sources /\ Tail(todo[r]) \in Seq(Sources)
      /\ Len(todo[r]) # 1 => Tail(todo[r]) # <<>>
  BY CurrentIsListed
<1>2. /\ due' \in [Sources -> BOOLEAN] /\ schedule' \in [Sources -> Row]
      /\ todo' \in [Runs -> Seq(Sources)]
      /\ stage' \in [Runs -> {"idle", "preparing", "refreshing"}]
  BY <1>1 DEF SchedulerInv, SchedulerTypeOK, Mark
<1>3. /\ stage'[r] = (IF Len(todo[r]) = 1 THEN "idle" ELSE "preparing")
      /\ todo'[r] = Tail(todo[r])
      /\ \A p \in Runs : p # r => stage'[p] = stage[p] /\ todo'[p] = todo[p]
  BY DEF SchedulerInv, SchedulerTypeOK, Mark
<1>4. BusyHasWork'
  BY <1>1, <1>3 DEF SchedulerInv, BusyHasWork, Busy
<1>5. QED  BY <1>2, <1>3, <1>4

LEMMA RunCompleteKeeps == ASSUME SchedulerInv, NEW r \in Runs, Complete(r) PROVE SchedulerInv'
<1>1. Busy(r) /\ Mark(r) /\ Current(r) \in Sources
  BY CurrentIsListed DEF Complete, Busy
<1>2. SchedulerTypeOK'
  BY <1>1, MarkKeeps DEF SchedulerInv, SchedulerTypeOK, Complete
<1>3. NothingOwed'
  <2> SUFFICES ASSUME NEW p \in Runs, stage'[p] = "refreshing", caller'[Current(p)'] = None
               PROVE  ~owed'[Current(p)']
    BY DEF NothingOwed
  <2>1. p # r /\ stage[p] = "refreshing" /\ Current(p)' = Current(p)
    BY <1>1, MarkKeeps DEF Current
  <2>2. Current(p) \in Sources
    BY <2>1, CurrentIsListed DEF Busy
  <2>3. QED  BY <1>1, <2>1, <2>2 DEF SchedulerInv, SchedulerTypeOK, NothingOwed, Complete
<1>4. QED  BY <1>1, <1>2, <1>3, MarkKeeps DEF SchedulerInv

LEMMA RunSupersededKeeps == ASSUME SchedulerInv, NEW r \in Runs, Superseded(r) PROVE SchedulerInv'
<1>1. Busy(r) /\ Mark(r)
  BY DEF Superseded, Busy
<1>2. SchedulerTypeOK'
  BY <1>1, MarkKeeps DEF SchedulerInv, SchedulerTypeOK, Superseded
<1>3. NothingOwed'
  <2> SUFFICES ASSUME NEW p \in Runs, stage'[p] = "refreshing", caller'[Current(p)'] = None
               PROVE  ~owed'[Current(p)']
    BY DEF NothingOwed
  <2>1. stage[p] = "refreshing" /\ Current(p)' = Current(p)
    BY <1>1, MarkKeeps DEF Current
  <2>2. QED  BY <2>1 DEF SchedulerInv, NothingOwed, Superseded
<1>4. QED  BY <1>1, <1>2, <1>3, MarkKeeps DEF SchedulerInv

LEMMA RunAbortKeeps == ASSUME SchedulerInv, NEW r \in Runs, Abort(r) PROVE SchedulerInv'
<1>1. Busy(r) /\ Current(r) \in Sources
  BY CurrentIsListed DEF Abort, Busy
<1>2. /\ todo' = [todo EXCEPT ![r] = <<>>] /\ stage' = [stage EXCEPT ![r] = "idle"]
      /\ troubles' \in 0 .. MaxTroubles /\ UNCHANGED <<schedule, due>>
      /\ \/ UNCHANGED <<caller, owed>>
         \/ /\ caller' = [caller EXCEPT ![Current(r)] = None]
            /\ owed' = [owed EXCEPT ![Current(r)] = FALSE]
  BY MaxTroublesAssumption DEF Abort, Trouble, SchedulerInv, SchedulerTypeOK
<1>3. SchedulerTypeOK'
  BY <1>1, <1>2, EmptySeq DEF SchedulerInv, SchedulerTypeOK
<1>4. BusyHasWork'
  BY <1>2 DEF SchedulerInv, SchedulerTypeOK, BusyHasWork, Busy
<1>5. NothingOwed'
  <2> SUFFICES ASSUME NEW p \in Runs, stage'[p] = "refreshing", caller'[Current(p)'] = None
               PROVE  ~owed'[Current(p)']
    BY DEF NothingOwed
  <2>1. p # r /\ stage[p] = "refreshing" /\ Current(p)' = Current(p)
    BY <1>2 DEF SchedulerInv, SchedulerTypeOK, Current
  <2>2. Current(p) \in Sources
    BY <2>1, CurrentIsListed DEF Busy
  <2>3. QED  BY <1>1, <1>2, <2>1, <2>2 DEF SchedulerInv, SchedulerTypeOK, NothingOwed
<1>6. QED  BY <1>3, <1>4, <1>5 DEF SchedulerInv

\* Clients and the clock leave the runs alone: what they change of a source
\* is no harm if it leaves nothing owed to it.
LEMMA ClientKeeps ==
  ASSUME SchedulerInv, NEW k \in Sources, UNCHANGED <<todo, stage>>, SchedulerTypeOK',
         \A j \in Sources \ {k} : caller'[j] = caller[j] /\ owed'[j] = owed[j],
         caller'[k] # None \/ ~owed'[k] \/ \A r \in Runs : k \notin Range(todo[r])
  PROVE  SchedulerInv'
<1>1. BusyHasWork'
  BY DEF SchedulerInv, BusyHasWork, Busy
<1>2. NothingOwed'
  <2> SUFFICES ASSUME NEW p \in Runs, stage'[p] = "refreshing", caller'[Current(p)'] = None
               PROVE  ~owed'[Current(p)']
    BY DEF NothingOwed
  <2>1. stage[p] = "refreshing" /\ Current(p)' = Current(p)
    BY DEF Current
  <2>2. Current(p) \in Sources /\ Current(p) \in Range(todo[p])
    BY <2>1, CurrentIsListed DEF Busy
  <2>3. QED  BY <2>1, <2>2 DEF SchedulerInv, NothingOwed
<1>3. QED  BY <1>1, <1>2 DEF SchedulerInv

LEMMA SourceKeeps ==
  ASSUME SchedulerInv, NEW k \in Sources,
         \/ ClientRefresh(k) \/ ClientDone(k) \/ Elapse(k)
         \/ PutSchedule(k) \/ DeleteSchedule(k) \/ ForgetSource(k)
  PROVE  SchedulerInv'
<1> USE DEF SchedulerInv, SchedulerTypeOK, Row
<1>7. Trouble => troubles' \in 0 .. MaxTroubles
  BY MaxTroublesAssumption DEF Trouble
<1>1. CASE ClientRefresh(k)
  BY <1>1, ClientKeeps, <1>7, CallersAssumption DEF ClientRefresh
<1>2. CASE ClientDone(k)
  BY <1>2, ClientKeeps DEF ClientDone
<1>3. CASE Elapse(k)
  BY <1>3, ClientKeeps DEF Elapse
<1>4. CASE PutSchedule(k)
  <2>1. SchedulerTypeOK'
    BY <1>7, <1>4 DEF PutSchedule
  <2>2. /\ \A j \in Sources \ {k} : caller'[j] = caller[j] /\ owed'[j] = owed[j]
        /\ ~owed'[k] /\ UNCHANGED <<todo, stage>>
    BY <1>4 DEF PutSchedule
  <2>3. QED  BY <2>1, <2>2, ClientKeeps
<1>5. CASE DeleteSchedule(k)
  <2>1. SchedulerTypeOK'
    BY <1>7, <1>5 DEF DeleteSchedule
  <2>2. /\ \A j \in Sources \ {k} : caller'[j] = caller[j] /\ owed'[j] = owed[j]
        /\ ~owed'[k] /\ UNCHANGED <<todo, stage>>
    BY <1>5 DEF DeleteSchedule
  <2>3. QED  BY <2>1, <2>2, ClientKeeps
<1>6. CASE ForgetSource(k)
  <2>1. SchedulerTypeOK'
    BY <1>7, <1>6 DEF ForgetSource
  <2>2. /\ \A j \in Sources \ {k} : caller'[j] = caller[j] /\ owed'[j] = owed[j]
        /\ ~owed'[k] /\ UNCHANGED <<todo, stage>>
    BY <1>6 DEF ForgetSource
  <2>3. QED  BY <2>1, <2>2, ClientKeeps
<1>8. QED  BY <1>1, <1>2, <1>3, <1>4, <1>5, <1>6

LEMMA SchedulerRestartKeeps == ASSUME SchedulerInv, SchedulerRestart PROVE SchedulerInv'
BY EmptySeq, MaxTroublesAssumption
   DEF SchedulerInv, SchedulerTypeOK, SchedulerRestart, Trouble, BusyHasWork, NothingOwed, Busy

LEMMA SchedulerStep == SchedulerInv /\ [SchedulerNext]_schedulerVars => SchedulerInv'
<1> SUFFICES ASSUME SchedulerInv, [SchedulerNext]_schedulerVars PROVE SchedulerInv'
  OBVIOUS
<1>1. CASE UNCHANGED schedulerVars
  BY <1>1 DEF schedulerVars, SchedulerInv, SchedulerTypeOK, BusyHasWork, NothingOwed, Busy, Current
<1>2. QED
  BY <1>1, TickKeeps, BeginDueKeeps, RunCompleteKeeps, RunSupersededKeeps, RunAbortKeeps, SourceKeeps,
     SchedulerRestartKeeps DEF SchedulerNext, Run

-----------------------------------------------------------------------------
LEMMA SchedulerInductive == SchedulerSpec => []SchedulerInv
BY SchedulerStarts, SchedulerStep, PTL DEF SchedulerSpec

\* Every reachable state is well typed.
THEOREM SchedulerTypeCorrect == SchedulerSpec => []SchedulerTypeOK
<1>1. SchedulerInv => SchedulerTypeOK
  BY DEF SchedulerInv
<1>2. QED  BY SchedulerInductive, <1>1, PTL

\* A schedule leaves the due list only when a refresh of its source has
\* completed since it came due, or is under way, or when a client sets the
\* schedule aside.
THEOREM MarkingIsJustified == SchedulerSpec => MarkedWhenServed
<1>1. ASSUME SchedulerInv, [SchedulerNext]_schedulerVars
      PROVE  [\A k \in Sources :
                due[k] /\ ~due'[k] /\ troubles' = troubles
                => ~owed'[k] \/ caller'[k] # None]_schedulerVars
  <2> SUFFICES ASSUME NEW k \in Sources, due[k], ~due'[k], troubles' = troubles
               PROVE  ~owed'[k] \/ caller'[k] # None
    OBVIOUS
  <2>1. troubles \in 0 .. MaxTroubles
    BY <1>1 DEF SchedulerInv, SchedulerTypeOK
  <2>2. ~Trouble
    BY <2>1, MaxTroublesAssumption DEF Trouble
  <2>3. PICK r \in Runs : Complete(r) \/ Superseded(r)
    BY <1>1, <2>2 DEF SchedulerNext, Run, schedulerVars, SchedulerInv, SchedulerTypeOK, Tick, BeginDue, Abort, ClientRefresh,
       ClientDone, Elapse, PutSchedule, DeleteSchedule, ForgetSource, SchedulerRestart
  <2>4. Mark(r) /\ stage[r] = "refreshing"
    BY <2>3 DEF Complete, Superseded
  <2>5. k = Current(r)
    BY <1>1, <2>4 DEF Mark, SchedulerInv, SchedulerTypeOK
  <2>6. CASE Complete(r)
    BY <1>1, <2>5, <2>6 DEF Complete, SchedulerInv, SchedulerTypeOK
  <2>7. CASE Superseded(r)
    BY <1>1, <2>4, <2>5, <2>7 DEF Superseded, SchedulerInv, NothingOwed
  <2>8. QED  BY <2>3, <2>6, <2>7
<1>2. QED  BY SchedulerInductive, <1>1, PTL DEF SchedulerSpec, MarkedWhenServed
=============================================================================
