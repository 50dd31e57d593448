--------------------------- MODULE RuntimeService ---------------------------
(***************************************************************************)
(* The optional Runtime Service of ProxyFlow (runtime/server/service.ts)   *)
(* and the snapshot tables of its SQLite repository                        *)
(* (runtime/server/repository.ts): refreshes on behalf of a client or of   *)
(* the scheduler, confirmation of empty results, history and restore.      *)
(*                                                                         *)
(* The repository's methods are async but do their work synchronously, so  *)
(* the steps of this module run from one await of I/O or of a digest to    *)
(* the next: reading the active row and entering the coordinator is one    *)
(* step, and so is committing a result and writing it.  For the same       *)
(* reason the coordinator's chain of cache writes is empty between steps,  *)
(* and what is left of it is which call is the newest of its source (the   *)
(* generation numbers of RefreshCoordinator are only compared with the     *)
(* newest one).  The schedules are the subject of RuntimeScheduler.        *)
(***************************************************************************)
EXTENDS Runtime, Naturals, Sequences, Functions

CONSTANTS
    Configs,     \* fingerprints of a URL and its request profile
    Tasks,       \* slots for refreshes in progress
    MaxHistory,  \* maxHistoryPerSource
    MaxStamp     \* bound on the snapshots identified in a behaviour

ASSUME MaxHistoryAssumption == MaxHistory \in Nat \ {0}
ASSUME MaxStampAssumption == MaxStamp \in Nat

VARIABLES
    active,        \* active_snapshots: one row per source
    history,       \* snapshot_history: rows in the order of their id
    pendingEmpty,  \* pending_empty: one row per source
    newest,        \* the call that entered the coordinator last
    call,          \* refreshes in progress
    stamp,         \* source of snapshot identities
    erased         \* history: the stamp when the source was deleted

tables == <<active, history, pendingEmpty>>
vars   == <<tables, newest, call, stamp, erased>>

\* A snapshot is fetched by the refresh numbered born and gets that number as
\* its snapshotId; a restored copy has an id of its own.
Snapshot == [id : Nat, born : Nat, config : Configs,
             quality : {"usable", "empty"}]

Call == [stage : {"preparing", "refreshing"}, source : Sources,
         config : Configs, captured : {"none", "usable", "empty"},
         born : Nat]

ASSUME NoneAssumption == None \notin Tasks /\ None \notin Snapshot

TypeOK ==
    /\ active \in [Sources -> Snapshot \cup {None}]
    /\ history \in [Sources -> Seq(Snapshot)]
    /\ pendingEmpty \in [Sources -> Snapshot \cup {None}]
    /\ newest \in [Sources -> Tasks \cup {None}]
    /\ call \in [Tasks -> Call \cup {None}]
    /\ stamp \in Nat
    /\ erased \in [Sources -> Nat]

Init ==
    /\ active = [k \in Sources |-> None]
    /\ history = [k \in Sources |-> <<>>]
    /\ pendingEmpty = [k \in Sources |-> None]
    /\ newest = [k \in Sources |-> None]
    /\ call = [t \in Tasks |-> None]
    /\ stamp = 0
    /\ erased = [k \in Sources |-> 0]

-----------------------------------------------------------------------------
(* The repository.                                                         *)

\* Mutant of Recorded: an insert without ON CONFLICT ... DO UPDATE.
RecordedTwice(h, s) == Append(h, s)

\* The upsert of snapshot_history: a row with the same snapshotId is
\* overwritten where it stands, any other becomes the last row.
Recorded(h, s) ==
    IF \E i \in DOMAIN h : h[i].id = s.id
      THEN [i \in DOMAIN h |-> IF h[i].id = s.id THEN s ELSE h[i]]
      ELSE Append(h, s)

\* Only the last maxHistoryPerSource rows are kept.
Pruned(h) ==
    IF Len(h) > MaxHistory
      THEN SubSeq(h, Len(h) - MaxHistory + 1, Len(h))
      ELSE h

\* writeActive(): one transaction on active_snapshots and snapshot_history.
WriteActive(k, s) ==
    /\ active' = [active EXCEPT ![k] = s]
    /\ history' = [history EXCEPT ![k] = Pruned(Recorded(@, s))]

\* readActive() finds the row of this configuration only.
ActiveQuality(k, c) ==
    IF active[k] # None /\ active[k].config = c
      THEN active[k].quality
      ELSE "none"

-----------------------------------------------------------------------------
(* refreshSubscription(), and the refresh of a due schedule.               *)

IsCurrent(t) == newest[call[t].source] = t

Return(t) == call' = [call EXCEPT ![t] = None]

\* A valid request, or the next due schedule; its configuration is hashed.
Request(t, k, c) ==
    /\ call[t] = None
    /\ call' = [call EXCEPT ![t] =
                  [stage |-> "preparing", source |-> k, config |-> c,
                   captured |-> "none", born |-> 0]]
    /\ UNCHANGED <<tables, newest, stamp, erased>>

\* The active snapshot is read and the call becomes the newest of its source.
Begin(t) ==
    LET c == call[t] IN
    /\ c # None /\ c.stage = "preparing"
    /\ stamp < MaxStamp
    /\ stamp' = stamp + 1
    /\ newest' = [newest EXCEPT ![c.source] = t]
    /\ call' = [call EXCEPT ![t] =
                  [c EXCEPT !.stage = "refreshing",
                            !.captured = ActiveQuality(c.source, c.config),
                            !.born = stamp + 1]]
    /\ UNCHANGED <<tables, erased>>

\* Mutant of Offers: the captured snapshot is not looked at.
OffersNothing(t, q) == q = "empty" /\ call[t].captured = "none"

\* An empty result for a source whose active snapshot was usable.
Offers(t, q) == q = "empty" /\ call[t].captured = "usable"

Result(t, q) == [id |-> call[t].born, born |-> call[t].born,
                 config |-> call[t].config, quality |-> q]

\* Mutant of Commit: a late answer is not recognised.
CommitLate(t) ==
    /\ call[t] # None /\ call[t].stage = "refreshing"
    /\ \E q \in {"usable", "empty"} :
         /\ ~Offers(t, q)
         /\ WriteActive(call[t].source, Result(t, q))
    /\ Return(t)
    /\ UNCHANGED <<pendingEmpty, newest, stamp, erased>>

\* A usable result, or an empty one that replaces nothing usable, is written.
Commit(t) ==
    /\ call[t] # None /\ call[t].stage = "refreshing" /\ IsCurrent(t)
    /\ \E q \in {"usable", "empty"} :
         /\ ~Offers(t, q)
         /\ WriteActive(call[t].source, Result(t, q))
    /\ Return(t)
    /\ UNCHANGED <<pendingEmpty, newest, stamp, erased>>

\* empty-confirmation-required: the candidate is kept for confirm-empty.
OfferEmpty(t) ==
    /\ call[t] # None /\ call[t].stage = "refreshing" /\ IsCurrent(t)
    /\ Offers(t, "empty")
    /\ pendingEmpty' =
         [pendingEmpty EXCEPT ![call[t].source] = Result(t, "empty")]
    /\ Return(t)
    /\ UNCHANGED <<active, history, newest, stamp, erased>>

\* A call ends without a trace: it is outdated, its fetch fails, its content
\* is invalid, or the write of its result is rolled back (status 503).
GiveUp(t) ==
    /\ call[t] # None
    /\ Return(t)
    /\ UNCHANGED <<tables, newest, stamp, erased>>

-----------------------------------------------------------------------------
(* The other endpoints.                                                    *)

\* confirm-empty: the kept candidate becomes active.  If the statement that
\* clears it fails, or the process ends before it, the candidate stays.
ConfirmEmpty(k) ==
    /\ pendingEmpty[k] # None
    /\ WriteActive(k, pendingEmpty[k])
    /\ \/ pendingEmpty' = [pendingEmpty EXCEPT ![k] = None]
       \/ UNCHANGED pendingEmpty
    /\ UNCHANGED <<newest, call, stamp, erased>>

\* discard-empty
DiscardEmpty(k) ==
    /\ pendingEmpty' = [pendingEmpty EXCEPT ![k] = None]
    /\ UNCHANGED <<active, history, newest, call, stamp, erased>>

\* history/restore: a row of the history becomes active under a new id.  A
\* refresh in progress goes on.
Restore(k) ==
    /\ stamp < MaxStamp
    /\ stamp' = stamp + 1
    /\ \E s \in Range(history[k]) : WriteActive(k, [s EXCEPT !.id = stamp + 1])
    /\ UNCHANGED <<pendingEmpty, newest, call, erased>>

\* DELETE history
ClearHistory(k) ==
    /\ history' = [history EXCEPT ![k] = <<>>]
    /\ UNCHANGED <<active, pendingEmpty, newest, call, stamp, erased>>

\* Mutant of DeleteSource: the refresh in progress is not cancelled.
DeleteSourceOnly(k) ==
    /\ active' = [active EXCEPT ![k] = None]
    /\ history' = [history EXCEPT ![k] = <<>>]
    /\ pendingEmpty' = [pendingEmpty EXCEPT ![k] = None]
    /\ erased' = [erased EXCEPT ![k] = stamp]
    /\ UNCHANGED <<newest, call, stamp>>

\* DELETE of the source: its rows go, then its calls that have entered the
\* coordinator are outdated.
DeleteSource(k) ==
    /\ active' = [active EXCEPT ![k] = None]
    /\ history' = [history EXCEPT ![k] = <<>>]
    /\ pendingEmpty' = [pendingEmpty EXCEPT ![k] = None]
    /\ erased' = [erased EXCEPT ![k] = stamp]
    /\ newest' = [newest EXCEPT ![k] = None]
    /\ UNCHANGED <<call, stamp>>

\* The process ends, by close() or not, and starts again on its database.
Restart ==
    /\ call' = [t \in Tasks |-> None]
    /\ newest' = [k \in Sources |-> None]
    /\ UNCHANGED <<tables, stamp, erased>>

-----------------------------------------------------------------------------
Next ==
    \/ \E t \in Tasks :
         \/ \E k \in Sources, c \in Configs : Request(t, k, c)
         \/ Begin(t) \/ Commit(t) \/ OfferEmpty(t) \/ GiveUp(t)
    \/ \E k \in Sources :
         \/ ConfirmEmpty(k) \/ DiscardEmpty(k) \/ Restore(k)
         \/ ClearHistory(k) \/ DeleteSource(k)
    \/ Restart

Spec == Init /\ [][Next]_vars
-----------------------------------------------------------------------------
(* Safety.                                                                 *)

IsCopy(s) == s.id # s.born

\* History and active row never drift apart: whatever is refreshed, restored
\* or confirmed, also twice, the history stays within its bound, holds no
\* snapshot twice, and holds the active one unless it was cleared since.
HistoryWindow ==
    \A k \in Sources :
      /\ Len(history[k]) <= MaxHistory
      /\ \A i, j \in DOMAIN history[k] :
           history[k][i].id = history[k][j].id => i = j
      /\ active[k] # None /\ history[k] # <<>>
           => active[k] \in Range(history[k])

\* The result of an older refresh never replaces that of a newer one, also
\* across a restart, unless the user confirms or restores the older one.
RefreshesInOrder ==
    [][\A k \in Sources :
         active'[k] # active[k] /\ active[k] # None /\ active'[k] # None =>
           \/ active'[k].born > active[k].born
           \/ active'[k] = pendingEmpty[k]
           \/ IsCopy(active'[k])]_active

\* A usable snapshot that was fetched from a URL is not replaced by an empty
\* one fetched from the same URL, unless it was kept for confirmation.
FetchedUsableIsKept ==
    [][\A k \in Sources :
         /\ active[k] # None /\ active'[k] # None
         /\ active[k].quality = "usable" /\ ~IsCopy(active[k])
         /\ active'[k].quality = "empty" /\ ~IsCopy(active'[k])
         /\ active'[k].config = active[k].config
         => active'[k] = pendingEmpty[k]]_active

\* What DELETE of a source erased does not come back: it outdates the refreshes
\* that have entered the coordinator, so that every row found later, also by
\* confirmation or restore, is of one that entered it after the DELETE, and no
\* candidate waits for confirmation beside an active row that is gone.  The
\* requests still in preparation and the sources on a run's due list enter
\* later: DELETE does not stop those, and they do write.
ErasedDataAreGone ==
    \A k \in Sources :
      /\ active[k] # None => active[k].born > erased[k]
      /\ pendingEmpty[k] # None => /\ active[k] # None
                                  /\ pendingEmpty[k].born > erased[k]
      /\ \A s \in Range(history[k]) : s.born > erased[k]
=============================================================================
