------------------------- MODULE RefreshCoordinator -------------------------
(***************************************************************************)
(* The subscription refresh coordinator of ProxyFlow                       *)
(* (src/core/subscription/refreshCoordinator.ts) together with the part of *)
(* its caller, the builder store, that the handlers write.                 *)
(*                                                                         *)
(* A refresh is an async function with four suspension points (hash the    *)
(* URL, fetch, digest the content, diff against the previous snapshot).    *)
(* At each of them another refresh, a cancellation or a deletion of the    *)
(* same source may run; a generation number per source decides which       *)
(* refresh may still act.  What a refresh commits is shown at once and     *)
(* saved later: every access to the browser cache goes through a chain of  *)
(* promises per source (cacheWrites), whose head is the operation in       *)
(* progress.  The module covers one browser session.                       *)
(***************************************************************************)
EXTENDS Naturals, Sequences

CONSTANTS
    Keys,    \* (project, source) pairs: what requestKey() returns
    Reqs,    \* slots for calls of refresh() in progress
    MaxGen   \* bound on the generation number of a source

ASSUME MaxGenAssumption == MaxGen \in Nat \ {0}

VARIABLES
    generations,      \* [Keys -> Nat], 0 where the map has no entry
    activeRequests,   \* generation of the registered request, 0 for none
    deletedSources,   \* keys deleted and not refreshed since
    cacheWrites,      \* chain of unsettled cache operations, head in progress
    stored,           \* the snapshot the cache repository holds
    pc, reqKey, reqGen, captured, candidate,  \* one refresh() call per slot
    active,           \* snapshot shown for the source (onCommit)
    requestGeneration,\* generation of the last onStart
    pending,          \* generation of the empty candidate awaiting an answer
    cacheError,       \* the user was told that the cache is out of date
    storageFailed     \* history: the last cache operation failed

coordVars == <<generations, activeRequests, deletedSources, cacheWrites>>
reqVars   == <<pc, reqKey, reqGen, captured, candidate>>
ownerVars == <<active, requestGeneration, pending, cacheError>>
repoVars  == <<stored, storageFailed>>
vars      == <<coordVars, reqVars, ownerVars, repoVars>>

\* A snapshot is known by the generation that produced it; generation 0
\* with quality "none" stands for the absence of a snapshot.
Quality    == {"none", "usable", "empty"}
Snapshot   == [gen : Nat, quality : Quality]
NoSnapshot == [gen |-> 0, quality |-> "none"]

Awaiting == {"hashing", "fetching", "digesting", "diffing"}
CacheOp  == [kind : {"write", "delete", "clear"}, guard : Nat, snap : Snapshot]

Write(g, s) == [kind |-> "write",  guard |-> g, snap |-> s]
Delete      == [kind |-> "delete", guard |-> 0, snap |-> NoSnapshot]
Clear(g)    == [kind |-> "clear",  guard |-> g, snap |-> NoSnapshot]

TypeOK ==
    /\ generations \in [Keys -> Nat]
    /\ activeRequests \in [Keys -> Nat]
    /\ deletedSources \subseteq Keys
    /\ cacheWrites \in [Keys -> Seq(CacheOp)]
    /\ stored \in [Keys -> Snapshot]
    /\ pc \in [Reqs -> Awaiting \cup {"idle", "persisting"}]
    /\ reqKey \in [Reqs -> Keys]
    /\ reqGen \in [Reqs -> Nat]
    /\ captured \in [Reqs -> Quality]
    /\ candidate \in [Reqs -> Quality \cup {"invalid"}]
    /\ active \in [Keys -> Snapshot]
    /\ requestGeneration \in [Keys -> Nat]
    /\ pending \in [Keys -> Nat]
    /\ cacheError \in [Keys -> BOOLEAN]
    /\ storageFailed \in [Keys -> BOOLEAN]

Init ==
    /\ generations = [k \in Keys |-> 0]
    /\ activeRequests = [k \in Keys |-> 0]
    /\ deletedSources = {}
    /\ cacheWrites = [k \in Keys |-> <<>>]
    /\ stored = [k \in Keys |-> NoSnapshot]
    /\ pc = [r \in Reqs |-> "idle"]
    /\ reqKey \in [Reqs -> Keys]
    /\ reqGen = [r \in Reqs |-> 0]
    /\ captured = [r \in Reqs |-> "none"]
    /\ candidate = [r \in Reqs |-> "none"]
    /\ active = [k \in Keys |-> NoSnapshot]
    /\ requestGeneration = [k \in Keys |-> 0]
    /\ pending = [k \in Keys |-> 0]
    /\ cacheError = [k \in Keys |-> FALSE]
    /\ storageFailed = [k \in Keys |-> FALSE]

-----------------------------------------------------------------------------
(* Helpers.                                                                *)

IsCurrent(r) == generations[reqKey[r]] = reqGen[r]

NextGen(k) == generations[k] + 1

\* cancel(): abort and forget the registered request, outdate every request.
Outdate(k) ==
    /\ generations[k] < MaxGen
    /\ generations' = [generations EXCEPT ![k] = NextGen(k)]
    /\ activeRequests' = [activeRequests EXCEPT ![k] = 0]

\* Mutant of Runs: a write queued without a generation is treated as outdated.
RunsOnlyWithGeneration(k, op) ==
    \/ op.kind = "delete"
    \/ op.kind = "write" /\ k \notin deletedSources
                         /\ op.guard = generations[k]
    \/ op.kind = "clear" /\ op.guard = generations[k]

\* The test a queued operation makes when its turn comes: a write is dropped
\* once its source is deleted or its refresh is outdated, a clear once the
\* input has changed; a deletion always runs.
Runs(k, op) ==
    \/ op.kind = "delete"
    \/ op.kind = "write" /\ k \notin deletedSources
                         /\ op.guard \in {0, generations[k]}
    \/ op.kind = "clear" /\ op.guard = generations[k]

\* Mutant of Leave: the last operation is never taken off the chain.
LeaveExceptLast(k, q, n) ==
    /\ \A i \in 2..n : ~Runs(k, q[i])
    /\ n < Len(q)

\* The head of chain q and the n - 1 operations behind it leave the chain
\* when the head settles: those that no longer run settle without touching
\* the cache, and the first one that does starts.
Leave(k, q, n) ==
    /\ \A i \in 2..n : ~Runs(k, q[i])
    /\ n < Len(q) => Runs(k, q[n + 1])

Enqueue(k, op) == cacheWrites' = [cacheWrites EXCEPT ![k] = Append(@, op)]

\* Mutant of Finish: the entry of activeRequests stays.
FinishRegistered(r) ==
    /\ pc' = [pc EXCEPT ![r] = "idle"]
    /\ UNCHANGED activeRequests

\* The end of refresh(): its finally block unregisters a current request.
Finish(r) ==
    /\ pc' = [pc EXCEPT ![r] = "idle"]
    /\ activeRequests' = IF IsCurrent(r)
                           THEN [activeRequests EXCEPT ![reqKey[r]] = 0]
                           ELSE activeRequests

MoveTo(r, label) == pc' = [pc EXCEPT ![r] = label]

\* The guard shared by the store's handlers.
Listening(r) == requestGeneration[reqKey[r]] = reqGen[r]

-----------------------------------------------------------------------------
(* refresh()                                                               *)

\* The synchronous part of refresh(), up to the hash of the URL.
Refresh(r, k) ==
    /\ pc[r] = "idle"
    /\ generations[k] < MaxGen
    /\ deletedSources' = deletedSources \ {k}
    /\ generations' = [generations EXCEPT ![k] = NextGen(k)]
    /\ activeRequests' = [activeRequests EXCEPT ![k] = NextGen(k)]
    /\ reqKey' = [reqKey EXCEPT ![r] = k]
    /\ reqGen' = [reqGen EXCEPT ![r] = NextGen(k)]
    /\ captured' = [captured EXCEPT ![r] = active[k].quality]
    /\ candidate' = [candidate EXCEPT ![r] = "none"]
    /\ MoveTo(r, "hashing")
    /\ UNCHANGED <<cacheWrites, ownerVars, repoVars>>

\* A refresh that wakes up outdated leaves without calling a handler.
Superseded(r) ==
    /\ pc[r] \in Awaiting
    /\ ~IsCurrent(r)
    /\ Finish(r)
    /\ UNCHANGED <<generations, deletedSources, cacheWrites, reqKey, reqGen,
                   captured, candidate, ownerVars, repoVars>>

\* Mutant of Start: an offer made by an earlier refresh stays open.
StartKeepingOffer(r) ==
    LET k == reqKey[r] IN
    /\ pc[r] = "hashing"
    /\ IsCurrent(r)
    /\ requestGeneration' = [requestGeneration EXCEPT ![k] = reqGen[r]]
    /\ cacheError' = [cacheError EXCEPT ![k] = FALSE]
    /\ MoveTo(r, "fetching")
    /\ UNCHANGED <<coordVars, reqKey, reqGen, captured, candidate, active,
                   pending, repoVars>>

\* The URL is hashed: onStart, then the fetch begins.
Start(r) ==
    LET k == reqKey[r] IN
    /\ pc[r] = "hashing"
    /\ IsCurrent(r)
    /\ requestGeneration' = [requestGeneration EXCEPT ![k] = reqGen[r]]
    /\ pending' = [pending EXCEPT ![k] = 0]
    /\ cacheError' = [cacheError EXCEPT ![k] = FALSE]
    /\ MoveTo(r, "fetching")
    /\ UNCHANGED <<coordVars, reqKey, reqGen, captured, candidate, active,
                   repoVars>>

\* The body arrived and was parsed; its digest is computed next.
Fetched(r) ==
    /\ pc[r] = "fetching"
    /\ IsCurrent(r)
    /\ \E q \in {"usable", "empty", "invalid"} :
         candidate' = [candidate EXCEPT ![r] = q]
    /\ MoveTo(r, "digesting")
    /\ UNCHANGED <<coordVars, reqKey, reqGen, captured, ownerVars, repoVars>>

\* The candidate is built; a valid one is compared with the snapshot that
\* was active when refresh() was called.
Digested(r) ==
    /\ pc[r] = "digesting"
    /\ IsCurrent(r)
    /\ candidate[r] # "invalid"
    /\ MoveTo(r, "diffing")
    /\ UNCHANGED <<coordVars, reqKey, reqGen, captured, candidate, ownerVars,
                   repoVars>>

\* A network error, an exception or an invalid candidate: onFailure only.
Failed(r) ==
    /\ pc[r] \in {"fetching", "digesting", "diffing"}
    /\ IsCurrent(r)
    /\ Finish(r)
    /\ UNCHANGED <<generations, deletedSources, cacheWrites, reqKey, reqGen,
                   captured, candidate, ownerVars, repoVars>>

\* Mutant of NeedsConfirmation: only a source without snapshot is protected.
NeedsConfirmationInverted(r) == candidate[r] = "empty" /\ captured[r] = "none"

NeedsConfirmation(r) == candidate[r] = "empty" /\ captured[r] = "usable"

\* An empty result would replace a usable snapshot: onEmptyConfirmation.
AskConfirmation(r) ==
    LET k == reqKey[r] IN
    /\ pc[r] = "diffing"
    /\ IsCurrent(r)
    /\ NeedsConfirmation(r)
    /\ pending' = IF Listening(r) THEN [pending EXCEPT ![k] = reqGen[r]]
                                  ELSE pending
    /\ Finish(r)
    /\ UNCHANGED <<generations, deletedSources, cacheWrites, reqKey, reqGen,
                   captured, candidate, active, requestGeneration, cacheError,
                   repoVars>>

\* onCommit shows the snapshot, then its write joins the chain.
Commit(r) ==
    LET k == reqKey[r]
        s == [gen |-> reqGen[r], quality |-> candidate[r]] IN
    /\ pc[r] = "diffing"
    /\ IsCurrent(r)
    /\ ~NeedsConfirmation(r)
    /\ IF Listening(r)
         THEN /\ active' = [active EXCEPT ![k] = s]
              /\ pending' = [pending EXCEPT ![k] = 0]
              /\ cacheError' = [cacheError EXCEPT ![k] = FALSE]
         ELSE UNCHANGED <<active, pending, cacheError>>
    /\ IF k \in deletedSources
         THEN UNCHANGED cacheWrites
         ELSE Enqueue(k, Write(reqGen[r], s))
    /\ MoveTo(r, "persisting")
    /\ UNCHANGED <<generations, activeRequests, deletedSources, reqKey, reqGen,
                   captured, candidate, requestGeneration, repoVars>>

\* The write of this refresh has settled, whatever became of it.
Persisted(r) ==
    LET q == cacheWrites[reqKey[r]] IN
    /\ pc[r] = "persisting"
    /\ \A i \in 1..Len(q) : q[i].kind = "write" => q[i].guard # reqGen[r]
    /\ Finish(r)
    /\ UNCHANGED <<generations, deletedSources, cacheWrites, reqKey, reqGen,
                   captured, candidate, ownerVars, repoVars>>

-----------------------------------------------------------------------------
(* The other operations of the coordinator, as the store calls them.       *)

\* cancelSubscriptionSource(): the project is closed, the store forgets it.
Cancel(k) ==
    /\ Outdate(k)
    /\ active' = [active EXCEPT ![k] = NoSnapshot]
    /\ requestGeneration' = [requestGeneration EXCEPT ![k] = 0]
    /\ pending' = [pending EXCEPT ![k] = 0]
    /\ cacheError' = [cacheError EXCEPT ![k] = FALSE]
    /\ UNCHANGED <<deletedSources, cacheWrites, reqVars, repoVars>>

\* deleteSource(): removal of the source, or a new URL for it.
DeleteSource(k) ==
    /\ Outdate(k)
    /\ deletedSources' = deletedSources \cup {k}
    /\ Enqueue(k, Delete)
    /\ active' = [active EXCEPT ![k] = NoSnapshot]
    /\ requestGeneration' = [requestGeneration EXCEPT ![k] = 0]
    /\ pending' = [pending EXCEPT ![k] = 0]
    /\ cacheError' = [cacheError EXCEPT ![k] = FALSE]
    /\ UNCHANGED <<reqVars, repoVars>>

\* Mutant of Adopt: the refresh in progress is not cancelled.
AdoptBesideRefresh(k) ==
    \E q \in {"usable", "empty"} :
      LET s == [gen |-> NextGen(k), quality |-> q] IN
      /\ NextGen(k) <= MaxGen
      /\ active' = [active EXCEPT ![k] = s]
      /\ requestGeneration' = [requestGeneration EXCEPT ![k] = 0]
      /\ pending' = [pending EXCEPT ![k] = 0]
      /\ cacheError' = [cacheError EXCEPT ![k] = FALSE]
      /\ IF k \in deletedSources THEN UNCHANGED cacheWrites
                                 ELSE Enqueue(k, Write(0, s))
      /\ UNCHANGED <<generations, activeRequests, deletedSources, reqVars,
                     repoVars>>

\* Mutant of Adopt: an empty result offered before stays on offer.
AdoptKeepingOffer(k) ==
    \E q \in {"usable", "empty"} :
      LET s == [gen |-> NextGen(k), quality |-> q] IN
      /\ Outdate(k)
      /\ active' = [active EXCEPT ![k] = s]
      /\ requestGeneration' = [requestGeneration EXCEPT ![k] = 0]
      /\ cacheError' = [cacheError EXCEPT ![k] = FALSE]
      /\ IF k \in deletedSources THEN UNCHANGED cacheWrites
                                 ELSE Enqueue(k, Write(0, s))
      /\ UNCHANGED <<deletedSources, pending, reqVars, repoVars>>

\* Mutant of Adopt: the snapshot of a deleted source is saved.
AdoptDeleted(k) ==
    \E q \in {"usable", "empty"} :
      LET s == [gen |-> NextGen(k), quality |-> q] IN
      /\ Outdate(k)
      /\ active' = [active EXCEPT ![k] = s]
      /\ requestGeneration' = [requestGeneration EXCEPT ![k] = 0]
      /\ pending' = [pending EXCEPT ![k] = 0]
      /\ cacheError' = [cacheError EXCEPT ![k] = FALSE]
      /\ Enqueue(k, Write(0, s))
      /\ UNCHANGED <<deletedSources, reqVars, repoVars>>

\* adoptSubscriptionSnapshot(): a snapshot restored from the server history
\* is shown and saved with generation 0, that is, without a generation test.
Adopt(k) ==
    \E q \in {"usable", "empty"} :
      LET s == [gen |-> NextGen(k), quality |-> q] IN
      /\ Outdate(k)
      /\ active' = [active EXCEPT ![k] = s]
      /\ requestGeneration' = [requestGeneration EXCEPT ![k] = 0]
      /\ pending' = [pending EXCEPT ![k] = 0]
      /\ cacheError' = [cacheError EXCEPT ![k] = FALSE]
      /\ IF k \in deletedSources THEN UNCHANGED cacheWrites
                                 ELSE Enqueue(k, Write(0, s))
      /\ UNCHANGED <<deletedSources, reqVars, repoVars>>

\* Mutant of ApplyEmpty: the write has no generation, as that of Adopt.
ApplyEmptyUnheard(k) ==
    LET s == [gen |-> pending[k], quality |-> "empty"] IN
    /\ pending[k] # 0
    /\ active' = [active EXCEPT ![k] = s]
    /\ pending' = [pending EXCEPT ![k] = 0]
    /\ cacheError' = [cacheError EXCEPT ![k] = FALSE]
    /\ IF k \in deletedSources THEN UNCHANGED cacheWrites
                               ELSE Enqueue(k, Write(0, s))
    /\ UNCHANGED <<generations, activeRequests, deletedSources, reqVars,
                   requestGeneration, repoVars>>

\* applyEmptySubscription(): the user accepts the empty candidate.
ApplyEmpty(k) ==
    LET g == pending[k]
        s == [gen |-> g, quality |-> "empty"] IN
    /\ g # 0
    /\ active' = [active EXCEPT ![k] = s]
    /\ pending' = [pending EXCEPT ![k] = 0]
    /\ cacheError' = [cacheError EXCEPT ![k] = FALSE]
    /\ IF k \in deletedSources \/ generations[k] # g
         THEN UNCHANGED cacheWrites
         ELSE Enqueue(k, Write(g, s))
    /\ UNCHANGED <<generations, activeRequests, deletedSources, reqVars,
                   requestGeneration, repoVars>>

\* keepCurrentSubscription(): the user rejects it.
KeepCurrent(k) ==
    /\ pending[k] # 0
    /\ pending' = [pending EXCEPT ![k] = 0]
    /\ UNCHANGED <<coordVars, reqVars, active, requestGeneration, cacheError,
                   repoVars>>

\* clearCachedSubscription(): outdate what runs, then clear the cache; the
\* snapshot is dropped when the clear has settled (see SettleClear).
ClearCache(k) ==
    /\ Outdate(k)
    /\ Enqueue(k, Clear(NextGen(k)))
    /\ UNCHANGED <<deletedSources, reqVars, ownerVars, repoVars>>

-----------------------------------------------------------------------------
(* The chain: its head settles, successfully or not, and the next          *)
(* operation that still runs takes its place.                              *)

Settle(k, kind, ok) ==
    /\ cacheWrites[k] # <<>>
    /\ Head(cacheWrites[k]).kind = kind
    /\ \E n \in 1..Len(cacheWrites[k]) :
         /\ Leave(k, cacheWrites[k], n)
         /\ cacheWrites' =
              [cacheWrites EXCEPT ![k] = SubSeq(@, n + 1, Len(@))]
    /\ storageFailed' = [storageFailed EXCEPT ![k] = ~ok]
    /\ stored' = IF ok THEN [stored EXCEPT ![k] = Head(cacheWrites[k]).snap]
                       ELSE stored
    /\ UNCHANGED <<generations, activeRequests, deletedSources, reqVars>>

\* A failed write is reported to the refresh it belongs to, if it is still
\* the last one started; a failed write of Adopt is reported to nobody.
SettleWrite(k) ==
    \E ok \in BOOLEAN :
      /\ Settle(k, "write", ok)
      /\ cacheError' =
           [cacheError EXCEPT ![k] =
              @ \/ (~ok /\ Head(cacheWrites[k]).guard # 0
                        /\ Head(cacheWrites[k]).guard = requestGeneration[k])]
      /\ UNCHANGED <<active, requestGeneration, pending>>

\* The store ignores a failed deletion.
SettleDelete(k) ==
    \E ok \in BOOLEAN : Settle(k, "delete", ok) /\ UNCHANGED ownerVars

SettleClear(k) ==
    \E ok \in BOOLEAN :
      /\ Settle(k, "clear", ok)
      /\ IF Head(cacheWrites[k]).guard = generations[k]
           THEN /\ active' = [active EXCEPT ![k] = NoSnapshot]
                /\ requestGeneration' = [requestGeneration EXCEPT ![k] = 0]
                /\ pending' = [pending EXCEPT ![k] = 0]
                /\ cacheError' = [cacheError EXCEPT ![k] = ~ok]
           ELSE UNCHANGED ownerVars

-----------------------------------------------------------------------------
Progress(r) ==
    \/ Superseded(r) \/ Start(r) \/ Fetched(r) \/ Digested(r) \/ Failed(r)
    \/ AskConfirmation(r) \/ Commit(r) \/ Persisted(r)

CacheStep(k) == SettleWrite(k) \/ SettleDelete(k) \/ SettleClear(k)

User(k) ==
    \/ \E r \in Reqs : Refresh(r, k)
    \/ Cancel(k) \/ DeleteSource(k) \/ Adopt(k)
    \/ ApplyEmpty(k) \/ KeepCurrent(k) \/ ClearCache(k)

Next ==
    \/ \E r \in Reqs : Progress(r)
    \/ \E k \in Keys : CacheStep(k) \/ User(k)

Spec == Init /\ [][Next]_vars

\* Every promise settles: fetches and IndexedDB transactions end, and a
\* settled promise runs its continuation.  The user is under no obligation.
Fairness ==
    /\ \A r \in Reqs : WF_vars(Progress(r))
    /\ \A k \in Keys : WF_vars(CacheStep(k))

FairSpec == Spec /\ Fairness
-----------------------------------------------------------------------------
(* Safety.                                                                 *)

InFlight(r) == pc[r] # "idle"

\* A registered request is in flight and is the newest of its source: however
\* outdated a refresh is when it ends, it leaves no entry behind in
\* activeRequests and does not remove the entry of a newer request.  (Only a
\* URL whose digest is rejected, before the try block, would leave one.)
RegisteredIsInFlight ==
    \A k \in Keys : activeRequests[k] # 0 =>
      /\ activeRequests[k] = generations[k]
      /\ \E r \in Reqs : /\ InFlight(r)
                         /\ reqKey[r] = k
                         /\ reqGen[r] = activeRequests[k]

\* A late answer never wins: the snapshot shown for a source is replaced only
\* by one of a newer refresh, in whatever order hashes, responses, digests
\* and diffs complete ("lets B win when A completes after B").
NoLateAnswer ==
    [][\A k \in Keys : active'[k] # active[k] =>
         \/ active'[k] = NoSnapshot
         \/ active'[k].gen > active[k].gen]_active

\* An empty result never takes the place of a usable snapshot unless the
\* user was asked about that very result, although refresh() compares with
\* the snapshot that was active when it was called, several awaits earlier.
EmptyIsConfirmed ==
    [][\A k \in Keys :
         (active[k].quality = "usable" /\ active'[k].quality = "empty")
         => \/ pending[k] = active'[k].gen
            \/ requestGeneration'[k] = 0]_active

\* The cache never goes back to an older snapshot: writes of one source
\* land in the order of the refreshes they belong to.
CacheMovesForward ==
    [][\A k \in Keys :
         \/ stored'[k] = NoSnapshot
         \/ stored'[k].gen >= stored[k].gen]_stored

\* A deletion is final: whenever the cache holds a snapshot of a deleted
\* source, the deletion that removes it is still queued, or has failed.
\* Writes queued before, during or after deleteSource() do not bring the
\* source back.
DeletedStaysDeleted ==
    \A k \in deletedSources :
      stored[k] # NoSnapshot =>
        \/ storageFailed[k]
        \/ \E i \in 1..Len(cacheWrites[k]) : cacheWrites[k][i].kind = "delete"

AtRest(k) ==
    /\ cacheWrites[k] = <<>>
    /\ \A r \in Reqs : InFlight(r) => reqKey[r] # k

\* When everything has settled and no storage operation failed, the snapshot
\* of the newest refresh is the one the cache holds: dropping outdated writes
\* never drops the write of the newest one.
NewestIsSaved ==
    \A k \in Keys :
      /\ AtRest(k)
      /\ k \notin deletedSources
      /\ active[k] # NoSnapshot
      /\ active[k].gen = generations[k]
      /\ ~storageFailed[k]
      => stored[k] = active[k]

\* Whatever failed, the newest snapshot that was fetched is at rest in the cache
\* or its failed write is reported: onCacheError finds its refresh still the one
\* the store listens to, and nothing that was queued, shown or failed before or
\* after takes the report back ("keeps an in-memory commit when cache persistence
\* fails", refreshCoordinator.test.ts, with one write and nothing else).
FailedSaveIsReported ==
    \A k \in Keys :
      /\ AtRest(k)
      /\ k \notin deletedSources
      /\ active[k] # NoSnapshot
      /\ active[k].gen = generations[k]
      /\ active[k].gen = requestGeneration[k]
      => stored[k] = active[k] \/ cacheError[k]

\* What is shown is, at rest, also what the cache holds, unless the user was
\* told that it is not: the only notice of an unsaved snapshot is the message
\* of persistSnapshot(), "it could not be saved to this browser".
FailedRefreshKeepsSaved ==
    \A k \in Keys :
      /\ AtRest(k)
      /\ k \notin deletedSources
      /\ active[k] # NoSnapshot
      /\ ~storageFailed[k]
      => stored[k] = active[k] \/ cacheError[k]

(* Liveness.                                                               *)

\* Every call of refresh() returns, also when it is outdated on the way or
\* waits behind other operations of the chain.
EveryRefreshReturns ==
    \A r \in Reqs : InFlight(r) ~> ~InFlight(r)

(* Refinement: the coordinator keeps the promise of LastKnownGood.         *)

UnsavedSnapshots(k) ==
    {cacheWrites[k][i].snap :
       i \in {j \in 1..Len(cacheWrites[k]) : cacheWrites[k][j].kind = "write"}}

LKG == INSTANCE LastKnownGood WITH
         Gens <- 0..MaxGen,
         started <- requestGeneration,
         shown <- active,
         unsaved <- [k \in Keys |-> UnsavedSnapshots(k)],
         saved <- stored,
         offered <- pending

\* Every step of the coordinator is a step of the abstract specification, or
\* changes nothing it can see.
KeepsLastKnownGood == LKG!Spec

=============================================================================
