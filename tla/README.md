# Formal models of ProxyFlow

ProxyFlow is an editor for proxy configurations.  A project is a graph of
subscriptions, filters, groups and rules; subscriptions are fetched from URLs,
parsed, and compiled with the rest of the graph for a target such as Mihomo or
sing-box.  What keeps state and meets concurrency, failure and restarts is the
handling of subscriptions (in the browser and in the optional Runtime Service),
the projects in the browser's storage, and the script that installs and updates
a self-hosted service.  What computes without state, but with orders, caches
and cycles that are easy to get wrong, is the evaluation of proxy sets and the
routing rules of five targets.  That is what these modules model.

Paths below are relative to the repository; `core/` stands for `src/core/`.

## The system

| Part | State | Operations | Interacts with |
| --- | --- | --- | --- |
| Refresh coordinator, `core/subscription/refreshCoordinator.ts` | generations, active requests, deleted sources, a promise chain of cache operations per source | `refresh`, `cancel`, `deleteSource`, `persistSnapshot`, `clearPersistedSnapshot` | calls a fetcher and a repository; calls back the handlers of its caller |
| Builder store, `store/useBuilderStore.ts` | project, snapshots, runtime state per source, input generations, undo history | refresh handlers, adopt, apply or keep an empty result, clear the cache, hydrate, edit the graph, undo | owns a coordinator; reads the cache; mirrors decisions to the Runtime Service |
| IndexedDB repository, `core/subscription/runtimeRepository.ts` | object stores `active` and `snapshots` | `readActive`, `writeActive`, `deleteActive`, `deleteSource`, one transaction each | shared by all tabs of a browser |
| Runtime Service, `runtime/server/service.ts` | a coordinator, counters of its limits, a timer | HTTP endpoints, `runDueSchedules` | SQLite repository, server fetcher |
| SQLite repository, `runtime/server/repository.ts` | tables `active_snapshots`, `snapshot_history`, `pending_empty`, `schedules` | one or several statements per method, synchronously | - |
| Source fetchers and the provider, `core/subscription/sourceFetcher.ts`, `runtime/server/sourceFetcher.ts`, `core/runtime/serverRuntimeProvider.ts` | none beyond a call | one fetch with redirects, user agents, a deadline and a size limit | network; the provider calls the service |
| Project storage and lifecycle, `storage/projectStorage.ts`, `app/App.tsx` | index and items in `localStorage`; a save timer, recovery and pause flags per tab | load, save, switch, rename, delete, create, reset | store; all tabs share the storage |
| Proxy sets, `core/proxySet/` | none; a cache per evaluation | `materializeProxySet`, `analyzeProxySetLineage`, `planRemoteProxySource` | the graph of the store; every target |
| Routing, `core/routing/`, `core/graph/`, `targets/*/` | none | two rankings of the rules, the graph compiler, the rule emitters of five targets | the graph of the store |
| Self-hosted manager, `scripts/proxyflow.sh` | `.env`, `compose.yaml`, backups | install, update, backup, start, stop, restart, channel, uninstall | Docker, the data of the service |
| Snapshots, diff, parsers, the rest of the target compilers, capabilities, UI, i18n | none | pure functions, tables, React components | - |

The browser and the service run in single-threaded JavaScript.  A function
cannot be interrupted between two awaits, and at an await anything else may
run.  So the steps of the models go from one await to the next, and what is
hard to test is what lies between: a fetch, a digest or a storage transaction
completes after the world has changed.  The manager is a shell script, whose
steps are commands that fail.  The hazards are listed one by one, at their
lines, in `PROJECT.json`.

| Part | What is hard | What makes it correct |
| --- | --- | --- |
| Refresh coordinator | five awaits per refresh; overlapping calls; a chain of cache operations with failing storage | a late answer never wins; an empty result replaces a usable snapshot only when confirmed; the cache never goes back; a failed save is reported; a deletion is final; every call returns |
| Builder store | reads of the cache, refreshes, edits, undo and project switches in any order; reload of the page | what is shown belongs to the URL of the source and only gives way to newer snapshots; no row that was saved for an old URL stays behind |
| IndexedDB repository | `readActive` cleans up in a second transaction; several tabs | a valid row is not removed by a cleanup; no snapshot without its mapping |
| Runtime Service, SQLite tables | late results of several clients and the scheduler; restore and delete beside a refresh; restarts | results land in order; deleted data do not come back, whatever was under way; history and active row agree and stay within bounds |
| Scheduler | runs overlap, because the timer does not wait; stale lists; failing statements | a schedule that came due is refreshed, and is not marked for nothing |
| Fetchers, limits of the service | redirects, retries and a deadline racing the body; a size limit on a compressed stream; a counter given back on every path; two deadlines of two programs | one deadline for all attempts; nothing beyond a limit; no slot is lost; every fetch ends |
| Project storage | several keys written one after the other; quota; a debounced save racing a switch or a deletion; several tabs | a saved project can be found; a deleted one does not return; what cannot be read is not overwritten |
| Proxy sets | cycles, one memo for many questions in any order, exports that a client loads by itself | every answer is that of the set alone; a client gets what the set contains, once; edits close no cycle |
| Routing | the order is computed in several places, and clients have orders of their own | a target keeps the order and every rule, or refuses the project |
| Manager | any step fails or is the last one; overrides of the shell | an update is backed up; a backup leaves the service running; the record is what runs |

## Modules and the code

| Module | Models | Composition |
| --- | --- | --- |
| `LastKnownGood` | what the coordinator promises: per source a shown snapshot, copies on their way to the cache, a saved one, an offered empty result | abstract specification |
| `RefreshCoordinator` | the coordinator, the handlers of the store that it calls, a repository that may fail | implements `LastKnownGood` |
| `RefreshCoordinatorProofs` | theorems about its calls and what they show, about its chains of cache operations, and that it implements `LastKnownGood` | extends it |
| `SubscriptionSession`, `SubscriptionSessionProofs` | one URL source of the store: its cache by configuration, hydration, edits, undo, refreshes, reload | uses the coordinator with the fetch as one step |
| `Runtime` | the constants the next two share | |
| `RuntimeService`, `RuntimeServiceProofs` | refreshes, confirmation, history, restore on the server, over its tables | the refresh as begin and commit |
| `RuntimeScheduler`, proved about in `RuntimeServiceProofs` | overlapping runs of the scheduler, schedules, clients, restarts | the refresh as begin and complete |
| `FetchGateway`, `FetchGatewayProofs` | what those refreshes await: fetchers with their deadline, redirects and limits; the service's limits; its client in the browser | composes the fetchers of both programs, the limits and the provider |
| `ProjectWorkspace`, `ProjectWorkspaceProofs` | `localStorage` with its index and items, and the tabs that work on it | storage, App and store's project lifecycle in one |
| `ProxySets`, `ProxySetsProofs` | the data edges of the graph and their edits; the evaluation, the lineage, the plan of remote sources and what a client gets | edits composed with the functions that read the graph |
| `RoutingRules`, `RoutingRulesProofs` | the rules and their edits; both rankings; graph compiler and five targets | edits composed with the compilers |
| `SelfHostedManager`, `SelfHostedManagerProofs` | the commands of `proxyflow.sh` as sequences of steps that fail | |
| `MC...` | the instances for TLC | extend the above |

Definitions keep the names of the code where they can; the map in
`PROJECT.json` gives the lines of each.  A definition whose comment begins
with "Mutant of" is a plausible bug and no part of the specification: put in
place of the definition it names, it makes TLC find the property it is listed
with violated.

### RefreshCoordinator

| Variable | In the code |
| --- | --- |
| `generations`, `activeRequests`, `deletedSources`, `cacheWrites` | the members of the class.  An `AbortController` is the generation it was registered with; a promise chain is the sequence of operations that have not settled, its head the one in progress |
| `pc`, `reqKey`, `reqGen`, `captured`, `candidate` | one call of `refresh()` per slot: where it awaits, its arguments and locals |
| `active`, `requestGeneration`, `pending`, `cacheError` | what the handlers of the store write: `subscriptionSnapshots` and three fields of `subscriptionRuntimes` |
| `stored` | the row of the repository |
| `storageFailed` | history variable: the last cache operation failed |

A refresh is `Refresh` (up to the hash of the URL), `Start` (`onStart`),
`Fetched`, `Digested`, and one of `Commit`, `AskConfirmation`, `Failed`; at
each await it may find itself `Superseded`.  `Commit` leaves it waiting for its
write, until `Persisted`.  `Cancel`, `DeleteSource`, `Adopt`, `ApplyEmpty`,
`KeepCurrent` and `ClearCache` are the callers in the store; `SettleWrite`,
`SettleDelete` and `SettleClear` end the operation at the head of a chain, with
success or failure, and drop the ones behind it whose own test fails
(`Runs`).  A snapshot is the generation that produced it and a quality.  A
snapshot adopted from the server history gets the generation of its adoption.

The report of a failed write is the only thing that keeps a user from losing a
snapshot without knowing it, and it reaches the user by a guard:
`onCacheError` belongs to a refresh and is dropped when the store listens to
another one.  `FailedSaveIsReported` says that this never silences the report
of the newest snapshot.  It speaks of snapshots from refreshes and of accepted
empty results; a failed save of a restored row is reported to nobody in the
code, as its write belongs to no refresh.

### SubscriptionSession

The coordinator has one cache slot per source; in IndexedDB there is a row per
configuration, that is, per fingerprint of URL and request profile.  This
module has the rows (`cache`), the graph with its undo history (`node`, `past`,
`future`), the reads of `hydrateSubscriptionCache()` under way (`reads`, as
`ReadRow` and `ShowRow`), and the store's two records of the source (`shown`,
`runtime`).  The store counts input generations beside the generations of the
coordinator; every place that increases one increases the other, so
`generation` stands for both.  A refresh has two steps here, since what may
interleave with its inner awaits is the subject of `RefreshCoordinator`.  So has
the restoration of a row of the server's history (`Adopt`, and `Adopted` after
the diff): the row may come from any URL the source once had, it is shown
whatever its URL, and is saved under its own fingerprint.  So a snapshot has two
configurations, `config`, which it was fetched from and is saved under, and
`home`, which the source had when the snapshot was fetched or restored.  They
differ for such rows only, and the properties say what holds then: what is shown
is of the present URL or was restored for it, and the cache keeps rows saved for
the present URL only.
`Reload` keeps the graph and the rows and loses all else; the transaction at
the head of the chain may still commit.  `disturbed` and `undone` are history
variables.

### RuntimeService and RuntimeScheduler

The methods of the SQLite repository are `async` but do their work
synchronously, so that reading the active row and entering the coordinator is
one step (`Begin`), and so is committing a result and writing it (`Commit`).
`active`, `history` and `pendingEmpty` are the tables, `history` in the order
of the row ids.  `newest` is what is left of the coordinator: which call of a
source may still act.  `Restart` empties `newest` and `call`; the tables stay.
`stamp` numbers the snapshots, `erased` remembers it at the last deletion.
A refresh takes its number where it enters the coordinator.  One that is still
reading its request at a DELETE, or whose source is on a list the scheduler has
already read, enters it afterwards, is a refresh begun after the deletion and
may write; `ErasedDataAreGone` says that only such refreshes do.

The scheduler abstracts time: a schedule is `due` or not.  `Tick` reads the
list once, `BeginDue` and `Complete` or `Superseded` refresh and mark its first
entry, `Abort` is an exception of a repository call, which drops the rest of
the list.  `owed` is a history variable: due, and not refreshed since.

### FetchGateway

A call is a fetch of the browser, of a client of the service or of its
scheduler (`Kinds`).  Its `pc` goes through reading the request (`ReadJson`,
`LoseJson`), the resolution of the host (`Resolve`), the request (`Refused`,
`Redirected`, `Rejected` by the server so that the next user agent is tried,
`Accepted`, or `Declared` too long) and the body (`Chunk`, `Complete`, `Broken`),
and ends with a `text` or with `none`.  `Ask` passes the rate limiter and
`withConcurrency`, `Start` begins the fetches that do not; `TimeUp` is the fetcher's timer,
`GiveUp` that of the provider, `Supersede` and `Withdraw` are aborts.  `left` is
what is left of the deadline, `age` how long the fetch has really taken: a
history variable, against which the deadline is measured.  `recent` is a
history variable: the ages of the requests that the limiter let pass, as long as
they are younger than its window, oldest first.  `AskOther` is a request that
passes the limiter and is no refresh.

### ProjectWorkspace

`disk` is the storage: `index`, `items`, and the slot of older releases.
`app` is a tab: the project it shows, whether a save is armed (`timer`),
`recovery`, `paused`, and `required` (`persistenceRequired`).  `localStorage` is
synchronous, so a handler is one step; it computes the set of its outcomes with
`Put` and `Then`: each `setItem` may be refused, after which the code goes on in
its `catch`, or be the last one the tab lives to see.  `Open`, `Edit`,
`AutoSave`, `SaveKey`, `Close`, `Switch`, `RenameCurrent`, `RenameOther`,
`DeleteCurrent`, `DeleteOther`, `NewProject` and `Reset` are the handlers.
Content is a schema and the revision of the user's work; `Without` is the
`filter` by which an id leaves the list of the index.  `kept` and `gone` are
history variables: projects saved and not deleted, and projects deleted that no
other tab showed.  `Init` is any storage an earlier release or damage may have
left.

### ProxySets

`edges` is the array of data edges; its order is the order of a node's inputs.
`Connect` and `Disconnect` are the canvas, `SetInputs` and `MoveStep` the
workspace, `ToggleDisabled` and `RemoveNode` both.  The functions run without
an await, so they are functions: `materializeProxySet` takes the path (a set,
as only membership in it is asked for), the set in question and the cache of
its context, and returns its answer with the cache it leaves; `Lineage`,
`planRemoteProxySource` and `resolveProxySet` follow `lineage.ts`,
`remoteSourcePlanner.ts` and `targets/mihomo/providers.ts`.  The reference they
are compared with, `RightAnswer`, knows neither cache nor path: a set is what
flows down to it, unless something above is missing or on a cycle.  The
functions of the code recurse over a graph that may have cycles, the flow over
what is above a set, which shrinks where there is no cycle; all of them are
recursive functions, so that they can be proved about.

A proxy has an id, and a `Fingerprint` of what is left of it without id and
name: `deduplicate` compares fingerprints (`FirstOfEach`), and proxies that
differ are told apart by their ids, which are unique within a source
(`ContentAssumption`).  A set drawn from one source twice has each proxy twice;
the names a client gets are of endpoints, which are made per id, and each name
is written once (`Named`, `unique()` in `providers.ts`).  A source may also be a
legacy proxy provider, which the target refers to and does not load
(`SourceModes`); `resolveProxySet` has a branch for it.

### RoutingRules

`rules` are the routing nodes in insertion order.  `rankWorkspaceRoutingRules`
is the order of the page, `rankRoutingRules` that of the compiler;
`GraphCompiles` and `Accepts` are the refusals, `RulesOf` what a target emits,
`MatchesFirst` what its client does with that: an external assumption, taken
from the order the compilers' own comments and refusals rest on.  Kinds of
rules stand for the families between which the targets distinguish.  `At` is
`Array.filter`, given the places it keeps, and `StableSort` is `Array.sort` by
priority, which leaves equals in their order; both are recursive functions, so
that they can be proved about.

### SelfHostedManager

A command is a `Plan`, a sequence of steps with one outside effect each; `Begin`
computes the settings from `env`, the shell's overrides and the running
container (`resolve_settings`), a step that fails ends the command
(`set -e`), with the script's own `if` around a failing start.  `Kill` ends it
anywhere, in the middle of writing `.env` or of an archive, too.  `Up` decides
whether the new container is ever healthy, and `Serve` is a healthy service that
changes its data.

## Runs

| Run | Instance | Distinct states | Shows |
| --- | --- | --- | --- |
| `refresh_safety` | 1 source, 2 calls, 4 generations | 303,208 | registration; deletions are final; the cache moves forward and follows the newest refresh; late answers are dropped; empty results are confirmed; a failed save is reported; every call returns; `LastKnownGood` is implemented |
| `session` | 2 configurations, 2 refreshes, 4 generations, 1 undo step | 3,457,156 | what is shown moves forward and, until undo is used, is of the URL of the source or was restored for it; the refresh that may save is the one that is shown; no row saved for an old URL stays |
| `runtime_service` | 1 source, 2 configurations, 3 calls, history of 2, 5 snapshots | 255,095 | history window; what is found after a DELETE is from a later refresh; results in order; a fetched usable snapshot is kept |
| `scheduler` | 2 sources, 3 runs, 4 troubles | 129,232 | a mark has a reason; every schedule that comes due is served |
| `fetch_gateway` | 2 calls, deadline 1, patience 2, window 2 with 2 requests, 1 slot, 1 redirect, 2 user agents, 1 byte | 267,133 | one deadline; limits of body, slots and rate; the service times out before its client; every fetch ends |
| `projects` | 2 tabs, 2 projects, 1 edit | 99,607 | no saved project is lost, none returns from deletion, leaving saves, a stand-in replaces nothing, the index is sound |
| `proxy_sets` | 2 sources, 3 steps, 1 group, 5 edges, 2 edits | 18,932 | memoized answers are right, in all six orders of three questions; exports keep the set; edits keep the flow |
| `routing` | 5 kinds, 3 rules, 3 edits | 93,801 | five targets keep the order and every rule, or refuse; a move is seen and compiled |
| `manager` | 2 directories, 1 change of data, 2 tokens, 1 kill | 1,761,977 | an update is backed up, a backup brings the service back, a pin stays, what is saved is deployed |
| `refresh_lost_write`, `projects_recovery`, `routing_order` | as small as the counterexample allows | | the findings below |

Types are not among the properties of the runs: `TypeOK` is a theorem for every
module.

### Bounds

Subscription sources do not interact: every map of the code is keyed by source,
and so are the tables.  One source is enough except for the scheduler, whose
runs walk over a list; two sources give lists with a rest to drop.  `MaxGen`
bounds the generations: four allow a refresh, two operations that outdate it
and one more refresh.  Two calls overlap; with their queued writes, which
outlive them, a write waits behind another while a third refresh is under way.
A history of 2 is the smallest that is pruned while it holds more than the
active row.  `MaxUndo` is 50 in the code; 1 is where the history is cut by each
further edit.  `MaxTroubles` bounds client calls, edits of schedules, restarts
and exceptions, which the liveness property needs: clients that refresh a
source without end outdate its scheduled refreshes without end, though each
client refresh then serves it.

In the gateway one tick is the deadline and two the patience of the client,
which leaves the difference that `ServiceAnswersFirst` is about; with one slot and two
calls each way of losing a slot blocks the other call; with one byte the second
chunk is too much, compressed or not; two user agents and one redirect give
every attempt a successor.  Nothing in the project model counts projects: one
that exists and the demo, with its fixed id, are the two kinds there are, and
two tabs suffice for each to disturb the other.  One edit tells a pristine
project from the user's.  Among proxy sets, five edges make a cycle with two
entries and a side branch, and two edits from each of three drawn graphs reach
it; `MaxProxies` is 2 where three proxies come together.  Two rules of each
pair of five kinds contain every pair of families a target takes apart; the
kinds left out belong to the same families.  One kill per behaviour of the
manager may hit any step of any command, and whatever commands follow find what
it left.

Where the bound on generations ends a behaviour the state has no successor, so
deadlock is not checked for the coordinator; nor for the edits of a graph, whose
number is bounded, the manager, whose user may stop, and the scheduler, where
nothing need happen while no schedule exists.  In the session, the service, the
projects and the gateway some step is always possible.

### Fairness

Safety is checked without fairness.  The liveness of the coordinator assumes
that a promise settles and that its continuation runs: a fetch ends (by the
server's deadline of 12 s, which `FetchGateway` checks; the browser's can be
aborted and ends with the connection), an IndexedDB transaction commits or
aborts.  It assumes nothing of the user.  The scheduler assumes that the timer
fires (`setInterval`, every second), that refreshes end, and that time passes.
`Elapse` waits until the runs that have the source on their lists are through
with it: intervals are at least 60 s and a fetch takes at most 12 s, so that
only a list of many slow sources could break that assumption.  The gateway
assumes that time passes, that timers fire, and that a client's short request
arrives or its connection ends, as Node ends a request that does not arrive;
it assumes nothing of the servers of subscriptions, which may redirect, send
bytes or stay silent forever.

## Findings

Each is a run that violates one property.

1. `refresh_lost_write`: a committed snapshot whose write waits behind another
   write is dropped when one more refresh starts; if that one fails, the
   snapshot is shown and never saved, and nobody is told.
2. `projects_recovery`: when the project that cannot be read is the user's
   edited demo, the pristine demo stands in for it under the same id.  Creating a
   new project, which the banner advises, first saves the stand-in over it.
3. `routing_order`: a rule without a stored priority takes its default from its
   place among all rules on the page, but among the enabled ones in the compiler.
   Disabling a rule before it moves it in one order only.

Disagreements met while modelling, which no run shows.  The models follow
the code in each.

- `runtime/server/repository.ts:96`: restoring the oldest row of a full history
  deletes that row; `docs/runtime-service.md:161` says it stays.
- `runtime/server/service.ts:182`: a usable snapshot restored while a refresh is
  under way is replaced by its empty result without confirmation.
- `refreshCoordinator.ts:149`: after a change of URL a source counts as deleted
  until it is refreshed; a snapshot restored in between is shown, not saved.
- `useBuilderStore.ts:655`: undo restores a URL without the snapshot that goes
  with it; `useBuilderStore.ts:768`: a refresh that starts before the cache was
  read compares an empty result with nothing.
- `useBuilderStore.ts:484`: inputs are compared by number and membership, so a
  set drawn twice hides a change of inputs.
- `scripts/proxyflow.sh:215`: a command killed while it writes `.env` may leave no
  token line.  Until an install or update writes a new one, `compose ps` fails
  and a running service counts as stopped: the next backup archives it while it
  runs (`docs/runtime-service.md:56` promises a consistent archive).
- `app/App.tsx:186`: storage stays paused after a deletion that failed.
- `refreshCoordinator.ts:64`: a rejected digest leaves the call registered.
- `runtime/server/sourceFetcher.ts:299`: when the deadline is over, the promise
  of a look-up is left without a handler for its rejection.
- `runtime/server/service.ts:263`: a long run sets `next_run_at` back after a
  newer one has set it.
- Removing a strategy leaves its id in the hops of chains, where the inspector
  neither shows nor removes it; the chain does not compile any more.

## Proofs

The theorems hold for every value of the constants, within the assumptions that
the modules name.

| Theorem | Property | Module |
| --- | --- | --- |
| `TypeCorrect` | `TypeOK` | `RefreshCoordinatorProofs` |
| `RegistrationCorrect` | `RegisteredIsInFlight` | `RefreshCoordinatorProofs` |
| `NoLateAnswerWins` | `NoLateAnswer` | `RefreshCoordinatorProofs` |
| `EmptyNeedsConfirmation` | `EmptyIsConfirmed` | `RefreshCoordinatorProofs` |
| `CacheKeepsOrder` | `CacheMovesForward` | `RefreshCoordinatorProofs` |
| `DeletionIsFinal` | `DeletedStaysDeleted` | `RefreshCoordinatorProofs` |
| `NewestReachesCache` | `NewestIsSaved` | `RefreshCoordinatorProofs` |
| `FailedSavesAreReported` | `FailedSaveIsReported` | `RefreshCoordinatorProofs` |
| `CoordinatorKeepsLastKnownGood` | `KeepsLastKnownGood` | `RefreshCoordinatorProofs` |
| `TypeCorrect` | `TypeOK` | `SubscriptionSessionProofs` |
| `TheCurrentIsHeard` | `CurrentIsHeard` | `SubscriptionSessionProofs` |
| `ShownIsReplacedByNewer` | `ShownMovesForward` | `SubscriptionSessionProofs` |
| `EditsShowTheirUrl` | `ShownIsOfEditedUrl` | `SubscriptionSessionProofs` |
| `SettledCacheIsCurrent` | `OnlyCurrentIsCached` | `SubscriptionSessionProofs` |
| `TypeCorrect` | `TypeOK` | `RuntimeServiceProofs` |
| `HistoryStaysInWindow` | `HistoryWindow` | `RuntimeServiceProofs` |
| `ErasureOutdates` | `ErasedDataAreGone` | `RuntimeServiceProofs` |
| `RefreshesStayInOrder` | `RefreshesInOrder` | `RuntimeServiceProofs` |
| `UsableIsKept` | `FetchedUsableIsKept` | `RuntimeServiceProofs` |
| `SchedulerTypeCorrect` | `SchedulerTypeOK` | `RuntimeServiceProofs` |
| `MarkingIsJustified` | `MarkedWhenServed` | `RuntimeServiceProofs` |
| `TypeCorrect` | `TypeOK` | `FetchGatewayProofs` |
| `DeadlineIsShared` | `OneDeadline` | `FetchGatewayProofs` |
| `BodyStaysWithinLimit` | `BodyWithinLimit` | `FetchGatewayProofs` |
| `SlotsComeBack` | `NoSlotIsLost` | `FetchGatewayProofs` |
| `RateStaysBounded` | `RateIsBounded` | `FetchGatewayProofs` |
| `ClientOutwaitsService` | `ServiceAnswersFirst` | `FetchGatewayProofs` |
| `TypeCorrect` | `TypeOK` | `ProjectWorkspaceProofs` |
| `SavedStaysFindable` | `SavedIsFindable` | `ProjectWorkspaceProofs` |
| `IndexStaysSound` | `IndexIsSound` | `ProjectWorkspaceProofs` |
| `DeletedIsNotRevived` | `DeletedStaysDeleted` | `ProjectWorkspaceProofs` |
| `LeavingSavesTheWork` | `LeavingSaves` | `ProjectWorkspaceProofs` |
| `StandInIsHarmless` | `StandInReplacesNothing` | `ProjectWorkspaceProofs` |
| `TypeCorrect` | `TypeOK` | `ProxySetsProofs` |
| `AnswersStayRight` | `AnswersAreRight` | `ProxySetsProofs` |
| `ExportsKeepTheSet` | `ExportKeepsTheSet` | `ProxySetsProofs` |
| `EditsPreserveTheFlow` | `EditsKeepTheFlow` | `ProxySetsProofs` |
| `TypeCorrect` | `TypeOK` | `RoutingRulesProofs` |
| `OrderIsKept` | `TargetsKeepTheOrder` | `RoutingRulesProofs` |
| `EveryRuleIsWritten` | `NothingIsDropped` | `RoutingRulesProofs` |
| `MovesAreSeen` | `MoveIsSeen` | `RoutingRulesProofs` |
| `TypeCorrect` | `TypeOK` | `SelfHostedManagerProofs` |
| `BackupComesFirst` | `UpdateIsBackedUp` | `SelfHostedManagerProofs` |
| `PinnedStaysPinned` | `PinStays` | `SelfHostedManagerProofs` |
| `SavedIsRunning` | `SavedIsDeployed` | `SelfHostedManagerProofs` |
| `ServiceReturns` | `ServiceComesBack` | `SelfHostedManagerProofs` |

### The coordinator

Every safety property that `refresh_safety` checks is also a theorem, for every
set of sources, any number of overlapping calls and any bound on the
generations; `MaxGenAssumption` is the only assumption, and only the refinement
needs it.  The argument of the code is "a call may act only while its
generation is the newest of its source".  Alone that is not inductive; the
invariant has layers, each of which uses those before it.

- `TypeInv` is `TypeOK` with `AnswerInv`: a call that parsed its body has a
  verdict, and an invalid one does not reach the diff.  Without it `Commit`
  might show a snapshot of no valid quality.
- `CallInv` is `RegisteredIsInFlight` with `RequestInv`: no call in flight is
  ahead of the counter, and two calls of one source differ in their
  generation.  Without it a returning call might unregister another one.
- `SnapshotInv`: nothing shown or offered is newer than the counter, an offer
  is newer than what is shown, and a current call that is still awaiting is
  newer than both, and captured a usable snapshot if a usable one is shown.
  The last part is why the stale comparison in `refresh()` does no harm: while
  the call is current, what is shown can only have been blanked since.

- `ClearInv`: a queued clear has outdated every call that awaits.  So a clear
  that blanks the store does not blank what a current call announced.
- `ListenInv`: from its start on, the current call is the one the store listens
  to, and what is offered is the result of that call.  So the guard of the
  store's handlers and the test of the coordinator never disagree on a commit.
- `ChainInv`: the writes of a chain are in the order of their generations, all
  newer than the row in front of them; and the next snapshot, an offer and the
  result of a current call are newer than all that is queued.  The second half
  is what makes the first survive the next write.
- `DeletionInv`: behind every write of a deleted source its deletion is queued.
- `SavedInv`: a newest snapshot is the last operation of its chain, where the
  test of `Runs` cannot drop it, or has left the chain through the cache.
- `ReportInv`: while the store listens to the refresh of the newest snapshot,
  the last operation of the chain has the generation of that refresh, so that
  its failure is heard, or it succeeded, or was reported.  `ReportStays` is the
  argument that nobody takes the report back: whoever would, a start, a result,
  an accepted offer or a restoration, brings something newer.

The properties of what is shown follow from `ShownBy`, which lists the ways in
which a step can change it; those of the cache from `ChainStep`, which says
that a chain stays, is joined by one operation, or loses its head and what is
dropped behind it.  In the refinement each operation has a lemma that names
the abstract step it is: `Start` announces, `Commit` and `ApplyEmpty` show,
`AskConfirmation` offers, `Adopt` restores, a write that settles saves.  All
other steps change nothing the abstract specification sees.

### The session

For any configurations, refreshes in progress and length of the undo history
(`NoneAssumption`, `MaxGenAssumption`, `MaxUndoAssumption`).  `OneCurrent` is
the heart of it: of the refreshes, the reads of the cache and the removals of a
row at most one carries the current generation, and a read only while nothing
has happened since the project was opened; `Stamped` says that nothing carries
a later one.  `Heard` speaks of a removed source, too, as long as the undo
history may bring it back; without that, `CurrentIsHeard` is not inductive.
`ShownInv` orders what is shown, what is offered for confirmation and the
current generation.  `CacheInv` is the argument of the deletions: a write of
another URL, or a row of one, has a deletion behind it on the chain; "of another
URL" means its `home`, as a restored row may have any fingerprint.  A refresh and
a restoration begin alike and end alike (`Beginning`, `Ending`), so that
`AdoptKeeps` and `AdoptedKeeps` need little more.

### The service

For any number of sources, configurations, calls and restarts and every length
of the history (`MaxHistoryAssumption`: at least 1; `NoneAssumption`).  Again
only the newest refresh may write, but `Restart` forgets which one that is while
the tables stay.  So the invariant speaks of the snapshots' numbers: every row
of a source is from a refresh numbered so far (`Stamped`), and while a refresh
is live, every row is from one numbered before it and it was numbered after the
last deletion (`Awaited`).  That makes its late write the newest row, and keeps
refreshes numbered before a deletion from writing after it.  `Awaited` also
holds what the refresh captured: a usable row that was fetched under its URL is
known to it.  `HistoryWindow` is inductive once an upsert is known to add one
row at most and pruning to take the first at most; that the active row survives
is two lemmas on sequences.

### The scheduler

For any finite set of sources and any number of overlapping runs
(`SourcesAssumption`).  A run that finds its refresh outdated marks the schedule
all the same.  `NothingOwed` says why it may: while a run refreshes a source for
which no refresh can complete any more, nothing is owed to that source, as
whoever outdated it has completed.  `BusyHasWork` keeps the head of the list
from being read when there is none.

### The gateway

For any number of calls and all deadlines and limits (`TimeAssumption`,
`SizeAssumption`).  What is left of a deadline and the age of the fetch always
add up to `Timeout`, whatever redirects and user agents came between; what is
left of a client's patience, what it lost before the fetch began, and the age
of the fetch add up to `Patience`.  Both together give `ServiceAnswersFirst`.
`SlotsCounted` counts the phases in which a client's call holds a slot; every
action moves at most one call in or out of them.

The limiter counts in windows that begin with a request, not with the clock, so
two of them may overlap any stretch of a window's length.  `Within` is the
argument: the requests of the current window come last in `recent`, the first of
them as old as the window; and of those before it, which may be a full count,
the first is always too old by now.  Hence fewer than twice the count in any
stretch of that length; no less can be promised, as the last requests of one
window and all of the next may lie close together.

### The projects

For any number of tabs, projects and revisions (`DemoAssumption`,
`EditsAssumption`; `NoneAssumption`, `CorruptAssumption` and `IndexAssumption`
keep an absent key and an unreadable one apart from stored values).  The
outcomes of a handler are a set, since each of its writes may be refused or the
last; the lemmas list them once per storage operation (`SavedUpTo`, `ClearedUpTo`) and say that
whatever the outcome, other projects are `Untouched` and the disk stays `Good`:
the index is sound, and while the slot of an older release is not yet moved,
the item of its project is absent or a copy.  Without the last part a migration
that is repeated after a crash might overwrite later work.  `Absent` carries the
deletions: ids never handed out and ids deleted have no item.  It survives the
saves only with a condition on every tab, `TabOK`: a tab that shows a deleted
project has its storage paused; and what a tab shows, unless it is the demo, is
neither still in the old slot nor unreadable on the disk.  The last clause is
what makes the demo a harmless stand-in: a tab that fell back to it after an
unreadable project has the demo's id and no other.  The two action
properties follow from it and from the outcomes of the saves.

### The proxy sets

For every finite set of nodes whose sources are nothing else
(`NodesAssumption`), any content of the sources, stored edges and number of
edits.  The properties need no more of the history than that the graph is well
typed: users may draw any graph, and the functions have to be right in each,
cycles and missing nodes included.

A recursive definition says nothing until such a function is known to exist,
and the library's theorems about that take operators.  So it is done by hand,
with the step as a function: `Iteration` for what counts up along a sequence,
and `Recursion` for what descends by a measure; both also give the type of the
values.  The evaluation and the lineage descend because the path grows within
the nodes (`EvaluationDefined`, `AnalysisDefined`), the flow because less is
above what is above (`FlowDefined`).  Then:

- `Above` is the least set that is closed under going up (`AboveLeast`,
  `AboveClosed`): the search has nothing left to find after as many rounds as
  there are nodes.  That it is monotone and transitive follows.
- `RightAnswerOfInputs`: the reference satisfies the equation of the evaluation
  without the path: a set combines the right answers of its inputs.  So does a
  set on a cycle, as one of its inputs is on the cycle too.
- `EvaluatesRight`: by induction on the path, the evaluation of a set gives the
  right answer and leaves a cache with right answers only (`RightCaches`).  The
  hypothesis that makes it inductive is `BelowStack`: the set in question is
  above every set on the path.  So a set met again on the path is on a cycle
  and its error right, and may be cached.
- `LineageIsRight`: by induction on the path too.  The sources it finds are the
  ones from which a path leads down that avoids the nodes on the stack
  (`Avoiding`); cutting a set out of the paths into it loses no source.
- `CompiledSetsAnswer`: where the compiler accepts the graph nothing fails but
  for a source that is not resolved.
- `PickedInputsCloseNoCycle`: a new cycle would lead through the node that got
  inputs and from there, along old edges only, to one of these inputs, which
  the node was not above.  `FewerEdges` covers what only removes.
- `SwapExchanges` shows the edges before and after a move as the same
  `Pipeline` with the two steps exchanged, and `ExchangeOfSteps` that such an
  exchange leaves what is above every other node; `SwapBack` that the opposite
  move is possible and gives the same array again, in the same order.

### The routing rules

For every set of ids, any matchers, stored projects and number of edits
(`BoundsAssumption`, `KindsAssumption`, and `StartsAssumption`: a stored project
has no two nodes with the same id).  The invariant is only that the graph is
well formed; the rest is about the functions that read it, for lists of any
length.  That needs induction, which the library states for operators the
provers cannot instantiate.  It is done by hand, from the well-foundedness of
the natural numbers: a set of numbers that holds 0 and all successors below `n`
holds everything up to `n` (`LeastNatural`, `InductionUpTo`), with the set
standing for the statement.

- `Filtered` and `Counting`: `At` keeps the order, and each element kept stands
  at the place that counts the ones kept before it.
- `Sorting`: `StableSort` has the same elements, ordered by priority and, where
  that is equal, by the place they had.
- `OrderKept`: two sequences with the same elements in the same strict order are
  the same sequence.  Ids make the order strict.
- `SurgeMerges`: the native routes at their places and the others in the
  gaps are the emitted sequence again.
- `Accepted`: with these, a project that a target accepts is written exactly as
  it is ranked, for Loon with the first rule of each service only; nothing is
  filtered out, as everything supported can be written (`SupportedIsLowered`).
  `AcceptedIsInOrder` adds what the client makes of it.
- `Moved`, `Stored`, `Shown`, `MatchedAsShown` and `OthersStay` follow a move
  through the renumbering of all rules: the next ranking is the list as it was
  rearranged, and the compiler's ranking is its enabled part.

### The manager

For any set of directories, overrides of the shell, and number of commands,
tokens and kills (`BoundAssumption`, `SettingAssumption`, `NoneAssumption`).
`Places` says where each step stands in the plans, so that an invariant can
speak of positions.  `PinInv`: what is not managed names the user's image, in
the file and in the command that read it, and survives being cut.  `InstallInv`:
Compose can see the container unless a kill has cut the configuration.  The
other three follow a backup or an update from step to step: `ArchiveInv`, from
the data found to a whole archive of a stopped service; `ServiceInv`, that the
service runs or was stopped by this command; `DeployInv`, that what runs is
what will be saved.

### Model-checked only

Liveness (`EveryRefreshReturns`, `EveryDueScheduleIsServed`,
`EveryRequestIsAnswered`), as the provers do not handle fairness.  Every other
property of a passing run is a theorem.

## What is not modelled

Most of the code by lines is tables, formats and pages: the parsers of
subscription formats, the fields that each target writes per protocol, the
capability tables, DNS, native settings and their editors, the texts of the
interface and the React components.  They keep no state, or none that outlives
a call, and a property about them would repeat them; tests with fixtures fit
them better.  So the models cover a tenth of the lines, and will not cover a
third of them.  In the modelled parts the following is left out:

- the content of snapshots, diffs, names, toasts and timestamps;
- pasted and imported content and the hydration barrier that goes with it;
- the mirror of confirmations to the Runtime Service;
- the composition of `ProjectWorkspace` with the cache of `SubscriptionSession`:
  a crash before the graph is saved finds the rows of the edited URL gone;
- a second browser tab over one IndexedDB, and handlers of two tabs that
  interleave within `localStorage` operations;
- authorization, CORS and static files of the service; which addresses are
  public;
- `next_run_at` as a time; the rejection of Web Crypto digests;
- strategies and chains.  A chain of chains would lose hops in two targets, but
  the editor connects no chain to a chain;
- regular expressions of filters, sort keys, diagnostics of the planner;
- two managers at a time; `status`, `logs` and the menu of the script; a kill in
  the middle of writing `compose.yaml`, unlike one of `.env` or an archive;
- in the coordinator, the await of the diff in `adoptSubscriptionSnapshot`
  (which `SubscriptionSession` has) and the one of the fingerprint that
  `clearCachedSubscription` makes for a source without a runtime; what `onStart`
  does when the configuration changed (which `SubscriptionSession` has);
- in the session, `hydrate` for the project that is already open, which is
  `Close` and `Open` in one, after an `Edit` where the URL differs (`App.tsx`
  returns before it), and `resetToDemo`;
- in the gateway, the parsing, the digest and the writes that follow a fetch
  while the slot is still held: they are the end of the fetch;
- in the projects, a readable legacy project that has no target and is given one
  in the dialog (`configureExistingProject`), and a slot of an older release
  that cannot be parsed;
- in the proxy sets, a provider without a URL.  `GraphCompiles` asks that every
  input of every strategy exists, where the compiler needs only the first input
  of some kinds and none of others; it is the antecedent of a claim, which
  therefore speaks of somewhat fewer graphs.

## Plan

Done: the coordinator with its abstract specification, the session, the
service, the scheduler, the gateway, the projects, the proxy sets, routing and
the manager, each with the proofs of its safety.  Next, in this order:

1. `SnapshotRepository`: the two object stores of IndexedDB as transactions,
   two tabs, the cleanup in `readActive`; abstractly a map from scopes to
   snapshots, which it implements.  Composed with the chain of the coordinator.
2. `SubscriptionSession` extended by pasted input and the hydration barrier,
   and composed with the crash of `ProjectWorkspace`.
3. The matching of `diff.ts` and the unique names of the target compilers
   against reference definitions over bounded inputs.
4. `next_run_at` as a time in `RuntimeScheduler`.
