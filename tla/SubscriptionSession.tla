------------------------ MODULE SubscriptionSession ------------------------
(***************************************************************************)
(* One URL subscription in the builder store of ProxyFlow                  *)
(* (src/store/useBuilderStore.ts): edits of its URL, undo and redo,        *)
(* refreshes, rows of the server's history that the user restores, the     *)
(* cached snapshot that is read when the project is opened                 *)
(* (hydrateSubscriptionCache), a change of project and a reload of the     *)
(* page.  RefreshCoordinator looks at one cache slot per source; here the  *)
(* cache has a row per configuration, as in IndexedDB.                     *)
(*                                                                         *)
(* The store keeps an input generation per source beside the generation of *)
(* the coordinator.  Wherever one of them is increased so is the other, so *)
(* that a single number stands for both.  It also names the snapshot that  *)
(* a refresh produces or a restoration shows.  Pasted and imported content *)
(* is not modelled.                                                        *)
(***************************************************************************)
EXTENDS Naturals, Sequences

CONSTANTS
    Configs,  \* fingerprints of a URL and its request profile
    Slots,    \* refreshes and restorations in progress
    MaxGen,   \* bound on the generation
    MaxUndo,  \* length of the undo history, 50 in the code
    None      \* no snapshot, no source, no call

ASSUME MaxGenAssumption == MaxGen \in Nat
ASSUME MaxUndoAssumption == MaxUndo \in Nat

VARIABLES
    open,          \* the project is the one in the store
    node,          \* the configuration of the source, None once removed
    past, future,  \* undo and redo history of node
    shown,         \* subscriptionSnapshots
    runtime,       \* subscriptionRuntimes
    generation,    \* of the input and of the coordinator
    deleted,       \* the source is in deletedSources
    task,          \* refreshes and restorations in progress
    reads,         \* reads of the cache in progress
    chain,         \* unsettled cache operations, the head in progress
    cache,         \* rows of the browser cache
    disturbed,     \* history: a cache operation failed or was cut off
    undone         \* history: undo or redo were used

graph   == <<node, past, future>>
history == <<disturbed, undone>>
vars    == <<open, graph, shown, runtime, generation, deleted, task, reads,
             chain, cache, history>>

Quality  == {"usable", "empty"}

\* config is the configuration that the snapshot was fetched from and is saved
\* under, home the one that the source had when it was fetched or restored.
Snapshot == [gen : Nat, config : Configs, quality : Quality, home : Configs]
Runtime  == [config : Configs, heard : Nat, pending : Snapshot \cup {None}]

\* config is that of the source at the call, captured the quality of what a
\* refresh compares with.  A call that restores a row is "adopting".
Task     == [stage : {"hashing", "fetching", "adopting"}, gen : Nat,
             config : Configs, captured : Quality \cup {None}]
Read     == [stage : {"reading", "read"}, gen : Nat, config : Configs,
             row : Snapshot \cup {None}]
CacheOp  == [kind : {"write"}, gen : Nat, snap : Snapshot]
            \cup [kind : {"clear"}, gen : Nat, config : Configs]
            \cup [kind : {"delete"}]

ASSUME NoneAssumption ==
    /\ None \notin Configs /\ None \notin Snapshot /\ None \notin Runtime
    /\ None \notin Task

TypeOK ==
    /\ open \in BOOLEAN
    /\ node \in Configs \cup {None}
    /\ past \in Seq(Configs \cup {None})
    /\ future \in Seq(Configs \cup {None})
    /\ Len(past) + Len(future) <= MaxUndo
    /\ shown \in Snapshot \cup {None}
    /\ runtime \in Runtime \cup {None}
    /\ generation \in Nat
    /\ deleted \in BOOLEAN
    /\ task \in [Slots -> Task \cup {None}]
    /\ reads \subseteq Read
    /\ chain \in Seq(CacheOp)
    /\ cache \in [Configs -> Snapshot \cup {None}]
    /\ disturbed \in BOOLEAN
    /\ undone \in BOOLEAN

\* A project was saved, with or without a cached snapshot, and is not open.
Init ==
    /\ open = FALSE
    /\ node \in Configs
    /\ past = <<>> /\ future = <<>>
    /\ shown = None /\ runtime = None
    /\ generation = 0 /\ deleted = FALSE
    /\ task = [t \in Slots |-> None]
    /\ reads = {} /\ chain = <<>>
    /\ \E s \in {None, [gen |-> 0, config |-> node, quality |-> "usable",
                       home |-> node]} :
         cache = [c \in Configs |-> IF c = node THEN s ELSE None]
    /\ disturbed = FALSE /\ undone = FALSE

-----------------------------------------------------------------------------
(* Helpers.                                                                *)

\* nextInputGeneration() and cancel() or refresh() of the coordinator.
Outdate == generation < MaxGen /\ generation' = generation + 1

IsCurrent(call) == call.gen = generation

Enqueue(op) == chain' = Append(chain, op)

\* Of one element more than MaxUndo the one that is farthest is dropped.
Latest(q)  == IF Len(q) > MaxUndo THEN Tail(q) ELSE q
Nearest(q) == IF Len(q) > MaxUndo THEN SubSeq(q, 1, MaxUndo) ELSE q

\* record(): the last MaxUndo states of the graph are kept.
Record == past' = Latest(Append(past, node)) /\ future' = <<>>

Forget == shown' = None /\ runtime' = None

-----------------------------------------------------------------------------
(* Projects.                                                               *)

\* hydrate() of this project, with hydrateSubscriptionCache().
Open ==
    /\ ~open
    /\ open' = TRUE
    /\ reads' = IF node = None THEN reads
                ELSE reads \cup {[stage |-> "reading", gen |-> generation,
                                  config |-> node, row |-> None]}
    /\ Forget
    /\ UNCHANGED <<graph, generation, deleted, task, chain,
                   cache, history>>

\* hydrate() of another project, or createNewProject().
Close ==
    /\ open
    /\ open' = FALSE
    /\ IF node = None THEN UNCHANGED generation ELSE Outdate
    /\ Forget
    /\ past' = <<>> /\ future' = <<>>
    /\ UNCHANGED <<node, deleted, task, reads, chain, cache, history>>

\* What a cache operation does to the rows.
Applied(op) ==
    CASE op.kind = "write"  -> [cache EXCEPT ![op.snap.config] = op.snap]
      [] op.kind = "clear"  -> [cache EXCEPT ![op.config] = None]
      [] op.kind = "delete" -> [c \in Configs |-> None]

\* The page is reloaded: the graph was saved, all else is gone except that
\* the transaction in progress may still commit.
Reload ==
    /\ open' = FALSE
    /\ Forget
    /\ past' = <<>> /\ future' = <<>>
    /\ deleted' = FALSE
    /\ task' = [t \in Slots |-> None]
    /\ reads' = {} /\ chain' = <<>>
    /\ \/ UNCHANGED cache
       \/ chain # <<>> /\ cache' = Applied(Head(chain))
    /\ disturbed' = (disturbed \/ chain # <<>>)
    /\ UNCHANGED <<node, generation, undone>>

-----------------------------------------------------------------------------
(* The cache: reads when the project is opened, and the coordinator's      *)
(* chain of writes and deletions.                                          *)

ReadRow(r) ==
    /\ r.stage = "reading"
    /\ reads' = (reads \ {r}) \cup {[r EXCEPT !.stage = "read",
                                              !.row = cache[r.config]]}
    /\ UNCHANGED <<open, graph, shown, runtime, generation, deleted, task,
                   chain, cache, history>>

Unheard(c) == [config |-> c, heard |-> 0, pending |-> None]

\* Mutant of ShowRow: the generation of the input is not compared.
ShowRowLate(r) ==
    /\ r.stage = "read"
    /\ reads' = reads \ {r}
    /\ IF open /\ node = r.config
         THEN /\ shown' = IF r.row = None THEN shown ELSE r.row
              /\ runtime' = Unheard(r.config)
         ELSE UNCHANGED <<shown, runtime>>
    /\ UNCHANGED <<open, graph, generation, deleted, task, chain, cache,
                   history>>

\* Mutant of ShowRow: neither project nor configuration are compared.
ShowRowAnywhere(r) ==
    /\ r.stage = "read"
    /\ reads' = reads \ {r}
    /\ shown' = IF r.row = None THEN shown ELSE r.row
    /\ runtime' = Unheard(r.config)
    /\ UNCHANGED <<open, graph, generation, deleted, task, chain, cache,
                   history>>

\* The row is shown, if nothing happened to the source meanwhile.
ShowRow(r) ==
    /\ r.stage = "read"
    /\ reads' = reads \ {r}
    /\ IF IsCurrent(r) /\ open /\ node = r.config
         THEN /\ shown' = IF r.row = None THEN shown ELSE r.row
              /\ runtime' = Unheard(r.config)
         ELSE UNCHANGED <<shown, runtime>>
    /\ UNCHANGED <<open, graph, generation, deleted, task, chain, cache,
                   history>>

\* The test a queued operation makes when its turn comes.  The write of what
\* was restored has no generation.
Runs(op) ==
    \/ op.kind = "delete"
    \/ op.kind = "write" /\ ~deleted /\ (op.gen = 0 \/ IsCurrent(op))
    \/ op.kind = "clear" /\ IsCurrent(op)

\* The head of the chain settles; the next operation that still runs starts.
Settle ==
    /\ chain # <<>>
    /\ \E n \in 1..Len(chain) :
         /\ \A i \in 2..n : ~Runs(chain[i])
         /\ n < Len(chain) => Runs(chain[n + 1])
         /\ chain' = SubSeq(chain, n + 1, Len(chain))
    /\ \/ cache' = Applied(Head(chain)) /\ UNCHANGED disturbed
       \/ disturbed' = TRUE /\ UNCHANGED cache
    /\ IF Head(chain).kind = "clear" /\ IsCurrent(Head(chain))
         THEN shown' = None /\ runtime' = Unheard(Head(chain).config)
         ELSE UNCHANGED <<shown, runtime>>
    /\ UNCHANGED <<open, graph, generation, deleted, task, reads, undone>>

-----------------------------------------------------------------------------
(* Edits of the graph.                                                     *)

\* Mutant of Edit: the refresh is cancelled but the cache is left alone.
EditCancelling(c) ==
    /\ open /\ node # None /\ c # node
    /\ Record
    /\ node' = c
    /\ Outdate
    /\ Forget
    /\ UNCHANGED <<open, deleted, task, reads, chain, cache, history>>

\* updateNodeData() with another URL or request profile.
Edit(c) ==
    /\ open /\ node # None /\ c # node
    /\ Record
    /\ node' = c
    /\ Outdate
    /\ deleted' = TRUE
    /\ Enqueue([kind |-> "delete"])
    /\ Forget
    /\ UNCHANGED <<open, task, reads, cache, history>>

\* removeNode(), deleteSelected()
Remove ==
    /\ open /\ node # None
    /\ Record
    /\ node' = None
    /\ Outdate
    /\ deleted' = TRUE
    /\ Enqueue([kind |-> "delete"])
    /\ Forget
    /\ UNCHANGED <<open, task, reads, cache, history>>

\* undo() and redo() replace the graph and touch nothing else.
Undo ==
    /\ open /\ past # <<>>
    /\ node' = past[Len(past)]
    /\ past' = SubSeq(past, 1, Len(past) - 1)
    /\ future' = Nearest(<<node>> \o future)
    /\ undone' = TRUE
    /\ UNCHANGED <<open, shown, runtime, generation, deleted, task, reads,
                   chain, cache, disturbed>>

Redo ==
    /\ open /\ future # <<>>
    /\ node' = Head(future)
    /\ future' = Tail(future)
    /\ past' = Latest(Append(past, node))
    /\ undone' = TRUE
    /\ UNCHANGED <<open, shown, runtime, generation, deleted, task, reads,
                   chain, cache, disturbed>>

-----------------------------------------------------------------------------
(* Refreshes, as in RefreshCoordinator, with the fetch, the digest and the *)
(* diff as one step.                                                       *)

Return(t) == task' = [task EXCEPT ![t] = None]

Refresh(t) ==
    /\ task[t] = None /\ open /\ node # None
    /\ Outdate
    /\ deleted' = FALSE
    /\ task' = [task EXCEPT ![t] =
                  [stage |-> "hashing", gen |-> generation', config |-> node,
                   captured |-> IF shown = None THEN None ELSE shown.quality]]
    /\ UNCHANGED <<open, graph, shown, runtime, reads, chain, cache, history>>

\* onStart: another configuration than the one last heard of drops the
\* snapshot.
Start(t) ==
    LET c == task[t] IN
    /\ c # None /\ c.stage = "hashing" /\ IsCurrent(c)
    /\ task' = [task EXCEPT ![t].stage = "fetching"]
    /\ shown' = IF runtime # None /\ runtime.config # c.config THEN None
                                                               ELSE shown
    /\ runtime' = [config |-> c.config, heard |-> c.gen, pending |-> None]
    /\ UNCHANGED <<open, graph, generation, deleted, reads, chain, cache,
                   history>>

Asks(c, q) == q = "empty" /\ c.captured = "usable"

Result(c, q) == [gen |-> c.gen, config |-> c.config, quality |-> q,
                 home |-> c.config]

Listening(c) ==
    open /\ node # None /\ runtime # None /\ runtime.heard = c.gen

Commit(t) ==
    LET c == task[t] IN
    /\ c # None /\ c.stage = "fetching" /\ IsCurrent(c)
    /\ \E q \in Quality :
         /\ ~Asks(c, q)
         /\ IF Listening(c)
              THEN /\ shown' = Result(c, q)
                   /\ runtime' = [runtime EXCEPT !.pending = None]
              ELSE UNCHANGED <<shown, runtime>>
         /\ IF deleted THEN UNCHANGED chain
            ELSE Enqueue([kind |-> "write", gen |-> c.gen,
                          snap |-> Result(c, q)])
    /\ Return(t)
    /\ UNCHANGED <<open, graph, generation, deleted, reads, cache, history>>

\* onEmptyConfirmation
Offer(t) ==
    LET c == task[t] IN
    /\ c # None /\ c.stage = "fetching" /\ IsCurrent(c)
    /\ Asks(c, "empty")
    /\ runtime' = IF Listening(c)
                    THEN [runtime EXCEPT !.pending = Result(c, "empty")]
                    ELSE runtime
    /\ Return(t)
    /\ UNCHANGED <<open, graph, shown, generation, deleted, reads, chain,
                   cache, history>>

\* The refresh or the restoration fails, or is outdated.
GiveUp(t) ==
    /\ task[t] # None
    /\ task[t].stage = "hashing" => ~IsCurrent(task[t])
    /\ Return(t)
    /\ UNCHANGED <<open, graph, shown, runtime, generation, deleted, reads,
                   chain, cache, history>>

\* adoptSubscriptionSnapshot(), up to the diff: the server has answered with
\* the row of its history that the user chose.  Nothing looks at the row before
\* it is shown, where its contents are chosen.
Adopt(t) ==
    /\ task[t] = None /\ open /\ node # None
    /\ Outdate
    /\ task' = [task EXCEPT ![t] = [stage |-> "adopting", gen |-> generation',
                                    config |-> node, captured |-> None]]
    /\ UNCHANGED <<open, graph, shown, runtime, deleted, reads, chain, cache,
                   history>>

\* The rest of it: the row, fetched from whatever URL the source had at some
\* time, is shown and saved under its own configuration.
Adopted(t) ==
    LET c == task[t] IN
    /\ c # None /\ c.stage = "adopting" /\ IsCurrent(c)
    /\ open /\ node # None
    /\ \E row \in [gen : {c.gen}, config : Configs, quality : Quality,
                   home : {node}] :
         /\ shown' = row
         /\ runtime' = Unheard(row.config)
         /\ IF deleted THEN UNCHANGED chain
            ELSE Enqueue([kind |-> "write", gen |-> 0, snap |-> row])
    /\ Return(t)
    /\ UNCHANGED <<open, graph, generation, deleted, reads, cache, history>>

\* applyEmptySubscription()
ApplyEmpty ==
    /\ open /\ node # None /\ runtime # None /\ runtime.pending # None
    /\ shown' = runtime.pending
    /\ runtime' = [runtime EXCEPT !.pending = None]
    /\ IF deleted \/ runtime.heard # generation
         THEN UNCHANGED chain
         ELSE Enqueue([kind |-> "write", gen |-> runtime.heard,
                       snap |-> runtime.pending])
    /\ UNCHANGED <<open, graph, generation, deleted, task, reads, cache,
                   history>>

\* keepCurrentSubscription()
KeepCurrent ==
    /\ open /\ runtime # None /\ runtime.pending # None
    /\ runtime' = [runtime EXCEPT !.pending = None]
    /\ UNCHANGED <<open, graph, shown, generation, deleted, task, reads,
                   chain, cache, history>>

\* clearCachedSubscription(), up to the deletion of the row; what follows it
\* is part of Settle.
ClearCache ==
    /\ open /\ node # None
    /\ Outdate
    /\ Enqueue([kind |-> "clear", gen |-> generation',
                config |-> IF runtime = None THEN node ELSE runtime.config])
    /\ UNCHANGED <<open, graph, shown, runtime, deleted, task, reads, cache,
                   history>>

-----------------------------------------------------------------------------
Next ==
    \/ Open \/ Close \/ Reload
    \/ \E r \in reads : ReadRow(r) \/ ShowRow(r)
    \/ Settle
    \/ \E c \in Configs : Edit(c)
    \/ Remove \/ Undo \/ Redo
    \/ \E t \in Slots :
         \/ Refresh(t) \/ Start(t) \/ Commit(t) \/ Offer(t) \/ GiveUp(t)
         \/ Adopt(t) \/ Adopted(t)
    \/ ApplyEmpty \/ KeepCurrent \/ ClearCache

Spec == Init /\ [][Next]_vars
-----------------------------------------------------------------------------
(* Safety.                                                                 *)

\* "does not let late cache hydration overwrite a newer network refresh"
\* (useBuilderStore.test.ts): what is shown gives way to newer snapshots only,
\* also when the project is closed and opened again while reads, refreshes
\* and writes of the earlier visit are still under way.
ShownMovesForward ==
    [][shown # None /\ shown' # None /\ shown' # shown
       => shown'.gen > shown.gen]_shown

\* While the source is in the graph that is open, a refresh that may still
\* commit is the one the store listens to, so that nothing is saved that was
\* not shown: neither a late read nor undo or redo takes the ear from it.
CurrentIsHeard ==
    \A t \in Slots :
      /\ open /\ node # None
      /\ task[t] # None /\ task[t].stage = "fetching" /\ IsCurrent(task[t])
      => runtime # None /\ runtime.heard = task[t].gen

\* "invalidates active runtime immediately when the subscription URL changes"
\* (useBuilderStore.test.ts): the snapshot shown belongs to the project that
\* is open and to the URL and request profile that its source now has: it was
\* fetched from them, or the user restored it while the source had them.
ShownIsOfThisUrl ==
    shown # None => open /\ node \in {shown.config, shown.home, None}

\* That much is true until undo or redo are used: no edit, removal, late read,
\* late refresh or late restoration shows a snapshot of another URL.
ShownIsOfEditedUrl == undone \/ ShownIsOfThisUrl

\* When all is settled the cache holds no row that was saved for a
\* configuration that the source no longer has, and none of a removed source,
\* unless undo or redo were used or a deletion failed or was cut off.  The row
\* of another URL that is there was restored by the user for the present one.
OnlyCurrentIsCached ==
    chain = <<>> /\ ~disturbed /\ ~undone
    => \A c \in Configs : cache[c] # None => cache[c].home = node

=============================================================================
