---------------------- MODULE SubscriptionSessionProofs ----------------------
(***************************************************************************)
(* Proofs about SubscriptionSession, for any configurations, any number of *)
(* refreshes in progress, and any length of the undo history.              *)
(***************************************************************************)
EXTENDS SubscriptionSession, SequenceTheorems, TLAPS

(* Nothing carries a generation that has not been given out.               *)
Stamped ==
    /\ \A t \in Slots : task[t] # None => task[t].gen <= generation
    /\ \A r \in reads :
         /\ r.gen <= generation
         /\ r.row # None => r.row.gen <= generation /\ r.row.config = r.config
    /\ \A i \in 1 .. Len(chain) :
         /\ chain[i].kind = "clear" => chain[i].gen <= generation
         /\ chain[i].kind = "write" => chain[i].snap.gen <= generation
    /\ \A c \in Configs :
         cache[c] # None => cache[c].gen <= generation /\ cache[c].config = c
    /\ shown # None => shown.gen <= generation

CurrentTask  == \E t \in Slots : task[t] # None /\ task[t].gen = generation
CurrentRead  == \E r \in reads : r.gen = generation
CurrentClear == \E i \in 1 .. Len(chain) :
                   chain[i].kind = "clear" /\ chain[i].gen = generation

(* At most one refresh, read or removal is the current one.  A read is     *)
(* current only as long as nothing happened since the project was opened.  *)
OneCurrent ==
    /\ \A t, u \in Slots :
         task[t] # None /\ task[u] # None /\ task[t].gen = task[u].gen => t = u
    /\ \A r, s \in reads : r.gen = generation /\ s.gen = generation => r = s
    /\ CurrentTask => ~CurrentRead /\ ~CurrentClear
    /\ CurrentRead => /\ ~CurrentClear
                      /\ open /\ past = <<>> /\ future = <<>>
                      /\ node # None /\ shown = None /\ runtime = None
    /\ ~open /\ node # None => ~CurrentTask /\ ~CurrentRead /\ ~CurrentClear

(* A source that is removed is listened to as long as it can come back.    *)
Heard ==
    /\ ~open => past = <<>> /\ future = <<>>
    /\ \A t \in Slots :
         /\ open /\ (node # None \/ past # <<>> \/ future # <<>>)
         /\ task[t] # None /\ task[t].stage = "fetching" /\ IsCurrent(task[t])
         => runtime # None /\ runtime.heard = task[t].gen

(* What is shown is older than what may replace it.                        *)
ShownInv ==
    /\ shown # None => open
    /\ CurrentTask /\ shown # None => shown.gen < generation
    /\ runtime # None /\ runtime.pending # None /\ shown # None
         => shown.gen < runtime.pending.gen
    /\ runtime # None /\ runtime.pending # None =>
         /\ runtime.pending.gen <= generation
         /\ CurrentTask => runtime.pending.gen < generation

(* Without undo, everything current is of the URL of the source.           *)
UrlInv ==
    ~undone =>
      /\ shown # None => node \in {shown.config, shown.home}
      /\ \A t \in Slots :
           task[t] # None /\ task[t].gen = generation => task[t].config = node
      /\ runtime # None /\ runtime.pending # None => runtime.pending.home = node

DeletesAfter(i) == \E j \in i + 1 .. Len(chain) : chain[j].kind = "delete"

(* Rows saved for another URL, and writes of them, are ahead of a deletion. *)
CacheInv ==
    ~undone /\ ~disturbed =>
      /\ \A i \in 1 .. Len(chain) :
           chain[i].kind = "write" /\ ~DeletesAfter(i) => chain[i].snap.home = node
      /\ ~DeletesAfter(0) => \A c \in Configs : cache[c] # None => cache[c].home = node

IInv == TypeOK /\ Stamped /\ OneCurrent /\ Heard /\ ShownInv /\ UrlInv /\ CacheInv

-----------------------------------------------------------------------------
(* Operations of the cache and their chain.                                *)

LEMMA Operations ==
  ASSUME NEW op \in CacheOp
  PROVE  /\ op.kind \in {"write", "clear", "delete"}
         /\ op.kind = "write" => op.gen \in Nat /\ op.snap \in Snapshot
         /\ op.kind = "clear" => op.gen \in Nat /\ op.config \in Configs
BY DEF CacheOp

LEMMA ChainElements ==
  ASSUME TypeOK
  PROVE  Len(chain) \in Nat /\ \A i \in 1 .. Len(chain) : chain[i] \in CacheOp
BY ElementOfSeq, LenProperties DEF TypeOK

\* One more operation on the chain.
LEMMA Enqueuing ==
  ASSUME TypeOK, NEW op \in CacheOp, Enqueue(op)
  PROVE  /\ chain' \in Seq(CacheOp)
         /\ Len(chain') = Len(chain) + 1
         /\ \A i \in 1 .. Len(chain) : chain'[i] = chain[i]
         /\ chain'[Len(chain) + 1] = op
         /\ \A i \in 1 .. Len(chain') : i \in 1 .. Len(chain) \/ i = Len(chain) + 1
<1>1. chain \in Seq(CacheOp) /\ Len(chain) \in Nat
  BY ChainElements DEF TypeOK
<1>2. chain' = Append(chain, op)
  BY DEF Enqueue
<1>3. Len(chain') = Len(chain) + 1
  BY <1>1, <1>2, AppendProperties
<1>4. QED  BY <1>1, <1>2, <1>3, AppendProperties

\* The operations after the first n.
LEMMA Settling ==
  ASSUME TypeOK, NEW n \in 1 .. Len(chain), chain' = SubSeq(chain, n + 1, Len(chain))
  PROVE  /\ chain' \in Seq(CacheOp)
         /\ Len(chain') = Len(chain) - n
         /\ \A i \in 1 .. Len(chain') : chain'[i] = chain[i + n] /\ i + n \in 1 .. Len(chain)
<1>1. Len(chain) \in Nat /\ \A i \in 1 .. Len(chain) : chain[i] \in CacheOp
  BY ChainElements
<1>2. n + 1 \in Int /\ Len(chain) \in Int /\ \A i \in n + 1 .. Len(chain) : chain[i] \in CacheOp
  BY <1>1
<1>3. /\ chain' \in Seq(CacheOp)
      /\ Len(chain') = IF n + 1 <= Len(chain) THEN Len(chain) - (n + 1) + 1 ELSE 0
      /\ \A i \in 1 .. Len(chain) - (n + 1) + 1 : chain'[i] = chain[n + 1 + i - 1]
  BY <1>2, SubSeqProperties
<1>4. Len(chain') = Len(chain) - n
  BY <1>1, <1>3
<1>5. ASSUME NEW i \in 1 .. Len(chain')
      PROVE  chain'[i] = chain[i + n] /\ i + n \in 1 .. Len(chain)
  <2>1. /\ i \in 1 .. Len(chain) - (n + 1) + 1 /\ n + 1 + i - 1 = i + n
        /\ i + n \in 1 .. Len(chain)
    BY <1>1, <1>4
  <2>2. QED  BY <1>3, <2>1
<1>6. QED  BY <1>3, <1>4, <1>5

\* What is typed is what it seems.
LEMMA Typed ==
  ASSUME TypeOK
  PROVE  /\ generation \in Nat
         /\ \A t \in Slots : task[t] # None => task[t] \in Task /\ task[t].gen \in Nat
         /\ \A r \in reads : r \in Read /\ r.gen \in Nat
                             /\ (r.row # None => r.row \in Snapshot /\ r.row.gen \in Nat)
         /\ \A c \in Configs : cache[c] # None => cache[c] \in Snapshot /\ cache[c].gen \in Nat
         /\ shown # None => shown \in Snapshot /\ shown.gen \in Nat
         /\ runtime # None =>
              /\ runtime \in Runtime /\ runtime.heard \in Nat
              /\ runtime.pending # None => /\ runtime.pending \in Snapshot
                                           /\ runtime.pending.gen \in Nat
BY DEF TypeOK, Task, Read, Snapshot, Runtime

\* What the operation in progress does to the rows.
LEMMA HeadApplied ==
  ASSUME TypeOK, Stamped, chain # <<>>, cache' = Applied(Head(chain))
  PROVE  /\ Head(chain) = chain[1] /\ 1 \in 1 .. Len(chain) /\ chain[1] \in CacheOp
         /\ cache' \in [Configs -> Snapshot \cup {None}]
         /\ \A c \in Configs :
              /\ cache'[c] # None => cache'[c].gen <= generation /\ cache'[c].config = c
              /\ \/ cache'[c] = None
                 \/ cache'[c] = cache[c] /\ chain[1].kind # "delete"
                 \/ chain[1].kind = "write" /\ cache'[c] = chain[1].snap
<1>1. Len(chain) \in Nat /\ 1 \in 1 .. Len(chain) /\ chain[1] \in CacheOp
  BY EmptySeq, ChainElements DEF TypeOK
<1>2. Head(chain) = chain[1]
  BY <1>1 DEF TypeOK
<1> DEFINE op == chain[1]
<1>3. cache' = Applied(op)
  BY <1>2
<1>4. CASE op.kind = "write"
  <2>1. op.snap \in Snapshot /\ op.snap.config \in Configs
    BY <1>1, <1>4, Operations DEF Snapshot
  <2>2. cache' = [cache EXCEPT ![op.snap.config] = op.snap]
    BY <1>3, <1>4 DEF Applied
  <2>3. op.snap.gen <= generation
    BY <1>1, <1>4 DEF Stamped
  <2>4. cache' \in [Configs -> Snapshot \cup {None}]
    BY <2>1, <2>2 DEF TypeOK
  <2>5. \A c \in Configs : cache'[c] = IF c = op.snap.config THEN op.snap ELSE cache[c]
    BY <2>2 DEF TypeOK
  <2> HIDE DEF op
  <2>6. QED  BY <1>1, <1>2, <1>4, <2>1, <2>3, <2>4, <2>5 DEF Stamped, op
<1>5. CASE op.kind = "clear"
  <2>1. op.config \in Configs
    BY <1>1, <1>5, Operations
  <2>2. cache' = [cache EXCEPT ![op.config] = None]
    BY <1>3, <1>5 DEF Applied
  <2>3. QED  BY <1>1, <1>2, <1>5, <2>1, <2>2 DEF TypeOK, Stamped
<1>6. CASE op.kind = "delete"
  <2>1. cache' = [c \in Configs |-> None]
    BY <1>3, <1>6 DEF Applied
  <2>2. QED  BY <1>1, <1>2, <2>1
<1>7. QED  BY <1>1, <1>4, <1>5, <1>6, Operations

-----------------------------------------------------------------------------
(* Projects.                                                               *)

\* When the generation is increased, nothing is current any more.
LEMMA Outdating ==
  ASSUME IInv, Outdate, task' = task, reads' = reads, cache' = cache, shown' = None,
         chain' = chain \/ Enqueue([kind |-> "delete"])
  PROVE  /\ generation' \in Nat /\ chain' \in Seq(CacheOp)
         /\ ~CurrentTask' /\ ~CurrentRead' /\ ~CurrentClear'
         /\ Stamped' /\ OneCurrent'
<1>1. /\ TypeOK /\ Stamped /\ generation' = generation + 1
      /\ generation \in Nat /\ generation' \in Nat
  BY Typed DEF IInv, Outdate
<1>2. /\ chain' \in Seq(CacheOp)
      /\ \A i \in 1 .. Len(chain') :
           chain'[i].kind = "delete" \/ (i \in 1 .. Len(chain) /\ chain'[i] = chain[i])
  <2>1. CASE chain' = chain
    BY <1>1, <2>1 DEF TypeOK
  <2>2. CASE Enqueue([kind |-> "delete"])
    <3>1. [kind |-> "delete"] \in CacheOp
      BY DEF CacheOp
    <3>2. QED  BY <1>1, <2>2, <3>1, Enqueuing
  <2>3. QED  BY <2>1, <2>2
<1>3. \A i \in 1 .. Len(chain) :
         /\ chain[i].kind = "clear" => chain[i].gen \in Nat
         /\ chain[i].kind = "write" => chain[i].snap.gen \in Nat
  BY <1>1, ChainElements, Operations DEF Snapshot
<1>4. ~CurrentTask'
  BY <1>1, Typed DEF CurrentTask, Stamped
<1>5. ~CurrentRead'
  BY <1>1, Typed DEF CurrentRead, Stamped
<1>6. ~CurrentClear'
  BY <1>1, <1>2, <1>3 DEF CurrentClear, Stamped
<1>7. Stamped'
  BY <1>1, <1>2, <1>3, Typed DEF Stamped
<1>8. OneCurrent'
  <2>1. \A t, u \in Slots :
          task'[t] # None /\ task'[u] # None /\ task'[t].gen = task'[u].gen => t = u
    BY DEF IInv, OneCurrent
  <2>2. QED  BY <1>4, <1>5, <1>6, <2>1 DEF OneCurrent, CurrentRead
<1>9. QED  BY <1>1, <1>2, <1>4, <1>5, <1>6, <1>7, <1>8

LEMMA OpenKeeps == ASSUME IInv, Open PROVE IInv'
<1> DEFINE r == [stage |-> "reading", gen |-> generation, config |-> node, row |-> None]
<1>1. /\ TypeOK /\ ~open /\ open' = TRUE /\ shown' = None /\ runtime' = None
      /\ node' = node /\ past' = past /\ future' = future /\ generation' = generation
      /\ deleted' = deleted /\ task' = task /\ chain' = chain /\ cache' = cache
      /\ disturbed' = disturbed /\ undone' = undone
      /\ reads' = IF node = None THEN reads ELSE reads \cup {r}
  BY DEF Open, Forget, graph, history, IInv
<1>2. past = <<>> /\ future = <<>>
  BY <1>1 DEF IInv, Heard
<1>3. ~CurrentRead /\ (node # None => ~CurrentTask /\ ~CurrentClear)
  BY <1>1 DEF IInv, OneCurrent
<1>4. node # None => r \in Read /\ r.gen = generation /\ r.row = None
  BY <1>1 DEF TypeOK, Read
<1>5. TypeOK'
  BY <1>1, <1>4 DEF TypeOK
<1>6. (CurrentTask' <=> CurrentTask) /\ (CurrentClear' <=> CurrentClear)
  BY <1>1 DEF CurrentTask, CurrentClear
<1> HIDE DEF r
<1>7. Stamped'
  BY <1>1, <1>4, Typed DEF IInv, Stamped
<1>8. OneCurrent'
  <2>1. \A t, u \in Slots :
          task'[t] # None /\ task'[u] # None /\ task'[t].gen = task'[u].gen => t = u
    BY <1>1 DEF IInv, OneCurrent
  <2>2. \A s \in reads' : s.gen = generation => s = r /\ node # None
    BY <1>1, <1>3 DEF CurrentRead
  <2>3. CurrentRead' => node # None
    BY <1>1, <2>2 DEF CurrentRead
  <2>4. \A q, s \in reads' : q.gen = generation' /\ s.gen = generation' => q = s
    BY <1>1, <2>2
  <2>5. CurrentTask' => ~CurrentRead' /\ ~CurrentClear'
    BY <1>3, <1>6, <2>3 DEF IInv, OneCurrent
  <2>6. CurrentRead' => /\ ~CurrentClear' /\ open' /\ past' = <<>> /\ future' = <<>>
                        /\ node' # None /\ shown' = None /\ runtime' = None
    BY <1>1, <1>2, <1>3, <1>6, <2>3
  <2>7. QED  BY <1>1, <2>1, <2>4, <2>5, <2>6 DEF OneCurrent
<1>9. Heard'
  BY <1>1, <1>2, <1>3 DEF Heard, CurrentTask, IsCurrent
<1>10. ShownInv' /\ UrlInv' /\ CacheInv'
  BY <1>1 DEF IInv, ShownInv, UrlInv, CacheInv, DeletesAfter
<1>11. QED  BY <1>5, <1>7, <1>8, <1>9, <1>10 DEF IInv

LEMMA CloseKeeps == ASSUME IInv, Close PROVE IInv'
<1>1. /\ TypeOK /\ open /\ open' = FALSE /\ shown' = None /\ runtime' = None
      /\ past' = <<>> /\ future' = <<>> /\ node' = node
      /\ deleted' = deleted /\ task' = task /\ reads' = reads /\ chain' = chain
      /\ cache' = cache /\ disturbed' = disturbed /\ undone' = undone
  BY DEF Close, Forget, history, IInv
<1>2. /\ generation' \in Nat /\ Stamped' /\ OneCurrent'
      /\ UrlInv'
  <2>1. CASE node = None
    <3>1. generation' = generation /\ generation \in Nat
      BY <1>1, <2>1, Typed DEF Close
    <3>2. Stamped' /\ UrlInv'
      BY <1>1, <3>1 DEF IInv, Stamped, UrlInv
    <3>3. ~CurrentRead
      BY <2>1 DEF IInv, OneCurrent
    <3>4. /\ CurrentTask' <=> CurrentTask
          /\ CurrentRead' <=> CurrentRead
          /\ CurrentClear' <=> CurrentClear
      BY <1>1, <3>1 DEF CurrentTask, CurrentRead, CurrentClear
    <3>5. OneCurrent'
      BY <1>1, <2>1, <3>1, <3>3, <3>4 DEF IInv, OneCurrent
    <3>6. QED  BY <3>1, <3>2, <3>5
  <2>2. CASE node # None
    <3>1. Outdate
      BY <2>2 DEF Close
    <3>2. /\ generation' \in Nat /\ ~CurrentTask' /\ Stamped' /\ OneCurrent'
      BY <1>1, <3>1, Outdating
    <3>3. UrlInv'
      BY <1>1, <3>2 DEF UrlInv, CurrentTask
    <3>4. QED  BY <3>2, <3>3
  <2>3. QED  BY <2>1, <2>2
<1>3. TypeOK'
  <2>1. past' \in Seq(Configs \cup {None}) /\ future' \in Seq(Configs \cup {None})
        /\ Len(past') + Len(future') <= MaxUndo
    BY <1>1, EmptySeq, MaxUndoAssumption
  <2>2. QED  BY <1>1, <1>2, <2>1 DEF TypeOK
<1>4. Heard' /\ ShownInv'
  BY <1>1 DEF Heard, ShownInv
<1>5. CacheInv'
  BY <1>1 DEF IInv, CacheInv, DeletesAfter
<1>6. QED  BY <1>2, <1>3, <1>4, <1>5 DEF IInv

LEMMA ReloadKeeps == ASSUME IInv, Reload PROVE IInv'
<1>1. /\ TypeOK /\ open' = FALSE /\ shown' = None /\ runtime' = None
      /\ past' = <<>> /\ future' = <<>> /\ node' = node /\ deleted' = FALSE
      /\ task' = [t \in Slots |-> None] /\ reads' = {} /\ chain' = <<>>
      /\ disturbed' = (disturbed \/ chain # <<>>)
      /\ generation' = generation /\ undone' = undone
      /\ cache' = cache \/ (chain # <<>> /\ cache' = Applied(Head(chain)))
  BY DEF Reload, Forget, IInv
<1>2. /\ cache' \in [Configs -> Snapshot \cup {None}]
      /\ \A c \in Configs :
           cache'[c] # None => cache'[c].gen <= generation /\ cache'[c].config = c
  BY <1>1, HeadApplied DEF IInv, TypeOK, Stamped
<1>3. TypeOK'
  <2>1. past' \in Seq(Configs \cup {None}) /\ future' \in Seq(Configs \cup {None})
        /\ Len(past') + Len(future') <= MaxUndo /\ chain' \in Seq(CacheOp)
    BY <1>1, EmptySeq, MaxUndoAssumption
  <2>2. QED  BY <1>1, <1>2, <2>1 DEF TypeOK
<1>4. Len(chain') = 0
  BY <1>1
<1>5. Stamped'
  BY <1>1, <1>2, <1>4 DEF Stamped
<1>6. ~CurrentTask' /\ ~CurrentRead' /\ ~CurrentClear'
  BY <1>1, <1>4 DEF CurrentTask, CurrentRead, CurrentClear
<1>7. OneCurrent'
  BY <1>1, <1>6 DEF OneCurrent
<1>8. Heard' /\ ShownInv' /\ UrlInv'
  BY <1>1 DEF Heard, ShownInv, UrlInv
<1>9. CacheInv'
  <2>1. CASE chain = <<>>
    <3>1. Len(chain) = 0 /\ ~DeletesAfter(0)
      BY <2>1 DEF DeletesAfter
    <3>2. cache' = cache /\ (disturbed' <=> disturbed)
      BY <1>1, <2>1 DEF TypeOK
    <3>3. ~undone /\ ~disturbed => \A c \in Configs : cache[c] # None => cache[c].home = node
      BY <3>1 DEF IInv, CacheInv
    <3>4. QED  BY <1>1, <1>4, <3>2, <3>3 DEF CacheInv
  <2>2. CASE chain # <<>>
    BY <1>1, <2>2 DEF CacheInv
  <2>3. QED  BY <2>1, <2>2
<1>10. QED  BY <1>3, <1>5, <1>7, <1>8, <1>9 DEF IInv

-----------------------------------------------------------------------------
(* Reads of the cache.                                                     *)

LEMMA ReadRowKeeps == ASSUME IInv, NEW r \in reads, ReadRow(r) PROVE IInv'
<1> DEFINE s == [r EXCEPT !.stage = "read", !.row = cache[r.config]]
<1>1. /\ TypeOK /\ open' = open /\ node' = node /\ past' = past /\ future' = future
      /\ shown' = shown /\ runtime' = runtime /\ generation' = generation
      /\ deleted' = deleted /\ task' = task /\ chain' = chain /\ cache' = cache
      /\ disturbed' = disturbed /\ undone' = undone
      /\ reads' = (reads \ {r}) \cup {s}
  BY DEF ReadRow, graph, history, IInv
<1>2. r \in Read /\ r.config \in Configs /\ cache[r.config] \in Snapshot \cup {None}
  BY <1>1 DEF TypeOK, Read
<1>3. /\ s \in Read /\ s.gen = r.gen /\ s.config = r.config /\ s.row = cache[r.config]
  <2> DEFINE p == [r EXCEPT !.stage = "read"]
  <2>1. p \in Read /\ p.stage = "read" /\ p.gen = r.gen /\ p.config = r.config
    BY <1>2 DEF Read
  <2>2. s = [p EXCEPT !.row = cache[r.config]]
    BY <1>2 DEF Read
  <2> HIDE DEF p
  <2>3. QED  BY <1>2, <2>1, <2>2 DEF Read
<1> HIDE DEF s
<1>4. TypeOK'
  BY <1>1, <1>3 DEF TypeOK
<1>5. Stamped'
  BY <1>1, <1>2, <1>3 DEF IInv, Stamped
<1>6. /\ CurrentTask' <=> CurrentTask
      /\ CurrentRead' <=> CurrentRead
      /\ CurrentClear' <=> CurrentClear
  BY <1>1, <1>3 DEF CurrentTask, CurrentRead, CurrentClear
<1>7. OneCurrent'
  <2>1. \A p, q \in reads' : p.gen = generation' /\ q.gen = generation' => p = q
    BY <1>1, <1>3 DEF IInv, OneCurrent
  <2>2. QED  BY <1>1, <1>6, <2>1 DEF IInv, OneCurrent
<1>8. Heard' /\ ShownInv' /\ UrlInv' /\ CacheInv'
  BY <1>1, <1>6 DEF IInv, Heard, IsCurrent, ShownInv, UrlInv, CacheInv, DeletesAfter
<1>9. QED  BY <1>4, <1>5, <1>7, <1>8 DEF IInv

\* A row that is shown is the first thing shown since the project was opened.
LEMMA Showing ==
  ASSUME IInv, NEW r \in reads, ShowRow(r)
  PROVE  \/ shown' = shown /\ runtime' = runtime
         \/ /\ CurrentRead /\ ~CurrentTask /\ ~CurrentClear
            /\ open /\ node = r.config /\ past = <<>> /\ future = <<>>
            /\ shown = None /\ shown' = r.row /\ runtime' = Unheard(r.config)
<1>1. CASE IsCurrent(r) /\ open /\ node = r.config
  <2>1. CurrentRead
    BY <1>1 DEF CurrentRead, IsCurrent
  <2>2. shown' = (IF r.row = None THEN shown ELSE r.row) /\ runtime' = Unheard(r.config)
    BY <1>1 DEF ShowRow
  <2>3. QED  BY <1>1, <2>1, <2>2 DEF IInv, OneCurrent
<1>2. CASE ~(IsCurrent(r) /\ open /\ node = r.config)
  BY <1>2 DEF ShowRow
<1>3. QED  BY <1>1, <1>2

LEMMA ShowRowKeeps == ASSUME IInv, NEW r \in reads, ShowRow(r) PROVE IInv'
<1>1. /\ TypeOK /\ open' = open /\ node' = node /\ past' = past /\ future' = future
      /\ generation' = generation /\ deleted' = deleted /\ task' = task /\ chain' = chain
      /\ cache' = cache /\ disturbed' = disturbed /\ undone' = undone
      /\ reads' = reads \ {r}
  BY DEF ShowRow, graph, history, IInv
<1>2. r.config \in Configs /\ r.row \in Snapshot \cup {None}
  BY <1>1 DEF TypeOK, Read
<1>3. /\ Unheard(r.config) \in Runtime /\ Unheard(r.config).pending = None
      /\ Unheard(r.config) # None
  <2>1. Unheard(r.config) \in Runtime /\ Unheard(r.config).pending = None
    BY <1>2 DEF Unheard, Runtime
  <2>2. QED  BY <2>1, NoneAssumption
<1>4. TypeOK'
  <2>1. shown' \in Snapshot \cup {None} /\ runtime' \in Runtime \cup {None}
    BY <1>1, <1>2, <1>3, Showing DEF TypeOK
  <2>2. QED  BY <1>1, <2>1 DEF TypeOK
<1>5. Stamped'
  BY <1>1, Showing DEF IInv, Stamped
<1>6. /\ CurrentTask' <=> CurrentTask
      /\ CurrentClear' <=> CurrentClear
      /\ CurrentRead' => CurrentRead /\ r.gen # generation
  <2>1. CurrentRead' => CurrentRead /\ r.gen # generation
    BY <1>1 DEF CurrentRead, IInv, OneCurrent
  <2>2. QED  BY <1>1, <2>1 DEF CurrentTask, CurrentClear
<1>7. CurrentRead' => shown' = None /\ runtime' = None
  <2>1. r.gen # generation => shown' = shown /\ runtime' = runtime
    BY DEF ShowRow, IsCurrent
  <2>2. QED  BY <1>6, <2>1 DEF IInv, OneCurrent
<1>8. OneCurrent'
  <2>1. \A p, q \in reads' : p.gen = generation' /\ q.gen = generation' => p = q
    BY <1>1 DEF IInv, OneCurrent
  <2>2. QED  BY <1>1, <1>6, <1>7, <2>1 DEF IInv, OneCurrent
<1>9. CASE shown' = shown /\ runtime' = runtime
  BY <1>1, <1>4, <1>5, <1>6, <1>8, <1>9
     DEF IInv, Heard, IsCurrent, ShownInv, UrlInv, CacheInv, DeletesAfter
<1>10. CASE /\ ~CurrentTask /\ open /\ node = r.config
            /\ past = <<>> /\ future = <<>>
            /\ shown' = r.row /\ runtime' = Unheard(r.config)
  <2>1. r.row # None => r.row.config = r.config
    BY DEF IInv, Stamped
  <2>2. Heard'
    BY <1>1, <1>10 DEF Heard, CurrentTask, IsCurrent
  <2>3. ShownInv'
    BY <1>1, <1>3, <1>6, <1>10 DEF ShownInv
  <2>4. UrlInv'
    BY <1>1, <1>3, <1>10, <2>1 DEF IInv, UrlInv
  <2>5. CacheInv'
    BY <1>1 DEF IInv, CacheInv, DeletesAfter
  <2>6. QED  BY <1>4, <1>5, <1>8, <2>2, <2>3, <2>4, <2>5 DEF IInv
<1>11. QED  BY <1>9, <1>10, Showing

-----------------------------------------------------------------------------
(* The chain of the cache.                                                 *)

LEMMA SettleKeeps == ASSUME IInv, Settle PROVE IInv'
<1>1. /\ TypeOK /\ Stamped /\ chain # <<>> /\ open' = open /\ node' = node
      /\ past' = past /\ future' = future /\ generation' = generation
      /\ deleted' = deleted /\ task' = task /\ reads' = reads /\ undone' = undone
  BY DEF Settle, graph, IInv
<1>2. PICK n \in 1 .. Len(chain) :
         /\ \A i \in 2 .. n : ~Runs(chain[i])
         /\ chain' = SubSeq(chain, n + 1, Len(chain))
  BY DEF Settle
<1>3. /\ chain' \in Seq(CacheOp) /\ Len(chain') = Len(chain) - n
      /\ \A i \in 1 .. Len(chain') : chain'[i] = chain[i + n] /\ i + n \in 1 .. Len(chain)
      /\ Len(chain) \in Nat
  BY <1>1, <1>2, Settling, ChainElements
<1>4. /\ Head(chain) = chain[1] /\ 1 \in 1 .. Len(chain) /\ chain[1] \in CacheOp
      /\ chain[1].kind \in {"write", "clear", "delete"}
  <2>1. 1 \in 1 .. Len(chain) /\ chain[1] \in CacheOp /\ Head(chain) = chain[1]
    BY <1>1, EmptySeq, ChainElements DEF TypeOK
  <2>2. QED  BY <2>1, Operations
<1>5. \/ cache' = Applied(Head(chain)) /\ disturbed' = disturbed
      \/ disturbed' = TRUE /\ cache' = cache
  BY DEF Settle
<1>6. /\ cache' \in [Configs -> Snapshot \cup {None}] /\ disturbed' \in BOOLEAN
      /\ \A c \in Configs :
           cache'[c] # None => cache'[c].gen <= generation /\ cache'[c].config = c
  BY <1>1, <1>5, HeadApplied DEF TypeOK, Stamped
<1>7. \/ /\ CurrentClear
         /\ shown' = None /\ runtime' = Unheard(chain[1].config)
         /\ runtime' \in Runtime /\ runtime'.pending = None /\ runtime' # None
      \/ shown' = shown /\ runtime' = runtime
  <2>1. CASE chain[1].kind = "clear" /\ IsCurrent(chain[1])
    <3>1. CurrentClear
      BY <1>4, <2>1 DEF CurrentClear, IsCurrent
    <3>2. shown' = None /\ runtime' = Unheard(chain[1].config)
      BY <1>4, <2>1 DEF Settle
    <3>3. chain[1].config \in Configs
      BY <1>4, <2>1, Operations
    <3>4. runtime' \in Runtime /\ runtime'.pending = None
      BY <3>2, <3>3 DEF Unheard, Runtime
    <3>5. QED  BY <3>1, <3>2, <3>4, NoneAssumption
  <2>2. CASE ~(chain[1].kind = "clear" /\ IsCurrent(chain[1]))
    BY <1>4, <2>2 DEF Settle
  <2>3. QED  BY <2>1, <2>2
<1>8. TypeOK'
  <2>1. shown' \in Snapshot \cup {None} /\ runtime' \in Runtime \cup {None}
    BY <1>1, <1>7 DEF TypeOK
  <2>2. QED  BY <1>1, <1>3, <1>6, <2>1 DEF TypeOK
<1>9. Stamped'
  <2>1. \A i \in 1 .. Len(chain') :
           /\ chain'[i].kind = "clear" => chain'[i].gen <= generation
           /\ chain'[i].kind = "write" => chain'[i].snap.gen <= generation
    BY <1>1, <1>3 DEF Stamped
  <2>2. shown' # None => shown'.gen <= generation
    BY <1>1, <1>7 DEF Stamped
  <2>3. QED  BY <1>1, <1>6, <2>1, <2>2 DEF Stamped
<1>10. /\ CurrentTask' <=> CurrentTask
       /\ CurrentRead' <=> CurrentRead
       /\ CurrentClear' => CurrentClear
  BY <1>1, <1>3 DEF CurrentTask, CurrentRead, CurrentClear
<1>11. OneCurrent'
  BY <1>1, <1>7, <1>10 DEF IInv, OneCurrent
<1>12. Heard'
  <2>1. CASE CurrentClear
    <3>1. ~CurrentTask
      BY <2>1 DEF IInv, OneCurrent
    <3>2. QED  BY <1>1, <3>1 DEF IInv, Heard, CurrentTask, IsCurrent
  <2>2. CASE shown' = shown /\ runtime' = runtime
    BY <1>1, <2>2 DEF IInv, Heard, IsCurrent
  <2>3. QED  BY <1>7, <2>1, <2>2
<1>13. ShownInv' /\ UrlInv'
  BY <1>1, <1>7, <1>10 DEF IInv, ShownInv, UrlInv
<1>14. CacheInv'
  <2> SUFFICES ASSUME ~undone, ~disturbed' PROVE CacheInv'
    BY <1>1 DEF CacheInv
  <2>1. /\ ~disturbed /\ cache' = Applied(Head(chain))
    BY <1>1, <1>5 DEF TypeOK
  <2>2. \A i \in 0 .. Len(chain') : DeletesAfter(i + n) => DeletesAfter(i)'
    <3> SUFFICES ASSUME NEW i \in 0 .. Len(chain'), NEW j \in i + n + 1 .. Len(chain),
                        chain[j].kind = "delete"
                 PROVE  DeletesAfter(i)'
      BY DEF DeletesAfter
    <3>1. j - n \in i + 1 .. Len(chain') /\ j - n \in 1 .. Len(chain') /\ (j - n) + n = j
      <4>1. n \in Nat /\ i \in Nat /\ j \in Int /\ Len(chain') = Len(chain) - n
        BY <1>2, <1>3
      <4>2. QED  BY <1>3, <4>1
    <3>2. chain'[j - n] = chain[(j - n) + n]
      BY <1>3, <3>1
    <3>3. QED  BY <3>1, <3>2 DEF DeletesAfter
  <2>3. \A i \in 1 .. Len(chain') :
          chain'[i].kind = "write" /\ ~DeletesAfter(i)' => chain'[i].snap.home = node
    BY <1>3, <2>1, <2>2 DEF IInv, CacheInv
  <2>4. ASSUME ~DeletesAfter(0)', NEW c \in Configs, cache'[c] # None
        PROVE  cache'[c].home = node
    <3>1. ~DeletesAfter(1)
      <4>1. ~DeletesAfter(n)
        BY <1>3, <2>2, <2>4
      <4>2. \A i \in 2 .. n : chain[i].kind # "delete"
        BY <1>2 DEF Runs
      <4>3. QED  BY <1>2, <1>3, <4>1, <4>2 DEF DeletesAfter
    <3>2. CASE chain[1].kind = "write" /\ cache'[c] = chain[1].snap
      BY <1>4, <2>1, <3>1, <3>2 DEF IInv, CacheInv
    <3>3. CASE cache'[c] = cache[c] /\ chain[1].kind # "delete"
      <4>1. ~DeletesAfter(0)
        BY <1>3, <3>1, <3>3 DEF DeletesAfter
      <4>2. QED  BY <2>1, <2>4, <3>3, <4>1 DEF IInv, CacheInv
    <3>4. QED  BY <1>1, <2>1, <2>4, <3>2, <3>3, HeadApplied
  <2>5. QED  BY <1>1, <2>3, <2>4 DEF CacheInv
<1>15. QED  BY <1>8, <1>9, <1>11, <1>12, <1>13, <1>14 DEF IInv

-----------------------------------------------------------------------------
(* Edits of the graph.                                                     *)

LEMMA LatestOf ==
  ASSUME NEW q \in Seq(Configs \cup {None}), NEW c \in Configs \cup {None}, Len(q) <= MaxUndo
  PROVE  /\ Latest(Append(q, c)) \in Seq(Configs \cup {None})
         /\ Len(Latest(Append(q, c))) <= MaxUndo
         /\ Len(Latest(Append(q, c))) \in Nat
         /\ Len(Latest(Append(q, c))) <= Len(q) + 1
<1> DEFINE S == Configs \cup {None}
           a == Append(q, c)
<1>1. a \in Seq(S) /\ a # <<>> /\ Len(a) = Len(q) + 1 /\ Len(q) \in Nat
  BY AppendProperties, LenProperties
<1>2. Tail(a) \in Seq(S) /\ Len(Tail(a)) = Len(q)
  <2>1. Len(Tail(a)) = Len(a) - 1 /\ Tail(a) \in Seq(S)
    BY <1>1, HeadTailProperties
  <2>2. QED  BY <1>1, <2>1
<1> HIDE DEF a
<1>3. Latest(a) \in Seq(S) /\ Len(Latest(a)) <= MaxUndo /\ Len(Latest(a)) \in Nat
      /\ Len(Latest(a)) <= Len(q) + 1
  <2>1. CASE Len(a) > MaxUndo
    BY <1>1, <1>2, <2>1 DEF Latest
  <2>2. CASE ~(Len(a) > MaxUndo)
    BY <1>1, <2>2, MaxUndoAssumption DEF Latest
  <2>3. QED  BY <2>1, <2>2
<1>4. QED  BY <1>3 DEF a

\* Nothing that is on the chain when a deletion is queued outlives it.
LEMMA DeletionQueued ==
  ASSUME TypeOK, Enqueue([kind |-> "delete"])
  PROVE  CacheInv'
<1>1. [kind |-> "delete"] \in CacheOp
  BY DEF CacheOp
<1>2. /\ Len(chain') = Len(chain) + 1 /\ Len(chain) \in Nat
      /\ chain'[Len(chain) + 1].kind = "delete"
  BY <1>1, Enqueuing, ChainElements
<1>3. \A i \in 0 .. Len(chain) : DeletesAfter(i)'
  BY <1>2 DEF DeletesAfter
<1>4. \A i \in 1 .. Len(chain') : i \in 0 .. Len(chain) \/ chain'[i].kind = "delete"
  BY <1>2
<1>5. QED  BY <1>2, <1>3, <1>4 DEF CacheInv

\* An edit or a removal: nothing is current or shown, and a deletion is queued.
LEMMA Changing ==
  ASSUME IInv, open, open' = open, Record, Outdate, Enqueue([kind |-> "delete"]), Forget,
         node' \in Configs \cup {None}, deleted' = TRUE,
         UNCHANGED <<task, reads, cache, history>>
  PROVE  IInv'
<1>1. /\ TypeOK /\ shown' = None /\ runtime' = None /\ future' = <<>>
      /\ task' = task /\ reads' = reads /\ cache' = cache
      /\ disturbed' = disturbed /\ undone' = undone
  BY DEF Forget, Record, history, IInv
<1>2. /\ generation' \in Nat /\ chain' \in Seq(CacheOp)
      /\ ~CurrentTask' /\ Stamped' /\ OneCurrent'
  BY <1>1, Outdating
<1>3. past' \in Seq(Configs \cup {None}) /\ future' \in Seq(Configs \cup {None})
      /\ Len(past') + Len(future') <= MaxUndo
  <2>1. /\ past \in Seq(Configs \cup {None}) /\ future \in Seq(Configs \cup {None})
        /\ node \in Configs \cup {None} /\ Len(past) + Len(future) <= MaxUndo
    BY <1>1 DEF TypeOK
  <2>2. Len(past) \in Nat /\ Len(future) \in Nat
    BY <2>1, LenProperties
  <2>3. Len(past) <= MaxUndo
    BY <2>1, <2>2, MaxUndoAssumption
  <2>4. past' = Latest(Append(past, node))
    BY DEF Record
  <2>5. Len(future') = 0 /\ future' \in Seq(Configs \cup {None})
    BY <1>1, EmptySeq
  <2>6. QED  BY <2>1, <2>3, <2>4, <2>5, LatestOf
<1>4. TypeOK'
  BY <1>1, <1>2, <1>3 DEF TypeOK
<1>5. Heard' /\ ShownInv' /\ UrlInv'
  BY <1>1, <1>2 DEF Heard, ShownInv, UrlInv, CurrentTask, IsCurrent
<1>6. CacheInv'
  BY <1>1, DeletionQueued
<1>7. QED  BY <1>2, <1>4, <1>5, <1>6 DEF IInv

LEMMA EditKeeps == ASSUME IInv, NEW c \in Configs, Edit(c) PROVE IInv'
BY Changing DEF Edit, history

LEMMA RemoveKeeps == ASSUME IInv, Remove PROVE IInv'
BY Changing DEF Remove, history

\* Undo and redo turn off what is said of URLs; what is said of generations
\* does not depend on them.
LEMMA Returning ==
  ASSUME IInv, past # <<>> \/ future # <<>>, open,
         node' \in Configs \cup {None},
         past' \in Seq(Configs \cup {None}), future' \in Seq(Configs \cup {None}),
         Len(past') + Len(future') <= MaxUndo, undone' = TRUE,
         UNCHANGED <<open, shown, runtime, generation, deleted, task, reads, chain, cache,
                     disturbed>>
  PROVE  IInv'
<1>1. TypeOK'
  BY DEF IInv, TypeOK
<1>2. Stamped'
  BY DEF IInv, Stamped
<1>3. /\ CurrentTask' <=> CurrentTask
      /\ CurrentRead' <=> CurrentRead
      /\ CurrentClear' <=> CurrentClear
  BY DEF CurrentTask, CurrentRead, CurrentClear
<1>4. OneCurrent'
  BY <1>3 DEF IInv, OneCurrent
<1>5. Heard' /\ ShownInv' /\ UrlInv' /\ CacheInv'
  BY <1>3 DEF IInv, Heard, IsCurrent, ShownInv, UrlInv, CacheInv
<1>6. QED  BY <1>1, <1>2, <1>4, <1>5 DEF IInv

LEMMA UndoKeeps == ASSUME IInv, Undo PROVE IInv'
<1> DEFINE S == Configs \cup {None}
<1>1. /\ past \in Seq(S) /\ future \in Seq(S) /\ node \in S /\ past # <<>>
      /\ Len(past) + Len(future) <= MaxUndo
  BY DEF Undo, IInv, TypeOK
<1>2. Len(past) \in Nat \ {0} /\ Len(future) \in Nat /\ \A i \in 1 .. Len(past) : past[i] \in S
  BY <1>1, EmptySeq, LenProperties, ElementOfSeq
<1>3. node' \in S
  BY <1>2 DEF Undo
<1>4. past' \in Seq(S) /\ Len(past') = Len(past) - 1
  <2>1. 1 \in Int /\ Len(past) - 1 \in Int /\ \A i \in 1 .. Len(past) - 1 : past[i] \in S
    BY <1>2
  <2>2. /\ SubSeq(past, 1, Len(past) - 1) \in Seq(S)
        /\ Len(SubSeq(past, 1, Len(past) - 1))
             = IF 1 <= Len(past) - 1 THEN Len(past) - 1 - 1 + 1 ELSE 0
    BY <2>1, SubSeqProperties
  <2>3. past' = SubSeq(past, 1, Len(past) - 1)
    BY DEF Undo
  <2>4. (IF 1 <= Len(past) - 1 THEN Len(past) - 1 - 1 + 1 ELSE 0) = Len(past) - 1
    BY <1>2
  <2>5. QED  BY <2>2, <2>3, <2>4
<1>5. future' \in Seq(S) /\ Len(future') = Len(future) + 1
  <2>1. <<node>> \in Seq(S) /\ Len(<<node>>) = 1
    BY <1>1
  <2>2. <<node>> \o future \in Seq(S) /\ Len(<<node>> \o future) = 1 + Len(future)
    BY <1>1, <2>1, ConcatProperties
  <2>3. ~(Len(<<node>> \o future) > MaxUndo)
    BY <1>1, <1>2, <2>2, MaxUndoAssumption
  <2>4. future' = <<node>> \o future
    BY <2>3 DEF Undo, Nearest
  <2>5. QED  BY <1>2, <2>2, <2>4
<1>6. Len(past') + Len(future') <= MaxUndo
  BY <1>1, <1>2, <1>4, <1>5, MaxUndoAssumption
<1>7. QED  BY <1>1, <1>3, <1>4, <1>5, <1>6, Returning DEF Undo

LEMMA RedoKeeps == ASSUME IInv, Redo PROVE IInv'
<1> DEFINE S == Configs \cup {None}
<1>1. /\ past \in Seq(S) /\ future \in Seq(S) /\ node \in S /\ future # <<>>
      /\ Len(past) + Len(future) <= MaxUndo
  BY DEF Redo, IInv, TypeOK
<1>2. Len(future) \in Nat \ {0} /\ Len(past) \in Nat
  BY <1>1, EmptySeq, LenProperties
<1>3. node' \in S /\ future' \in Seq(S) /\ Len(future') = Len(future) - 1
  BY <1>1, HeadTailProperties DEF Redo
<1>4. Len(past) <= MaxUndo
  BY <1>1, <1>2, MaxUndoAssumption
<1>5. past' \in Seq(S) /\ Len(past') \in Nat /\ Len(past') <= Len(past) + 1
  BY <1>1, <1>4, LatestOf DEF Redo
<1>6. Len(past') + Len(future') <= MaxUndo
  BY <1>1, <1>2, <1>3, <1>5, MaxUndoAssumption
<1>7. QED  BY <1>1, <1>3, <1>5, <1>6, Returning DEF Redo

-----------------------------------------------------------------------------
(* Refreshes.                                                              *)

\* A call that begins is the only current one.
LEMMA Beginning ==
  ASSUME IInv, NEW t \in Slots, task[t] = None, open, node # None, Outdate,
         deleted' \in BOOLEAN,
         NEW c \in Task, c.gen = generation', c.config = node, c.stage # "fetching",
         task' = [task EXCEPT ![t] = c],
         UNCHANGED <<open, graph, shown, runtime, reads, chain, cache, history>>
  PROVE  IInv'
<1>1. /\ TypeOK /\ Stamped /\ generation \in Nat /\ generation' = generation + 1
      /\ open' = open /\ node' = node /\ past' = past /\ future' = future /\ shown' = shown
      /\ runtime' = runtime /\ reads' = reads /\ chain' = chain /\ cache' = cache
      /\ disturbed' = disturbed /\ undone' = undone
  BY Typed DEF Outdate, graph, history, IInv
<1>2. c.gen = generation + 1
  BY <1>1
<1>3. TypeOK'
  <2>1. task' \in [Slots -> Task \cup {None}]
    BY <1>1, <1>2 DEF TypeOK
  <2>2. generation' \in Nat
    BY <1>1
  <2>3. QED  BY <1>1, <2>1, <2>2 DEF TypeOK
<1>4. \A u \in Slots : task'[u] # None =>
         \/ u = t /\ task'[u] = c
         \/ u # t /\ task'[u] = task[u] /\ task[u].gen \in Nat /\ task[u].gen <= generation
  BY <1>1, Typed DEF TypeOK, Stamped
<1>5. \A i \in 1 .. Len(chain) :
         /\ chain[i].kind = "clear" => chain[i].gen \in Nat
         /\ chain[i].kind = "write" => chain[i].snap.gen \in Nat
  BY <1>1, ChainElements, Operations DEF Snapshot
<1>6. Stamped'
  BY <1>1, <1>2, <1>4, <1>5, Typed DEF Stamped
<1>7. ~CurrentRead' /\ ~CurrentClear'
  BY <1>1, <1>5, Typed DEF CurrentRead, CurrentClear, Stamped
<1>8. OneCurrent'
  <2>1. \A u, v \in Slots :
          task'[u] # None /\ task'[v] # None /\ task'[u].gen = task'[v].gen => u = v
    BY <1>1, <1>2, <1>4 DEF IInv, OneCurrent
  <2>2. QED  BY <1>1, <1>7, <2>1 DEF OneCurrent, CurrentRead
<1>9. Heard'
  BY <1>1, <1>2, <1>4 DEF IInv, Heard, IsCurrent
<1>10. ShownInv'
  BY <1>1, Typed DEF IInv, ShownInv, Stamped
<1>11. UrlInv'
  BY <1>1, <1>2, <1>4 DEF IInv, UrlInv
<1>12. CacheInv'
  BY <1>1 DEF IInv, CacheInv, DeletesAfter
<1>13. QED  BY <1>3, <1>6, <1>8, <1>9, <1>10, <1>11, <1>12 DEF IInv

LEMMA RefreshKeeps == ASSUME IInv, NEW t \in Slots, Refresh(t) PROVE IInv'
<1> DEFINE c == [stage |-> "hashing", gen |-> generation', config |-> node,
                 captured |-> IF shown = None THEN None ELSE shown.quality]
<1>1. c \in Task
  <2>1. TypeOK /\ generation' \in Nat /\ node \in Configs
    BY Typed DEF Refresh, Outdate, IInv, TypeOK
  <2>2. QED  BY <2>1 DEF TypeOK, Task, Snapshot
<1>2. QED  BY <1>1, Beginning DEF Refresh

LEMMA AdoptKeeps == ASSUME IInv, NEW t \in Slots, Adopt(t) PROVE IInv'
<1> DEFINE c == [stage |-> "adopting", gen |-> generation', config |-> node,
                 captured |-> None]
<1>1. c \in Task /\ deleted' \in BOOLEAN
  <2>1. generation' \in Nat /\ node \in Configs /\ deleted' \in BOOLEAN
    BY Typed DEF Adopt, Outdate, IInv, TypeOK
  <2>2. QED  BY <2>1 DEF Task
<1>2. QED  BY <1>1, Beginning DEF Adopt

LEMMA StartKeeps == ASSUME IInv, NEW t \in Slots, Start(t) PROVE IInv'
<1>1. /\ TypeOK /\ task[t] # None /\ task[t].gen = generation
      /\ task' = [task EXCEPT ![t].stage = "fetching"]
      /\ shown' = shown \/ shown' = None
      /\ runtime' = [config |-> task[t].config, heard |-> task[t].gen, pending |-> None]
      /\ open' = open /\ node' = node /\ past' = past /\ future' = future
      /\ generation' = generation /\ deleted' = deleted /\ reads' = reads /\ chain' = chain
      /\ cache' = cache /\ disturbed' = disturbed /\ undone' = undone
  BY DEF Start, IsCurrent, graph, history, IInv
<1>2. CurrentTask /\ ~CurrentRead /\ ~CurrentClear
  BY <1>1 DEF CurrentTask, IInv, OneCurrent
<1>3. task[t] \in Task
  BY <1>1, Typed
<1>4. /\ task'[t] \in Task /\ task'[t].gen = task[t].gen /\ task'[t].config = task[t].config
      /\ \A u \in Slots : u # t => task'[u] = task[u]
      /\ task' \in [Slots -> Task \cup {None}]
  BY <1>1, <1>3 DEF TypeOK, Task
<1>5. runtime' \in Runtime /\ runtime'.heard = generation /\ runtime'.pending = None
  BY <1>1, <1>3 DEF Runtime, Task
<1>6. runtime' # None
  BY <1>5, NoneAssumption
<1>7. TypeOK'
  BY <1>1, <1>4, <1>5 DEF TypeOK
<1>8. Stamped'
  BY <1>1, <1>4 DEF IInv, Stamped
<1>9. CurrentTask' /\ ~CurrentRead' /\ ~CurrentClear'
  <2>1. task'[t] # None
    BY <1>4, NoneAssumption
  <2>2. QED  BY <1>1, <1>2, <1>4, <2>1 DEF CurrentTask, CurrentRead, CurrentClear
<1>10. OneCurrent'
  <2>1. \A u, v \in Slots :
          task'[u] # None /\ task'[v] # None /\ task'[u].gen = task'[v].gen => u = v
    BY <1>1, <1>4 DEF IInv, OneCurrent
  <2>2. node # None => open
    BY <1>2 DEF IInv, OneCurrent
  <2>3. QED  BY <1>1, <1>9, <2>1, <2>2 DEF OneCurrent, CurrentRead
<1>11. Heard'
  BY <1>1, <1>4, <1>5, <1>6 DEF IInv, Heard, OneCurrent, IsCurrent
<1>12. ShownInv'
  BY <1>1, <1>2, <1>5 DEF IInv, ShownInv
<1>13. UrlInv'
  BY <1>1, <1>4, <1>5 DEF IInv, UrlInv
<1>14. CacheInv'
  BY <1>1 DEF IInv, CacheInv, DeletesAfter
<1>15. QED  BY <1>7, <1>8, <1>10, <1>11, <1>12, <1>13, <1>14 DEF IInv

\* A refresh that returns leaves the others, and none of them is current if it
\* was.
LEMMA Finishing ==
  ASSUME IInv, NEW t \in Slots, task[t] # None, Return(t), generation' = generation
  PROVE  /\ task' \in [Slots -> Task \cup {None}]
         /\ \A u \in Slots : task'[u] # None => u # t /\ task'[u] = task[u]
         /\ CurrentTask' => CurrentTask
         /\ task[t].gen = generation => CurrentTask /\ ~CurrentTask'
<1>1. task' = [task EXCEPT ![t] = None] /\ task \in [Slots -> Task \cup {None}]
  BY DEF Return, IInv, TypeOK
<1>2. \A u \in Slots : task'[u] # None => u # t /\ task'[u] = task[u]
  BY <1>1
<1>3. CurrentTask' => CurrentTask
  BY <1>2 DEF CurrentTask
<1>4. task[t].gen = generation => CurrentTask /\ ~CurrentTask'
  BY <1>2 DEF CurrentTask, IInv, OneCurrent
<1>5. QED  BY <1>1, <1>2, <1>3, <1>4

LEMMA GiveUpKeeps == ASSUME IInv, NEW t \in Slots, GiveUp(t) PROVE IInv'
<1>1. /\ TypeOK /\ task[t] # None /\ Return(t)
      /\ open' = open /\ node' = node /\ past' = past /\ future' = future /\ shown' = shown
      /\ runtime' = runtime /\ generation' = generation /\ deleted' = deleted
      /\ reads' = reads /\ chain' = chain /\ cache' = cache
      /\ disturbed' = disturbed /\ undone' = undone
  BY DEF GiveUp, graph, history, IInv
<1>2. /\ task' \in [Slots -> Task \cup {None}]
      /\ \A u \in Slots : task'[u] # None => task'[u] = task[u]
      /\ CurrentTask' => CurrentTask
  BY <1>1, Finishing
<1>3. TypeOK'
  BY <1>1, <1>2 DEF TypeOK
<1>4. Stamped'
  BY <1>1, <1>2 DEF IInv, Stamped
<1>5. (CurrentRead' <=> CurrentRead) /\ (CurrentClear' <=> CurrentClear)
  BY <1>1 DEF CurrentRead, CurrentClear
<1>6. OneCurrent'
  <2>1. \A u, v \in Slots :
          task'[u] # None /\ task'[v] # None /\ task'[u].gen = task'[v].gen => u = v
    BY <1>2 DEF IInv, OneCurrent
  <2>2. QED  BY <1>1, <1>2, <1>5, <2>1 DEF IInv, OneCurrent
<1>7. Heard'
  BY <1>1, <1>2 DEF IInv, Heard, IsCurrent
<1>8. ShownInv' /\ UrlInv'
  BY <1>1, <1>2 DEF IInv, ShownInv, UrlInv
<1>9. CacheInv'
  BY <1>1 DEF IInv, CacheInv, DeletesAfter
<1>10. QED  BY <1>3, <1>4, <1>6, <1>7, <1>8, <1>9 DEF IInv

\* Saving a snapshot of the source: the chain may get a write of it.
LEMMA Writing ==
  ASSUME IInv, NEW snap \in Snapshot, NEW g \in Nat,
         snap.gen <= generation, ~undone => snap.home = node,
         chain' = chain \/ Enqueue([kind |-> "write", gen |-> g, snap |-> snap]),
         UNCHANGED <<node, generation, cache, history>>
  PROVE  /\ chain' \in Seq(CacheOp)
         /\ CurrentClear' => CurrentClear
         /\ \A i \in 1 .. Len(chain') :
              /\ chain'[i].kind = "clear" => chain'[i].gen <= generation
              /\ chain'[i].kind = "write" => chain'[i].snap.gen <= generation
         /\ CacheInv'
<1> DEFINE op == [kind |-> "write", gen |-> g, snap |-> snap]
<1>1. /\ TypeOK /\ node' = node /\ generation' = generation /\ cache' = cache
      /\ disturbed' = disturbed /\ undone' = undone
  BY DEF history, IInv
<1>2. CASE chain' = chain
  BY <1>1, <1>2 DEF IInv, TypeOK, Stamped, CurrentClear, CacheInv, DeletesAfter
<1>3. CASE Enqueue(op)
  <2>1. op \in CacheOp /\ op.kind = "write" /\ op.snap = snap
    BY DEF CacheOp
  <2> HIDE DEF op
  <2>2. /\ chain' \in Seq(CacheOp) /\ Len(chain') = Len(chain) + 1 /\ Len(chain) \in Nat
        /\ \A i \in 1 .. Len(chain) : chain'[i] = chain[i]
        /\ chain'[Len(chain) + 1] = op
        /\ \A i \in 1 .. Len(chain') : i \in 1 .. Len(chain) \/ i = Len(chain) + 1
    BY <1>1, <1>3, <2>1, Enqueuing, ChainElements
  <2>3. CurrentClear' => CurrentClear
    BY <1>1, <2>1, <2>2 DEF CurrentClear
  <2>4. \A i \in 1 .. Len(chain') :
           /\ chain'[i].kind = "clear" => chain'[i].gen <= generation
           /\ chain'[i].kind = "write" => chain'[i].snap.gen <= generation
    BY <1>1, <2>1, <2>2 DEF IInv, Stamped
  <2>5. \A i \in 0 .. Len(chain) : DeletesAfter(i) => DeletesAfter(i)'
    <3>1. \A j \in 1 .. Len(chain) : j \in 1 .. Len(chain') /\ chain'[j] = chain[j]
      BY <2>2
    <3>2. \A i \in 0 .. Len(chain), j \in Nat :
             j \in i + 1 .. Len(chain) => j \in 1 .. Len(chain) /\ j \in i + 1 .. Len(chain')
      BY <2>2
    <3>3. QED  BY <2>2, <3>1, <3>2 DEF DeletesAfter
  <2>6. CacheInv'
    <3> SUFFICES ASSUME ~undone, ~disturbed PROVE CacheInv'
      BY <1>1 DEF CacheInv
    <3>1. \A i \in 1 .. Len(chain') :
             chain'[i].kind = "write" /\ ~DeletesAfter(i)' => chain'[i].snap.home = node
      BY <2>1, <2>2, <2>5 DEF IInv, CacheInv
    <3>2. ~DeletesAfter(0)' => \A c \in Configs : cache[c] # None => cache[c].home = node
      BY <2>2, <2>5 DEF IInv, CacheInv
    <3>3. QED  BY <1>1, <3>1, <3>2 DEF CacheInv
  <2>7. QED  BY <2>2, <2>3, <2>4, <2>6
<1>4. QED  BY <1>2, <1>3

LEMMA ResultIs ==
  ASSUME NEW c \in Task, NEW q \in Quality
  PROVE  /\ Result(c, q) \in Snapshot /\ Result(c, q) # None
         /\ Result(c, q).gen = c.gen /\ Result(c, q).home = c.config
<1>1. /\ Result(c, q) \in Snapshot
      /\ Result(c, q).gen = c.gen /\ Result(c, q).home = c.config
  BY DEF Result, Snapshot, Task
<1>2. QED  BY <1>1, NoneAssumption

\* The end of a refresh that is current: what the store shows and asks is no
\* newer than the refresh, and what it saves is of the refresh.
LEMMA Ending ==
  ASSUME IInv, NEW t \in Slots, task[t] # None, IsCurrent(task[t]), Return(t),
         NEW q \in Quality,
         \/ shown' = shown /\ runtime' = runtime
         \/ /\ open /\ node # None /\ runtime # None
            /\ \/ shown' = Result(task[t], q) /\ runtime' = [runtime EXCEPT !.pending = None]
               \/ shown' = shown /\ runtime' = [runtime EXCEPT !.pending = Result(task[t], q)],
         chain' = chain
           \/ Enqueue([kind |-> "write", gen |-> task[t].gen, snap |-> Result(task[t], q)]),
         UNCHANGED <<open, graph, generation, deleted, reads, cache, history>>
  PROVE  IInv'
<1> DEFINE res == Result(task[t], q)
<1>1. /\ TypeOK /\ open' = open /\ node' = node /\ past' = past /\ future' = future
      /\ generation' = generation /\ deleted' = deleted /\ reads' = reads /\ cache' = cache
      /\ disturbed' = disturbed /\ undone' = undone
  BY DEF graph, history, IInv
<1>2. task[t] \in Task /\ task[t].gen = generation /\ generation \in Nat
  BY <1>1, Typed DEF IsCurrent
<1>3. /\ task' \in [Slots -> Task \cup {None}]
      /\ \A u \in Slots : task'[u] # None => task'[u] = task[u]
      /\ CurrentTask /\ ~CurrentTask'
  BY <1>1, <1>2, Finishing
<1>4. ~CurrentRead /\ ~CurrentClear
  BY <1>3 DEF IInv, OneCurrent
<1>5. res \in Snapshot /\ res # None /\ res.gen = generation /\ res.home = task[t].config
  BY <1>2, ResultIs
<1>6. ~undone => res.home = node
  BY <1>2, <1>5 DEF IInv, UrlInv
<1> HIDE DEF res
<1>7. /\ chain' \in Seq(CacheOp)
      /\ ~CurrentClear'
      /\ \A i \in 1 .. Len(chain') :
           /\ chain'[i].kind = "clear" => chain'[i].gen <= generation
           /\ chain'[i].kind = "write" => chain'[i].snap.gen <= generation
      /\ CacheInv'
  <2>1. chain' = chain \/ Enqueue([kind |-> "write", gen |-> generation, snap |-> res])
    BY <1>2 DEF res
  <2>2. UNCHANGED <<node, generation, cache, history>>
    BY <1>1 DEF history
  <2>3. res.gen <= generation
    BY <1>2, <1>5
  <2>4. QED  BY <1>2, <1>4, <1>5, <1>6, <2>1, <2>2, <2>3, Writing
<1>8. \/ shown' = shown /\ runtime' = runtime
      \/ /\ open /\ node # None /\ runtime # None /\ runtime' \in Runtime /\ runtime' # None
         /\ runtime'.heard = runtime.heard
         /\ \/ shown' = res /\ runtime'.pending = None
            \/ shown' = shown /\ runtime'.pending = res
  <2>1. runtime # None => runtime \in Runtime
    BY <1>1, Typed
  <2>2. CASE shown' = shown /\ runtime' = runtime
    BY <2>2
  <2>3. CASE /\ open /\ node # None /\ runtime # None
             /\ shown' = res /\ runtime' = [runtime EXCEPT !.pending = None]
    <3>1. /\ runtime' \in Runtime /\ runtime'.heard = runtime.heard
          /\ runtime'.pending = None
      BY <2>1, <2>3 DEF Runtime
    <3>2. QED  BY <2>3, <3>1, NoneAssumption
  <2>4. CASE /\ open /\ node # None /\ runtime # None
             /\ shown' = shown /\ runtime' = [runtime EXCEPT !.pending = res]
    <3>1. /\ runtime' \in Runtime /\ runtime'.heard = runtime.heard
          /\ runtime'.pending = res
      BY <1>5, <2>1, <2>4 DEF Runtime
    <3>2. QED  BY <2>4, <3>1, NoneAssumption
  <2>5. QED  BY <2>2, <2>3, <2>4 DEF res
<1>9. TypeOK'
  <2>1. shown' \in Snapshot \cup {None} /\ runtime' \in Runtime \cup {None}
    BY <1>1, <1>5, <1>8 DEF TypeOK
  <2>2. QED  BY <1>1, <1>3, <1>7, <2>1 DEF TypeOK
<1>10. Stamped'
  <2>1. shown' # None => shown'.gen <= generation
    BY <1>2, <1>5, <1>8 DEF IInv, Stamped
  <2>2. \A u \in Slots : task'[u] # None => task'[u].gen <= generation
    BY <1>3 DEF IInv, Stamped
  <2>3. QED  BY <1>1, <1>7, <2>1, <2>2 DEF IInv, Stamped
<1>11. OneCurrent'
  <2>1. \A u, v \in Slots :
          task'[u] # None /\ task'[v] # None /\ task'[u].gen = task'[v].gen => u = v
    BY <1>3 DEF IInv, OneCurrent
  <2>2. ~CurrentRead'
    BY <1>1, <1>4 DEF CurrentRead
  <2>3. QED  BY <1>1, <1>3, <1>7, <2>1, <2>2 DEF OneCurrent, CurrentRead
<1>12. Heard'
  BY <1>1, <1>3 DEF IInv, Heard, CurrentTask, IsCurrent
<1>13. ShownInv'
  <2>1. shown # None => shown.gen < generation
    BY <1>3 DEF IInv, ShownInv
  <2>2. QED  BY <1>1, <1>2, <1>3, <1>5, <1>8, <2>1 DEF IInv, ShownInv
<1>14. UrlInv'
  BY <1>1, <1>3, <1>5, <1>6, <1>8 DEF IInv, UrlInv, CurrentTask
<1>15. QED  BY <1>7, <1>9, <1>10, <1>11, <1>12, <1>13, <1>14 DEF IInv

LEMMA CommitKeeps == ASSUME IInv, NEW t \in Slots, Commit(t) PROVE IInv'
<1>1. /\ task[t] # None /\ IsCurrent(task[t]) /\ Return(t)
      /\ UNCHANGED <<open, graph, generation, deleted, reads, cache, history>>
  BY DEF Commit
<1>2. PICK q \in Quality :
         /\ IF Listening(task[t])
              THEN /\ shown' = Result(task[t], q)
                   /\ runtime' = [runtime EXCEPT !.pending = None]
              ELSE UNCHANGED <<shown, runtime>>
         /\ IF deleted THEN UNCHANGED chain
            ELSE Enqueue([kind |-> "write", gen |-> task[t].gen, snap |-> Result(task[t], q)])
  BY DEF Commit
<1>3. \/ shown' = shown /\ runtime' = runtime
      \/ /\ open /\ node # None /\ runtime # None
         /\ shown' = Result(task[t], q) /\ runtime' = [runtime EXCEPT !.pending = None]
  BY <1>2 DEF Listening
<1>4. chain' = chain
        \/ Enqueue([kind |-> "write", gen |-> task[t].gen, snap |-> Result(task[t], q)])
  BY <1>2
<1>5. QED  BY <1>1, <1>3, <1>4, Ending

LEMMA OfferKeeps == ASSUME IInv, NEW t \in Slots, Offer(t) PROVE IInv'
<1>1. /\ task[t] # None /\ IsCurrent(task[t]) /\ Return(t) /\ chain' = chain
      /\ UNCHANGED <<open, graph, generation, deleted, reads, cache, history>>
  BY DEF Offer
<1>2. \/ shown' = shown /\ runtime' = runtime
      \/ /\ open /\ node # None /\ runtime # None
         /\ shown' = shown
         /\ runtime' = [runtime EXCEPT !.pending = Result(task[t], "empty")]
  BY DEF Offer, Listening
<1>3. "empty" \in Quality
  BY DEF Quality
<1>4. QED  BY <1>1, <1>2, <1>3, Ending

LEMMA AdoptedKeeps == ASSUME IInv, NEW t \in Slots, Adopted(t) PROVE IInv'
<1>1. /\ TypeOK /\ task[t] # None /\ task[t].gen = generation /\ Return(t)
      /\ open /\ node # None
      /\ open' = open /\ node' = node /\ past' = past /\ future' = future
      /\ generation' = generation /\ deleted' = deleted /\ reads' = reads /\ cache' = cache
      /\ disturbed' = disturbed /\ undone' = undone
  BY DEF Adopted, IsCurrent, graph, history, IInv
<1>2. generation \in Nat /\ node \in Configs
  BY <1>1, Typed DEF TypeOK
<1>3. PICK row \in [gen : {task[t].gen}, config : Configs, quality : Quality, home : {node}] :
         /\ shown' = row /\ runtime' = Unheard(row.config)
         /\ chain' = chain \/ Enqueue([kind |-> "write", gen |-> 0, snap |-> row])
  BY DEF Adopted
<1>4. row \in Snapshot /\ row.gen = generation /\ row.home = node /\ row.config \in Configs
  BY <1>1, <1>2, <1>3 DEF Snapshot
<1>5. /\ task' \in [Slots -> Task \cup {None}]
      /\ \A u \in Slots : task'[u] # None => task'[u] = task[u]
      /\ CurrentTask /\ ~CurrentTask'
  BY <1>1, Finishing
<1>6. ~CurrentRead /\ ~CurrentClear
  BY <1>5 DEF IInv, OneCurrent
<1>7. /\ chain' \in Seq(CacheOp)
      /\ ~CurrentClear'
      /\ \A i \in 1 .. Len(chain') :
           /\ chain'[i].kind = "clear" => chain'[i].gen <= generation
           /\ chain'[i].kind = "write" => chain'[i].snap.gen <= generation
      /\ CacheInv'
  <2>1. UNCHANGED <<node, generation, cache, history>> /\ 0 \in Nat
    BY <1>1 DEF history
  <2>2. row.gen <= generation
    BY <1>2, <1>4
  <2>3. QED  BY <1>3, <1>4, <1>6, <2>1, <2>2, Writing
<1>8. runtime' \in Runtime /\ runtime'.pending = None
  BY <1>3, <1>4 DEF Unheard, Runtime
<1>9. TypeOK'
  BY <1>1, <1>3, <1>4, <1>5, <1>7, <1>8 DEF TypeOK
<1>10. Stamped'
  <2>1. shown' # None => shown'.gen <= generation
    BY <1>2, <1>3, <1>4
  <2>2. \A u \in Slots : task'[u] # None => task'[u].gen <= generation
    BY <1>5 DEF IInv, Stamped
  <2>3. QED  BY <1>1, <1>7, <2>1, <2>2 DEF IInv, Stamped
<1>11. OneCurrent'
  <2>1. \A u, v \in Slots :
          task'[u] # None /\ task'[v] # None /\ task'[u].gen = task'[v].gen => u = v
    BY <1>5 DEF IInv, OneCurrent
  <2>2. ~CurrentRead'
    BY <1>1, <1>6 DEF CurrentRead
  <2>3. QED  BY <1>1, <1>5, <1>7, <2>1, <2>2 DEF OneCurrent, CurrentRead
<1>12. Heard'
  BY <1>1, <1>5 DEF IInv, Heard, CurrentTask, IsCurrent
<1>13. ShownInv'
  BY <1>1, <1>5, <1>8 DEF ShownInv
<1>14. UrlInv'
  BY <1>1, <1>3, <1>4, <1>5, <1>8 DEF UrlInv, CurrentTask
<1>15. QED  BY <1>7, <1>9, <1>10, <1>11, <1>12, <1>13, <1>14 DEF IInv

-----------------------------------------------------------------------------
(* The answers of the user.                                                *)

LEMMA KeepCurrentKeeps == ASSUME IInv, KeepCurrent PROVE IInv'
<1>1. /\ TypeOK /\ runtime # None /\ runtime' = [runtime EXCEPT !.pending = None]
      /\ open' = open /\ node' = node /\ past' = past /\ future' = future /\ shown' = shown
      /\ generation' = generation /\ deleted' = deleted /\ task' = task /\ reads' = reads
      /\ chain' = chain /\ cache' = cache /\ disturbed' = disturbed /\ undone' = undone
  BY DEF KeepCurrent, graph, history, IInv
<1>2. runtime \in Runtime
  BY <1>1, Typed
<1>3. /\ runtime' \in Runtime /\ runtime'.heard = runtime.heard /\ runtime'.pending = None
      /\ runtime' # None
  <2>1. runtime' \in Runtime /\ runtime'.heard = runtime.heard /\ runtime'.pending = None
    BY <1>1, <1>2 DEF Runtime
  <2>2. QED  BY <2>1, NoneAssumption
<1>4. TypeOK' /\ Stamped'
  BY <1>1, <1>3 DEF IInv, TypeOK, Stamped
<1>5. /\ CurrentTask' <=> CurrentTask
      /\ CurrentRead' <=> CurrentRead
      /\ CurrentClear' <=> CurrentClear
  BY <1>1 DEF CurrentTask, CurrentRead, CurrentClear
<1>6. OneCurrent'
  BY <1>1, <1>5 DEF IInv, OneCurrent
<1>7. Heard' /\ ShownInv' /\ UrlInv'
  BY <1>1, <1>3, <1>5 DEF IInv, Heard, IsCurrent, ShownInv, UrlInv
<1>8. CacheInv'
  BY <1>1 DEF IInv, CacheInv, DeletesAfter
<1>9. QED  BY <1>4, <1>6, <1>7, <1>8 DEF IInv

LEMMA ApplyEmptyKeeps == ASSUME IInv, ApplyEmpty PROVE IInv'
<1> DEFINE res == runtime.pending
<1>1. /\ TypeOK /\ open /\ runtime # None /\ res # None
      /\ shown' = res /\ runtime' = [runtime EXCEPT !.pending = None]
      /\ open' = open /\ node' = node /\ past' = past /\ future' = future
      /\ generation' = generation /\ deleted' = deleted /\ task' = task /\ reads' = reads
      /\ cache' = cache /\ disturbed' = disturbed /\ undone' = undone
  BY DEF ApplyEmpty, graph, history, IInv
<1>2. /\ runtime \in Runtime /\ runtime.heard \in Nat /\ res \in Snapshot
      /\ res.gen <= generation /\ (CurrentTask => res.gen < generation)
      /\ ~undone => res.home = node
  BY <1>1, Typed DEF IInv, ShownInv, UrlInv
<1>3. /\ runtime' \in Runtime /\ runtime'.heard = runtime.heard /\ runtime'.pending = None
      /\ runtime' # None
  <2>1. runtime' \in Runtime /\ runtime'.heard = runtime.heard /\ runtime'.pending = None
    BY <1>1, <1>2 DEF Runtime
  <2>2. QED  BY <2>1, NoneAssumption
<1>4. /\ chain' \in Seq(CacheOp)
      /\ CurrentClear' => CurrentClear
      /\ \A i \in 1 .. Len(chain') :
           /\ chain'[i].kind = "clear" => chain'[i].gen <= generation
           /\ chain'[i].kind = "write" => chain'[i].snap.gen <= generation
      /\ CacheInv'
  <2>1. chain' = chain
          \/ Enqueue([kind |-> "write", gen |-> runtime.heard, snap |-> res])
    BY DEF ApplyEmpty
  <2>2. UNCHANGED <<node, generation, cache, history>>
    BY <1>1 DEF history
  <2> HIDE DEF res
  <2>3. QED  BY <1>2, <2>1, <2>2, Writing
<1> HIDE DEF res
<1>5. TypeOK'
  BY <1>1, <1>2, <1>3, <1>4 DEF TypeOK
<1>6. Stamped'
  BY <1>1, <1>2, <1>4 DEF IInv, Stamped
<1>7. /\ CurrentTask' <=> CurrentTask
      /\ CurrentRead' <=> CurrentRead
      /\ ~CurrentRead
  BY <1>1 DEF CurrentTask, CurrentRead, IInv, OneCurrent
<1>8. OneCurrent'
  BY <1>1, <1>4, <1>7 DEF IInv, OneCurrent
<1>9. Heard' /\ ShownInv' /\ UrlInv'
  BY <1>1, <1>2, <1>3, <1>7 DEF IInv, Heard, IsCurrent, ShownInv, UrlInv
<1>10. QED  BY <1>4, <1>5, <1>6, <1>8, <1>9 DEF IInv

LEMMA ClearCacheKeeps == ASSUME IInv, ClearCache PROVE IInv'
<1> DEFINE op == [kind |-> "clear", gen |-> generation',
                  config |-> IF runtime = None THEN node ELSE runtime.config]
<1>1. /\ TypeOK /\ Stamped /\ open /\ node # None /\ Enqueue(op)
      /\ generation \in Nat /\ generation' = generation + 1
      /\ open' = open /\ node' = node /\ past' = past /\ future' = future /\ shown' = shown
      /\ runtime' = runtime /\ deleted' = deleted /\ task' = task /\ reads' = reads
      /\ cache' = cache /\ disturbed' = disturbed /\ undone' = undone
  BY Typed DEF ClearCache, Outdate, graph, history, IInv
<1>2. op \in CacheOp /\ op.kind = "clear" /\ op.gen = generation + 1
  <2>1. (IF runtime = None THEN node ELSE runtime.config) \in Configs
    BY <1>1 DEF TypeOK, Runtime
  <2>2. generation' \in Nat
    BY <1>1
  <2>3. QED  BY <1>1, <2>1, <2>2 DEF CacheOp
<1> HIDE DEF op
<1>3. /\ chain' \in Seq(CacheOp) /\ Len(chain') = Len(chain) + 1 /\ Len(chain) \in Nat
      /\ \A i \in 1 .. Len(chain) : chain'[i] = chain[i]
      /\ chain'[Len(chain) + 1] = op
      /\ \A i \in 1 .. Len(chain') : i \in 1 .. Len(chain) \/ i = Len(chain) + 1
  BY <1>1, <1>2, Enqueuing, ChainElements
<1>4. \A i \in 1 .. Len(chain) :
         /\ chain[i].kind = "clear" => chain[i].gen \in Nat
         /\ chain[i].kind = "write" => chain[i].snap.gen \in Nat
  BY <1>1, ChainElements, Operations DEF Snapshot
<1>5. TypeOK'
  <2>1. generation' \in Nat
    BY <1>1
  <2>2. QED  BY <1>1, <1>3, <2>1 DEF TypeOK
<1>6. Stamped'
  <2>1. \A i \in 1 .. Len(chain') :
           /\ chain'[i].kind = "clear" => chain'[i].gen <= generation'
           /\ chain'[i].kind = "write" => chain'[i].snap.gen <= generation'
    BY <1>1, <1>2, <1>3, <1>4 DEF Stamped
  <2>2. QED  BY <1>1, <2>1, Typed DEF Stamped
<1>7. ~CurrentTask' /\ ~CurrentRead'
  BY <1>1, Typed DEF CurrentTask, CurrentRead, Stamped
<1>8. OneCurrent'
  <2>1. \A t, u \in Slots :
          task'[t] # None /\ task'[u] # None /\ task'[t].gen = task'[u].gen => t = u
    BY <1>1 DEF IInv, OneCurrent
  <2>2. QED  BY <1>1, <1>7, <2>1 DEF OneCurrent, CurrentRead
<1>9. Heard' /\ ShownInv' /\ UrlInv'
  <2>1. Heard'
    BY <1>1, <1>7 DEF Heard, CurrentTask, IsCurrent
  <2>2. ShownInv'
    BY <1>1, <1>7, Typed DEF IInv, ShownInv
  <2>3. UrlInv'
    BY <1>1, <1>7 DEF IInv, UrlInv, CurrentTask
  <2>4. QED  BY <2>1, <2>2, <2>3
<1>10. CacheInv'
  <2>1. \A i \in 0 .. Len(chain) : DeletesAfter(i) => DeletesAfter(i)'
    <3>1. \A j \in 1 .. Len(chain) : j \in 1 .. Len(chain') /\ chain'[j] = chain[j]
      BY <1>3
    <3>2. \A i \in 0 .. Len(chain), j \in Nat :
             j \in i + 1 .. Len(chain) => j \in 1 .. Len(chain) /\ j \in i + 1 .. Len(chain')
      BY <1>3
    <3>3. QED  BY <1>3, <3>1, <3>2 DEF DeletesAfter
  <2>2. ASSUME ~undone, ~disturbed
        PROVE  /\ \A i \in 1 .. Len(chain') :
                    chain'[i].kind = "write" /\ ~DeletesAfter(i)' => chain'[i].snap.home = node
               /\ ~DeletesAfter(0)' => \A c \in Configs : cache[c] # None => cache[c].home = node
    BY <1>2, <1>3, <2>1, <2>2 DEF IInv, CacheInv
  <2>3. QED  BY <1>1, <2>2 DEF CacheInv
<1>11. QED  BY <1>5, <1>6, <1>8, <1>9, <1>10 DEF IInv

-----------------------------------------------------------------------------
(* The invariant, and what follows from it.                                *)

LEMMA InitIInv == Init => IInv
<1> SUFFICES ASSUME Init PROVE IInv
  OBVIOUS
<1>1. /\ open = FALSE /\ node \in Configs /\ past = <<>> /\ future = <<>>
      /\ shown = None /\ runtime = None /\ generation = 0 /\ deleted = FALSE
      /\ task = [t \in Slots |-> None] /\ reads = {} /\ chain = <<>>
      /\ disturbed = FALSE /\ undone = FALSE
  BY DEF Init
<1>2. PICK s \in {None, [gen |-> 0, config |-> node, quality |-> "usable",
                        home |-> node]} :
         cache = [c \in Configs |-> IF c = node THEN s ELSE None]
  BY DEF Init
<1>3. s # None => s \in Snapshot /\ s.gen = 0 /\ s.config = node /\ s.home = node
  BY <1>1, <1>2 DEF Snapshot, Quality
<1>4. /\ cache \in [Configs -> Snapshot \cup {None}]
      /\ \A c \in Configs : cache[c] # None =>
           cache[c].gen = 0 /\ cache[c].config = c /\ cache[c].home = node
  BY <1>2, <1>3
<1>5. TypeOK
  <2>1. past \in Seq(Configs \cup {None}) /\ future \in Seq(Configs \cup {None})
        /\ Len(past) + Len(future) <= MaxUndo /\ chain \in Seq(CacheOp)
    BY <1>1, EmptySeq, MaxUndoAssumption
  <2>2. QED  BY <1>1, <1>4, <2>1 DEF TypeOK
<1>6. Len(chain) = 0
  BY <1>1
<1>7. ~CurrentTask /\ ~CurrentRead /\ ~CurrentClear
  BY <1>1, <1>6 DEF CurrentTask, CurrentRead, CurrentClear
<1>8. Stamped
  BY <1>1, <1>4, <1>6 DEF Stamped
<1>9. OneCurrent
  BY <1>1, <1>7 DEF OneCurrent
<1>10. Heard /\ ShownInv /\ UrlInv /\ CacheInv
  BY <1>1, <1>4, <1>6 DEF Heard, ShownInv, UrlInv, CacheInv
<1>11. QED  BY <1>5, <1>8, <1>9, <1>10 DEF IInv

LEMMA StepKeeps == ASSUME IInv, [Next]_vars PROVE IInv'
<1>1. CASE UNCHANGED vars
  BY <1>1 DEF vars, graph, history, IInv, TypeOK, Stamped, OneCurrent, CurrentTask,
              CurrentRead, CurrentClear, Heard, IsCurrent, ShownInv, UrlInv, CacheInv,
              DeletesAfter
<1>2. CASE Open \/ Close \/ Reload
  BY <1>2, OpenKeeps, CloseKeeps, ReloadKeeps
<1>3. CASE \E r \in reads : ReadRow(r) \/ ShowRow(r)
  BY <1>3, ReadRowKeeps, ShowRowKeeps
<1>4. CASE Settle
  BY <1>4, SettleKeeps
<1>5. CASE (\E c \in Configs : Edit(c)) \/ Remove \/ Undo \/ Redo
  BY <1>5, EditKeeps, RemoveKeeps, UndoKeeps, RedoKeeps
<1>6. CASE \E t \in Slots : \/ Refresh(t) \/ Start(t) \/ Commit(t) \/ Offer(t) \/ GiveUp(t)
                            \/ Adopt(t) \/ Adopted(t)
  BY <1>6, RefreshKeeps, StartKeeps, CommitKeeps, OfferKeeps, GiveUpKeeps, AdoptKeeps,
     AdoptedKeeps
<1>7. CASE ApplyEmpty \/ KeepCurrent \/ ClearCache
  BY <1>7, ApplyEmptyKeeps, KeepCurrentKeeps, ClearCacheKeeps
<1>8. QED  BY <1>1, <1>2, <1>3, <1>4, <1>5, <1>6, <1>7 DEF Next

LEMMA Invariance == Spec => []IInv
<1>1. Init => IInv
  BY InitIInv
<1>2. IInv /\ [Next]_vars => IInv'
  BY StepKeeps
<1>3. QED  BY <1>1, <1>2, PTL DEF Spec

\* The store, the reads, the refreshes, the chain and the rows are well typed,
\* and the undo history keeps its length.
THEOREM TypeCorrect == Spec => []TypeOK
<1>1. IInv => TypeOK
  BY DEF IInv
<1>2. QED  BY <1>1, Invariance, PTL

\* The refresh that may commit is the one that the store listens to.
THEOREM TheCurrentIsHeard == Spec => []CurrentIsHeard
<1>1. IInv => CurrentIsHeard
  BY DEF IInv, Heard, CurrentIsHeard
<1>2. QED  BY <1>1, Invariance, PTL

\* Until undo or redo are used the snapshot shown is of the project that is
\* open and of the URL that its source has.
THEOREM EditsShowTheirUrl == Spec => []ShownIsOfEditedUrl
<1>1. IInv => ShownIsOfEditedUrl
  BY DEF IInv, ShownInv, UrlInv, ShownIsOfEditedUrl, ShownIsOfThisUrl
<1>2. QED  BY <1>1, Invariance, PTL

\* Once all is settled, the rows of earlier URLs are gone.
THEOREM SettledCacheIsCurrent == Spec => []OnlyCurrentIsCached
<1>1. IInv => OnlyCurrentIsCached
  <2> SUFFICES ASSUME IInv, chain = <<>>, ~disturbed, ~undone
               PROVE  \A c \in Configs : cache[c] # None => cache[c].home = node
    BY DEF OnlyCurrentIsCached
  <2>1. ~DeletesAfter(0)
    BY DEF DeletesAfter
  <2>2. QED  BY <2>1 DEF IInv, CacheInv
<1>2. QED  BY <1>1, Invariance, PTL

\* What is shown is replaced by newer snapshots only.
THEOREM ShownIsReplacedByNewer == Spec => ShownMovesForward
<1> DEFINE Replaced == shown # None /\ shown' # None /\ shown' # shown
           Newer == shown'.gen > shown.gen
<1>1. IInv /\ [Next]_vars => (Replaced => Newer)
  <2> SUFFICES ASSUME IInv, [Next]_vars, Replaced PROVE Newer
    OBVIOUS
  <2>1. CASE \E t \in Slots : Commit(t)
    <3>1. PICK t \in Slots : Commit(t)
      BY <2>1
    <3>2. task[t] # None /\ task[t].gen = generation /\ task[t] \in Task
      BY <3>1, Typed DEF Commit, IsCurrent, IInv
    <3>3. shown.gen < generation
      BY <3>2 DEF IInv, ShownInv, CurrentTask
    <3>4. \E q \in Quality : shown' = Result(task[t], q)
      BY <3>1 DEF Commit
    <3>5. shown'.gen = generation
      BY <3>2, <3>4, ResultIs
    <3>6. QED  BY <3>3, <3>5, Typed DEF IInv
  <2>2. CASE ApplyEmpty
    BY <2>2, Typed DEF ApplyEmpty, IInv, ShownInv
  <2>3. CASE \E r \in reads : ShowRow(r)
    BY <2>3, Showing
  <2>4. CASE \E t \in Slots : Adopted(t)
    <3>1. PICK t \in Slots : Adopted(t)
      BY <2>4
    <3>2. task[t] # None /\ task[t].gen = generation
      BY <3>1 DEF Adopted, IsCurrent
    <3>3. shown.gen < generation
      BY <3>2 DEF IInv, ShownInv, CurrentTask
    <3>4. shown'.gen = generation
      BY <3>1, <3>2 DEF Adopted
    <3>5. QED  BY <3>3, <3>4, Typed DEF IInv
  <2>5. \/ shown' = None \/ shown' = shown \/ ApplyEmpty
        \/ (\E t \in Slots : Commit(t) \/ Adopted(t))
        \/ (\E r \in reads : ShowRow(r))
    <3>1. CASE UNCHANGED vars
      BY <3>1 DEF vars
    <3>2. CASE \E t \in Slots : \/ Refresh(t) \/ Start(t) \/ Commit(t) \/ Offer(t) \/ GiveUp(t)
                                \/ Adopt(t) \/ Adopted(t)
      BY <3>2 DEF Refresh, Start, Offer, GiveUp, Adopt
    <3>3. CASE \E r \in reads : ReadRow(r) \/ ShowRow(r)
      BY <3>3 DEF ReadRow
    <3>4. CASE Open \/ Close \/ Reload \/ Settle
      BY <3>4 DEF Open, Close, Reload, Settle, Forget
    <3>5. CASE (\E c \in Configs : Edit(c)) \/ Remove \/ Undo \/ Redo
      BY <3>5 DEF Edit, Remove, Undo, Redo, Forget
    <3>6. CASE ApplyEmpty \/ KeepCurrent \/ ClearCache
      BY <3>6 DEF KeepCurrent, ClearCache
    <3>7. QED  BY <3>1, <3>2, <3>3, <3>4, <3>5, <3>6 DEF Next
  <2>6. QED  BY <2>1, <2>2, <2>3, <2>4, <2>5
<1>2. IInv /\ [Next]_vars => [Replaced => Newer]_shown
  BY <1>1
<1>3. QED  BY <1>2, Invariance, PTL DEF Spec, ShownMovesForward
=============================================================================
