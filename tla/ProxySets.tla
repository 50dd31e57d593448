------------------------------ MODULE ProxySets ------------------------------
(***************************************************************************)
(* Proxy sets: the data edges of the project graph, as the canvas and the  *)
(* workspace edit them, and the evaluation of the sets they describe.      *)
(*                                                                         *)
(* `edges' is the array of data edges, whose order decides what a node     *)
(* takes first; `nodes' and `off' are the nodes of the graph and those     *)
(* that are disabled; `unresolved' the sources without a snapshot.  Every  *)
(* edit calls record().  Undo returns to graphs already reached and is     *)
(* left out.                                                               *)
(*                                                                         *)
(* materializeProxySet() runs to its end without an await, so it is a      *)
(* function here: it takes the cache of its context and returns it with    *)
(* its answer.  A filter, a rename and a sort differ from a limit only in  *)
(* what they do to the list they are given.                                *)
(***************************************************************************)
EXTENDS Naturals, FiniteSets, SequencesExt

CONSTANTS
    Sources, Merges, Limits, Deduplicates, Strategies,  \* nodes by kind
    Proxies,      \* parsed proxies; each has an id of its own
    Fingerprint,  \* what a proxy is without its id and name
    Content,      \* the proxies of each source, a sequence
    MaxProxies,   \* `max' of the limit nodes
    Starts,       \* arrays of edges a stored project may hold
    MaxEdges,     \* bound on the edges
    MaxEdits      \* bound on the edits

Transforms == Merges \cup Limits \cup Deduplicates
Nodes == Sources \cup Transforms \cup Strategies
Edge(a, b) == [from |-> a, to |-> b]
Edges == [from : Nodes, to : Nodes]

ASSUME NodesAssumption == IsFiniteSet(Nodes) /\ Sources \cap (Transforms \cup Strategies) = {}
ASSUME ContentAssumption ==
    /\ Content \in [Sources -> Seq(Proxies)]
    /\ \A s \in Sources : IsInjective(Content[s])
ASSUME StartsAssumption == Starts \subseteq Seq(Edges)
ASSUME BoundsAssumption == {MaxProxies, MaxEdges, MaxEdits} \subseteq Nat

VARIABLES edges, nodes, off, unresolved, edits

vars == <<edges, nodes, off, unresolved, edits>>

TypeOK ==
    /\ edges \in Seq(Edges)
    /\ nodes \subseteq Nodes /\ off \subseteq Nodes
    /\ unresolved \subseteq Sources
    /\ edits \in 0 .. MaxEdits

-----------------------------------------------------------------------------
(* Paths along edges.                                                      *)

(* The nodes from which an edge of es leads into S. *)
Upstream(es, S) == {e.from : e \in {x \in es : x.to \in S}}

(* All nodes from which a path of one edge or more of es leads to n. *)
Above(es, n) ==
    LET reach[k \in 0 .. Cardinality(Nodes)] ==
            IF k = 0 THEN Upstream(es, {n})
            ELSE LET r == reach[k - 1] IN r \cup Upstream(es, r)
    IN  reach[Cardinality(Nodes)]

detectDataCycles(s) == \E n \in Nodes : n \in Above(ToSet(s), n)

(* Array.filter: the edges of s that are in W. *)
Keeping(s, W) ==
    LET kept[k \in 0 .. Len(s)] ==
            IF k = 0 THEN <<>>
            ELSE LET before == kept[k - 1]
                 IN  IF s[k] \in W THEN Append(before, s[k]) ELSE before
    IN  kept[Len(s)]

From(s, n) == {k \in DOMAIN s : s[k].from = n}
To(s, n) == {k \in DOMAIN s : s[k].to = n}

-----------------------------------------------------------------------------
(* Compilation: the transforms of the intermediate representation.         *)

incomingProxySetRefs(n) ==
    LET into == Keeping(edges, [from : Nodes, to : {n}])
    IN  [k \in DOMAIN into |-> into[k].from]

(* A node that takes one set takes the first, one that has none is left out*)
Compiled ==
    {n \in (Transforms \cap nodes) \ off : n \in Merges \/ To(edges, n) # {}}

InputsOf(n) ==
    IF n \in Merges THEN incomingProxySetRefs(n) ELSE <<Head(incomingProxySetRefs(n))>>

Exists(n) == n \in Compiled \/ n \in (Sources \cap nodes) \ off

(* The part of compileGraph and validateIR that is about proxy sets; a     *)
(* strategy that takes one set may have more inputs in the code, here they *)
(* exist too.                                                              *)
GraphCompiles ==
    /\ ~detectDataCycles(edges)
    /\ \A n \in (Transforms \cap nodes) \ off :
          /\ n \in Compiled
          /\ n \in Merges => Len(InputsOf(n)) >= 2
          /\ \A k \in DOMAIN InputsOf(n) : Exists(InputsOf(n)[k])
    /\ \A g \in (Strategies \cap nodes) \ off :
          /\ incomingProxySetRefs(g) # <<>>
          /\ \A k \in DOMAIN incomingProxySetRefs(g) : Exists(incomingProxySetRefs(g)[k])

-----------------------------------------------------------------------------
(* materialize.ts and lineage.ts                                           *)

Ready(proxies) == [status |-> "ready", proxies |-> proxies]
Failed == [status |-> "error", proxies |-> <<>>]

(* The proxies of s without those whose key an earlier one has. *)
FirstOfEach(s, key) ==
    LET kept[k \in 0 .. Len(s)] ==
            IF k = 0 THEN <<>>
            ELSE LET before == kept[k - 1]
                 IN  IF \E i \in DOMAIN before : key[before[i]] = key[s[k]]
                     THEN before ELSE Append(before, s[k])
    IN  kept[Len(s)]

Processed(n, proxies) ==
    CASE n \in Limits -> SubSeq(proxies, 1, IF Len(proxies) < MaxProxies THEN Len(proxies) ELSE MaxProxies)
      [] n \in Deduplicates -> FirstOfEach(proxies, Fingerprint)
      [] OTHER -> proxies

(* materializeMerge and materializeSingle, from the answers of the inputs. *)
Combined(n, answers) ==
    IF \E k \in DOMAIN answers : answers[k].status = "error" THEN Failed
    ELSE Ready(Processed(n, FlattenSeq([k \in DOMAIN answers |-> answers[k].proxies])))

(* A source, or a transform that is not in the intermediate representation.*)
PlainAnswer(ref) ==
    IF ref \in Sources /\ Exists(ref) /\ ref \notin unresolved THEN Ready(Content[ref]) ELSE Failed

(* Mutant of OnCycle: a set that is under way counts as empty. *)
OnCycleEmpty == Ready(<<>>)

(* PROXY_SET_CYCLE: the set is asked for while it is under way. *)
OnCycle == Failed

(* The cache of a context: what it has answered, or not been asked yet. *)
NotAsked == [status |-> "none", proxies |-> <<>>]
Caches == [Nodes -> [status : {"none", "ready", "error"}, proxies : Seq(Proxies)]]
NothingAsked == [n \in Nodes |-> NotAsked]

Cached(ref, answer, cache) == [answer |-> answer, cache |-> [cache EXCEPT ![ref] = answer]]

(* The sets are asked for in turn, each with the cache the one before left.*)
AskAll(ask, refs, cache) ==
    LET sofar[k \in 0 .. Len(refs)] ==
            IF k = 0 THEN [answers |-> <<>>, cache |-> cache]
            ELSE LET before == sofar[k - 1]
                     r == ask[refs[k]][before.cache]
                 IN  [answers |-> Append(before.answers, r.answer), cache |-> r.cache]
    IN  sofar[Len(refs)]

(* The answer is cached on every way out.  That of a set on a cycle is     *)
(* cached while the set is under way, and again when it is done.           *)
materializeProxySet[stack \in SUBSET Nodes] ==
    [ref \in Nodes |-> [cache \in Caches |->
        LET inputs == AskAll(materializeProxySet[stack \cup {ref}], InputsOf(ref), cache)
        IN  IF cache[ref] # NotAsked THEN [answer |-> cache[ref], cache |-> cache]
            ELSE IF ref \in stack THEN Cached(ref, OnCycle, cache)
            ELSE IF ref \in Compiled THEN Cached(ref, Combined(ref, inputs.answers), inputs.cache)
            ELSE Cached(ref, PlainAnswer(ref), cache)]]

(* The answers to several questions in one context, as deriveProjectRuntime*)
(* and the target compilers ask them.                                      *)
AnswersTo(refs) == AskAll(materializeProxySet[{}], refs, NothingAsked).answers

(* analyzeProxySetLineage: the sources of a set, whether several are mixed *)
(* in it, what is done to it, and whether there is a cycle.                *)
LineageOf(sources, mixed, operations, cycle) ==
    [sources |-> sources, mixed |-> mixed, operations |-> operations, cycle |-> cycle]

analyzeLineage[stack \in SUBSET Nodes] ==
    [ref \in Nodes |->
        LET upstream == {analyzeLineage[stack \cup {ref}][i] : i \in ToSet(InputsOf(ref))}
            sources == UNION {u.sources : u \in upstream}
        IN  IF ref \in stack THEN LineageOf({}, FALSE, {}, TRUE)
            ELSE IF ref \in Compiled
            THEN LineageOf(sources, Cardinality(sources) > 1,
                           {ref} \cup UNION {u.operations : u \in upstream},
                           \E u \in upstream : u.cycle)
            ELSE LineageOf({ref} \cap {s \in Sources : Exists(s)}, FALSE, {}, FALSE)]

Lineage(ref) == analyzeLineage[{}][ref]

-----------------------------------------------------------------------------
(* remoteSourcePlanner.ts: whether a target loads a source by itself or    *)
(* gets the proxies of its snapshot.  A source is exported as its mode     *)
(* says, "local" when it has no URL; a "provider" of an older project names*)
(* a URL that only clients load and has no snapshot.  `portable' says      *)
(* whether the target loads remote sources at all and with the request     *)
(* profile in question.                                                    *)

Modes == {"auto", "remote", "materialized", "local", "provider"}
SourceModes == {m \in [Sources -> Modes] : \A s \in Sources : m[s] = "provider" => s \in unresolved}
Consumers == {"group", "chain-hop"}    \* "fixed" is refused like a hop

(* Mutant of LoadsAll: what is done to the proxies is forgotten. *)
LoadsAllUnprocessed(lineage) == Cardinality(lineage.sources) = 1 /\ lineage.sources \cap unresolved = {}

(* What the target would load is the set: one source, and nothing done to it*)
LoadsAll(lineage) ==
    /\ ~lineage.mixed /\ Cardinality(lineage.sources) = 1
    /\ lineage.sources \cap unresolved = {}
    /\ lineage.operations = {}

planRemoteProxySource(lineage, modes, portable, consumer) ==
    LET remote == {s \in lineage.sources : modes[s] \notin {"local", "provider"}}
    IN  IF \A s \in remote : modes[s] = "materialized" THEN "materialized"
        ELSE IF remote = lineage.sources /\ LoadsAll(lineage) /\ consumer = "group" /\ portable
        THEN "native-remote"
        ELSE IF \E s \in remote : modes[s] = "remote" THEN "unsupported" ELSE "materialized"

(* The names of a group: a proxy has one, and two edges from one source    *)
(* name each of its proxies once.                                          *)
Named(answer) ==
    IF answer = Failed THEN Failed ELSE Ready(FirstOfEach(answer.proxies, [p \in Proxies |-> p]))

(* resolveProxySet of the Mihomo compiler: what a client gets for a set    *)
(* whose lineage is given, with its materialized answer.                   *)
resolveProxySet(ref, modes, lineage, answer, plan) ==
    IF ref \in Sources /\ modes[ref] = "provider" THEN Ready(Content[ref])
    ELSE CASE plan = "unsupported" -> Failed
           [] plan = "native-remote" -> Ready(Content[CHOOSE s \in lineage.sources : TRUE])
           [] plan = "materialized" -> Named(answer)

-----------------------------------------------------------------------------
(* The editor.                                                             *)

Init ==
    /\ edges \in Starts
    /\ nodes = Nodes
    /\ off = {}
    /\ unresolved \in SUBSET Sources
    /\ edits = 0

Edit == edits < MaxEdits /\ edits' = edits + 1

SetEdges(es) == Edit /\ Len(es) <= MaxEdges /\ edges' = es /\ UNCHANGED <<nodes, off, unresolved>>

(* Data edges go from sources and transforms to transforms and strategies. *)
isConnectionAllowed(a, b) ==
    /\ {a, b} \subseteq nodes
    /\ a # b
    /\ a \in Sources \cup Transforms
    /\ b \in Transforms \cup Strategies

(* connect, on the canvas: nothing keeps a second edge or a cycle out. *)
Connect(a, b) == isConnectionAllowed(a, b) /\ SetEdges(Append(edges, Edge(a, b)))

(* onEdgesChange, removing an edge. *)
Disconnect(k) == SetEdges(RemoveAt(edges, k))

(* Mutant of canUseWorkspaceInput: only the edges into the node are seen. *)
canUseWorkspaceInputNear(a, n) ==
    isConnectionAllowed(a, n) /\ ~\E k \in DOMAIN edges : edges[k] = Edge(n, a)

canUseWorkspaceInput(a, n) ==
    isConnectionAllowed(a, n) /\ n \notin Above(ToSet(edges), a)

(* setWorkspaceInputs: the inputs of n become those of the sequence, in    *)
(* this order, unless their number is the same as before and none is new.  *)
(* The picker of a node that takes one set offers no second.               *)
SetInputs(n, inputs) ==
    LET elsewhere == Keeping(edges, [from : Nodes, to : Nodes \ {n}])
        now == incomingProxySetRefs(n)
    IN  /\ n \in (Transforms \cup Strategies) \cap nodes
        /\ Len(inputs) >= 2 => n \in Merges \cup Strategies
        /\ \A k \in DOMAIN inputs : canUseWorkspaceInput(inputs[k], n)
        /\ ~(Len(now) = Len(inputs) /\ ToSet(now) \subseteq ToSet(inputs))
        /\ SetEdges(elsewhere \o [k \in DOMAIN inputs |-> Edge(inputs[k], n)])

(* Mutant of resolveProcessingSwap: the neighbours may have other edges. *)
resolveProcessingSwapShared(s, u, d) ==
    /\ {u, d} \subseteq Transforms
    /\ Cardinality(To(s, u)) <= 1 /\ Cardinality(From(s, d)) <= 1
    /\ \E k \in DOMAIN s : s[k] = Edge(u, d)
    /\ u \notin Above(ToSet(s), u)

(* The steps u and d follow each other on a line: u has at most one input, *)
(* d at most one output, and the edge between them is the only one of      *)
(* either.  A transform before or after them has no other edge there.      *)
resolveProcessingSwap(s, u, d) ==
    /\ {u, d} \subseteq Transforms
    /\ Cardinality(To(s, u)) <= 1 /\ Cardinality(From(s, d)) <= 1
    /\ Cardinality(From(s, u)) = 1 /\ To(s, d) = From(s, u)
    /\ d \notin Above(ToSet(s), u)
    /\ \A k \in To(s, u) : s[k].from \in Transforms => Cardinality(From(s, s[k].from)) = 1
    /\ \A k \in From(s, d) : s[k].to \in Transforms => Cardinality(To(s, s[k].to)) = 1

Swapped(s, u, d) ==
    [k \in DOMAIN s |->
        CASE k \in To(s, u) -> Edge(s[k].from, d)
          [] k \in From(s, u) -> Edge(d, u)
          [] k \in From(s, d) -> Edge(u, s[k].to)
          [] OTHER -> s[k]]

(* moveProcessingStep: "down" swaps with the first node behind, "up" with  *)
(* the first before; both come to the same swap of a pair of steps.        *)
MoveStep(u, d) ==
    /\ resolveProcessingSwap(edges, u, d)
    /\ SetEdges(Swapped(edges, u, d))

(* updateNodeData: a node is disabled or enabled. *)
ToggleDisabled(n) ==
    /\ n \in nodes
    /\ Edit
    /\ off' = (off \cup {n}) \ (off \cap {n})
    /\ UNCHANGED <<edges, nodes, unresolved>>

(* removeNode takes the edges of the node along. *)
RemoveNode(n) ==
    /\ n \in nodes
    /\ Edit
    /\ nodes' = nodes \ {n}
    /\ edges' = Keeping(edges, [from : Nodes \ {n}, to : Nodes \ {n}])
    /\ UNCHANGED <<off, unresolved>>

(* The inputs a user may pick, at most two of them. *)
Picks == {<<>>} \cup {<<a>> : a \in Nodes} \cup {<<p[1], p[2]>> : p \in {q \in Nodes \X Nodes : q[1] # q[2]}}

Next ==
    \/ \E a, b \in Nodes : Connect(a, b)
    \/ \E k \in DOMAIN edges : Disconnect(k)
    \/ \E n \in Nodes, inputs \in Picks : SetInputs(n, inputs)
    \/ \E u, d \in Transforms : MoveStep(u, d)
    \/ \E n \in Nodes : ToggleDisabled(n)
    \/ \E n \in Nodes : RemoveNode(n)

Spec == Init /\ [][Next]_vars

-----------------------------------------------------------------------------
(* What must hold.                                                         *)

Used == UNION {{Edge(i, n) : i \in ToSet(InputsOf(n))} : n \in Compiled}

OnACycle(n) == n \in Above(Used, n)

(* What flows to a set from its sources down, where no cycle is above it:  *)
(* less and less is above what is above it.                                *)
flow[above \in SUBSET Nodes] ==
    [n \in Nodes |->
        LET upstream(i) == IF Above(Used, i) \subseteq above /\ Above(Used, i) # above
                           THEN flow[Above(Used, i)][i] ELSE <<>>
        IN  CASE n \in Sources -> Content[n]
              [] n \in Compiled -> Processed(n, FlattenSeq([k \in DOMAIN InputsOf(n) |-> upstream(InputsOf(n)[k])]))
              [] OTHER -> <<>>]

Flow(n) == flow[Above(Used, n)][n]

(* What a set contains: the flow from its sources down, if all that is     *)
(* above it exists, is resolved and lies on no cycle.                      *)
RightAnswer(n) ==
    IF \A x \in Above(Used, n) \cup {n} : Exists(x) /\ x \notin unresolved /\ ~OnACycle(x)
    THEN Ready(Flow(n)) ELSE Failed

Orders == SetToSeqs(Transforms)

(* In whatever order the sets are asked for in one context, each answer is *)
(* the one it would have alone: no answer given while a cycle was being    *)
(* followed stays in the cache, every set below a cycle fails, and no set  *)
(* beside it does (materialize.ts 30-128).  A project that compiles fails  *)
(* only for sources that are not resolved (validateGraphStructure.ts 35-66,*)
(* validateIR.ts 90-112), and the lineage from which remote sources are    *)
(* planned agrees on cycles and sources (lineage.ts 17-58).                *)
AnswersAreRight ==
    /\ \A order \in Orders :
          AnswersTo(order) = [k \in DOMAIN order |-> RightAnswer(order[k])]
    /\ GraphCompiles =>
          \A n \in Compiled : RightAnswer(n) = Failed => Above(Used, n) \cap unresolved # {}
    /\ \A n \in Transforms :
          LET above == Above(Used, n) \cup {n}
              lineage == Lineage(n)
          IN  /\ lineage.cycle <=> \E x \in above : OnACycle(x)
              /\ lineage.sources = {x \in above \cap Sources : Exists(x)}

(* However the sources are to be exported and whatever the target can load,*)
(* a client that gets a set gets what the set contains: the list itself    *)
(* where the client loads it, and elsewhere each proxy once and in order.  *)
(* It gets nothing only if the set fails or a source must be loaded and    *)
(* cannot.  What the user forbids to load is not loaded, what must be      *)
(* loaded is not replaced by its snapshot, and a hop of a chain gets       *)
(* proxies (remoteSourcePlanner.ts 46-125, targets/mihomo/providers.ts     *)
(* 24-50).                                                                 *)
ExportKeepsTheSet ==
    \A n \in {x \in Sources \cup Transforms : Exists(x)} :
        LET lineage == Lineage(n)
            answer == AnswersTo(<<n>>)[1]
            right == RightAnswer(n)
            origins == {s \in Sources \cap (Above(Used, n) \cup {n}) : Exists(s)}
        IN  \A modes \in SourceModes, portable \in BOOLEAN, consumer \in Consumers :
                LET plan == planRemoteProxySource(lineage, modes, portable, consumer)
                    mode == {modes[s] : s \in origins}
                    gets == resolveProxySet(n, modes, lineage, answer, plan)
                IN  /\ gets \in {Failed, IF n \in Sources /\ modes[n] = "provider" THEN Ready(Flow(n))
                                         ELSE IF plan = "native-remote" THEN right ELSE Named(right)}
                    /\ gets = Failed => right = Failed \/ "remote" \in mode
                    /\ plan = "native-remote" => mode \subseteq {"auto", "remote"} /\ consumer = "group"
                    /\ plan = "materialized" => "remote" \notin mode

(* Only a connection drawn on the canvas can close a cycle: inputs picked  *)
(* in the workspace and moves of a step cannot, however many inputs are    *)
(* set at once.  A move exchanges two steps, leaves what is above every    *)
(* other node as it was, and the opposite move takes it back exactly       *)
(* (useBuilderStore.ts 472-505, processingPipeline.ts 51-120).             *)
EditsKeepTheFlow ==
    [][/\ detectDataCycles(edges') /\ ~detectDataCycles(edges) =>
              /\ \E a, b \in Nodes : Connect(a, b)
              /\ ~\E n \in Nodes, inputs \in Picks : SetInputs(n, inputs)
       /\ \A u, d \in Transforms : MoveStep(u, d) =>
              /\ \A n \in Nodes \ {u, d} : Above(ToSet(edges'), n) = Above(ToSet(edges), n)
              /\ Above(ToSet(edges'), u) = (Above(ToSet(edges), d) \ {u}) \cup {d}
              /\ resolveProcessingSwap(edges', d, u)
              /\ Swapped(edges', d, u) = edges]_vars
=============================================================================
