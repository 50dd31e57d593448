---------------------------- MODULE RoutingRules ----------------------------
(***************************************************************************)
(* Routing: the rules of the editor, their order, and what the five target *)
(* compilers make of them.                                                 *)
(*                                                                         *)
(* A rule is matched before another one in three places that compute the   *)
(* order on their own: the routing page (rankWorkspaceRoutingRules), the   *)
(* graph compiler (rankRoutingRules) and each target's rule emitter, after *)
(* which the client has an order of its own. A target that cannot keep the *)
(* order or a rule must refuse the project.                                *)
(*                                                                         *)
(* `rules' is the sequence of the routing nodes in insertion order,        *)
(* `strategies' the state of the two strategy nodes a rule may name ("s"   *)
(* of the universal kinds, "n" native to Surge) and `final' the target of  *)
(* the Final node. Undo and redo return to a graph that was reached by     *)
(* these edits, so they add none and are left out, with the history that   *)
(* record() keeps for them.                                                *)
(***************************************************************************)
EXTENDS Naturals, FiniteSets, SequencesExt

CONSTANTS
    Ids,          \* ids of routing nodes
    Kinds,        \* matchers the user picks, a subset of MatcherKinds
    Starts,       \* rule sequences a stored project may hold when it is opened
    MaxRules,     \* bound on the routing nodes of the graph
    MaxEdits      \* bound on the edits of a behaviour

VARIABLES
    rules,        \* <<[id, kind, filled, target, priority, disabled], ...>>
    strategies,   \* [{"s", "n"} -> {"on", "off", "gone"}]
    final,        \* target of the Final node
    edits         \* number of edits made

vars == <<rules, strategies, final, edits>>

ASSUME BoundsAssumption == MaxRules \in Nat /\ MaxEdits \in Nat

Services == {"service-a", "service-b"}
LocalKinds == {"domain", "ip", "geo-ip", "geo-site", "asn", "port", "rule-set"}
MatcherKinds == Services \cup LocalKinds \cup {"lan", "source-port"}
Strategies == {"s", "n"}
RouteTargets == {"direct", "reject"} \cup Strategies
Targets == {"mihomo", "sing-box", "surge", "loon", "shadowrocket"}
Unset == 0        \* routePriority absent
None == "none"    \* targetId absent

RoutingNodes == [id: Ids, kind: MatcherKinds, filled: BOOLEAN, priority: Nat,
                 target: RouteTargets \cup {None}, disabled: BOOLEAN]

ASSUME KindsAssumption == Kinds \subseteq MatcherKinds

(* The nodes of a graph: no two have the same id. *)
WellFormed(rs) ==
    /\ rs \in Seq(RoutingNodes)
    /\ Len(rs) <= MaxRules
    /\ \A i, j \in DOMAIN rs : i # j => rs[i].id # rs[j].id

ASSUME StartsAssumption == \A rs \in Starts : WellFormed(rs)

-----------------------------------------------------------------------------
(* The two rankings: routeProductModel.ts.                                 *)

(* Array.filter: what stands at the places K of s, in their order. *)
At(s, K) ==
    LET kept[n \in 0 .. Len(s)] ==
            IF n = 0 THEN <<>>
            ELSE IF n \in K THEN Append(kept[n - 1], s[n])
            ELSE kept[n - 1]
    IN  kept[Len(s)]

(* s, which is sorted, with r behind all that have no higher priority. *)
Inserted(s, r) ==
    LET Behind(p) == \A k \in DOMAIN s : k < p <=> s[k].priority <= r.priority
    IN  InsertAt(s, CHOOSE p \in 1 .. Len(s) + 1 : Behind(p), r)

(* Array.sort by priority, then by the place in the array. *)
StableSort(s) ==
    LET sorted[n \in 0 .. Len(s)] ==
            IF n = 0 THEN <<>> ELSE Inserted(sorted[n - 1], s[n])
    IN  sorted[Len(s)]

(* A rule without a priority gets one from its place among those ranked. *)
WithPriority(s) ==
    [i \in DOMAIN s |-> [s[i] EXCEPT !.priority = IF @ = Unset THEN 10 * i ELSE @]]

EnabledIn(s) == {i \in DOMAIN s : ~s[i].disabled}

rankWorkspaceRoutingRules(rs) == StableSort(WithPriority(rs))

rankRoutingRules(rs) == StableSort(WithPriority(At(rs, EnabledIn(rs))))

IdsOf(s) == [k \in DOMAIN s |-> s[k].id]

Place(s, id) == CHOOSE k \in DOMAIN s : s[k].id = id

(* Mutant of Renumbered: the hidden rules keep the priority they had. *)
RenumberedShown(ranked, rs) ==
    [i \in DOMAIN rs |-> IF rs[i].disabled THEN rs[i]
                         ELSE [rs[i] EXCEPT !.priority = 10 * Place(ranked, rs[i].id)]]

(* Every rule, disabled ones too, gets the priority of its visible place. *)
Renumbered(ranked, rs) ==
    [i \in DOMAIN rs |-> [rs[i] EXCEPT !.priority = 10 * Place(ranked, rs[i].id)]]

moveRoutingRuleToIndex(rs, id, to) ==
    LET ranked == rankWorkspaceRoutingRules(rs)
        from == Place(ranked, id)
    IN  Renumbered(InsertAt(RemoveAt(ranked, from), to, ranked[from]), rs)

-----------------------------------------------------------------------------
(* compileRouting: enabled rules to universal and Surge-native routes.     *)

nativeStrategyTarget(t) == t = "n" /\ strategies["n"] = "on"

compileRouteTarget(t) == t \in {"direct", "reject"} \/ (t = "s" /\ strategies["s"] # "gone")

Resolves(t) == nativeStrategyTarget(t) \/ compileRouteTarget(t)

(* A rule without a matcher or a target is dropped, with an error. *)
Compiles(r) == r.filled /\ Resolves(r.target)

IsNative(r) == r.kind = "source-port" \/ nativeStrategyTarget(r.target)

(* What is emitted, in order; routingOrder is the place in this sequence. *)
Emitted ==
    LET ranked == rankRoutingRules(rules)
    IN  At(ranked, {k \in DOMAIN ranked : Compiles(ranked[k])})

NativeIn(emitted) == {k \in DOMAIN emitted : IsNative(emitted[k])}

UniversalIn(emitted) == At(emitted, (DOMAIN emitted) \ NativeIn(emitted))

(* validateRouteTarget: a strategy that is disabled is not in the IR, and  *)
(* no route may name it.                                                   *)
RouteTargetsExist ==
    LET emitted == Emitted
    IN  strategies["s"] = "off" =>
            final # "s" /\ \A k \in DOMAIN emitted : emitted[k].target # "s"

(* Mutant of GraphCompiles: the strategies of the routes are not validated.*)
GraphCompilesUnvalidated ==
    /\ \A i \in EnabledIn(rules) : Compiles(rules[i])
    /\ Resolves(final)

(* compileGraph succeeds if no error was recorded. *)
GraphCompiles ==
    /\ \A i \in EnabledIn(rules) : Compiles(rules[i])
    /\ Resolves(final)
    /\ RouteTargetsExist

-----------------------------------------------------------------------------
(* The compatibility check of each target.                                 *)

SingBoxMatchers == LocalKinds \ {"asn", "geo-ip", "geo-site"}
SurgeMatchers == MatcherKinds \ {"geo-site", "rule-set"}
LoonMatchers == Services \cup {"domain", "ip", "geo-ip"}
ShadowrocketMatchers == LocalKinds \ {"port", "asn", "geo-site", "rule-set"}

(* Mihomo has a rule for every universal matcher, and checks none. *)
Supported(t) ==
    CASE t = "mihomo" -> Services \cup LocalKinds
      [] t = "sing-box" -> SingBoxMatchers
      [] t = "surge" -> SurgeMatchers
      [] t = "loon" -> LoonMatchers
      [] t = "shadowrocket" -> ShadowrocketMatchers

Has(routes, kinds) == \E k \in DOMAIN routes : routes[k].kind \in kinds

(* Mutant of LoonOrderIsKept: rules before a local one are not looked at. *)
LoonOrderIsKeptByFamily(routes) ==
    /\ ~(Has(routes, {"domain"}) /\ Has(routes, {"ip", "geo-ip"}))
    /\ Has(routes, Services) => ~Has(routes, {"ip", "geo-ip"})
    /\ \A j, k \in DOMAIN routes :
          routes[j].kind \in Services /\ routes[k].kind \in Services =>
              routes[j].target = routes[k].target

(* Loon matches domain rules before IP rules and local rules before remote *)
(* ones (a service is a remote rule), and remote ones in an unknown order. *)
(* Every strategy a route names is active, so each route counts.           *)
LoonOrderIsKept(routes) ==
    /\ ~(Has(routes, {"domain"}) /\ Has(routes, {"ip", "geo-ip"}))
    /\ Has(routes, Services) => ~Has(routes, {"ip", "geo-ip"})
    /\ \A j, k \in DOMAIN routes : routes[j].kind \in Services =>
          /\ routes[k].kind = "domain" => k < j
          /\ routes[k].kind \in Services => routes[j].target = routes[k].target

(* Shadowrocket does not keep IP-CIDR and GEOIP rules in their order. *)
ShadowrocketOrderIsKept(routes) == ~(Has(routes, {"ip"}) /\ Has(routes, {"geo-ip"}))

(* Only Surge takes native routes, and a project with a native strategy.   *)
Accepts(t) ==
    LET emitted == Emitted
        routes == UniversalIn(emitted)
    IN  /\ GraphCompiles
        /\ \A k \in DOMAIN emitted : emitted[k].kind \in Supported(t)
        /\ t # "surge" => NativeIn(emitted) = {} /\ strategies["n"] # "on"
        /\ t = "loon" => LoonOrderIsKept(routes)
        /\ t = "shadowrocket" => ShadowrocketOrderIsKept(routes)

-----------------------------------------------------------------------------
(* The rule emitters: rules.ts and routing.ts of each target.              *)

(* Mutant of orderedSurgeRoutes: the native routes follow the others. *)
AppendedSurgeRoutes(emitted) ==
    StableSort(UniversalIn(emitted) \o At(emitted, NativeIn(emitted)))

(* Native routes keep their routingOrder, the others fill the gaps. *)
orderedSurgeRoutes(emitted) ==
    LET native == NativeIn(emitted)
        universal == UniversalIn(emitted)
        merged == [o \in DOMAIN emitted |->
                      IF o \in native THEN emitted[o]
                      ELSE universal[Cardinality((1 .. o) \ native)]]
    IN  StableSort(merged)

(* Kinds for which a target has a rule; another one is skipped. *)
MihomoRules == Services \cup LocalKinds
SingBoxRules == {"domain", "ip", "port", "rule-set"}
SurgeRules == Services \cup {"lan", "domain", "ip", "port", "source-port", "asn", "geo-ip"}
LoonRules == Services \cup {"domain", "ip", "geo-ip"}
ShadowrocketRules == {"domain", "ip", "geo-ip"}

Lowered(t) ==
    CASE t = "mihomo" -> MihomoRules
      [] t = "sing-box" -> SingBoxRules
      [] t = "surge" -> SurgeRules
      [] t = "loon" -> LoonRules
      [] t = "shadowrocket" -> ShadowrocketRules

(* The strategy has a group or outbound in the output. *)
HasPolicy(r) == r.target \in Strategies => strategies[r.target] = "on"

(* Loon keeps one remote rule per service: the first. *)
FirstOfService(s) ==
    {k \in DOMAIN s : s[k].kind \in Services => \A j \in 1 .. k - 1 : s[j].kind # s[k].kind}

RulesOf(t) ==
    LET sorted == IF t = "surge" THEN orderedSurgeRoutes(Emitted)
                  ELSE StableSort(UniversalIn(Emitted))
        written == At(sorted, {k \in DOMAIN sorted :
                                  sorted[k].kind \in Lowered(t) /\ HasPolicy(sorted[k])})
    IN  IF t = "loon" THEN At(written, FirstOfService(written)) ELSE written

(* Rules j and k of the output `out': the client is known to match j first.*)
MatchesFirst(t, out, j, k) ==
    LET a == out[j].kind
        b == out[k].kind
        Local(x) == x \notin Services
    IN  CASE t = "loon" -> \/ Local(a) /\ Local(b) /\ (a = "domain" <=> b = "domain") /\ j < k
                           \/ a = "domain" /\ b # "domain"
          [] t = "shadowrocket" -> j < k /\ {a, b} # {"ip", "geo-ip"}
          [] OTHER -> j < k

-----------------------------------------------------------------------------
(* The editor: useBuilderStore.ts. Every edit calls record().              *)

Rule(id, kind) ==
    [id |-> id, kind |-> kind, filled |-> kind \in Services \cup {"lan"},
     target |-> None, priority |-> Unset, disabled |-> FALSE]

Init ==
    /\ rules \in Starts
    /\ strategies = [x \in Strategies |-> IF x = "s" THEN "on" ELSE "gone"]
    /\ final = "direct"
    /\ edits = 0

Edit == edits < MaxEdits /\ edits' = edits + 1

SetRules(rs) == Edit /\ rules' = rs /\ UNCHANGED <<strategies, final>>

Fresh == Ids \ {rules[i].id : i \in DOMAIN rules}

(* addNode from the routing page: a service needs no more, another matcher *)
(* is still to be filled in, and the target is still to be chosen.         *)
AddRule(kind) ==
    /\ Len(rules) < MaxRules
    /\ \E id \in Fresh : SetRules(Append(rules, Rule(id, kind)))

(* duplicateNode: the copy comes last but keeps the priority. *)
Duplicate(i) ==
    /\ Len(rules) < MaxRules
    /\ \E id \in Fresh : SetRules(Append(rules, [rules[i] EXCEPT !.id = id]))

removeNode(i) == SetRules(RemoveAt(rules, i))

(* updateNodeData, for the fields the inspector and the menu write. *)
Fill(i) == ~rules[i].filled /\ SetRules([rules EXCEPT ![i].filled = TRUE])

ToggleDisabled(i) == SetRules([rules EXCEPT ![i].disabled = ~@])

(* setRoutingTarget: a strategy must be a node of the graph. *)
Selectable(t) == t \in Strategies => strategies[t] # "gone"

setRoutingTarget(i, t) ==
    /\ Selectable(t)
    /\ SetRules([rules EXCEPT ![i].target = t])

SetFinal(t) ==
    /\ Selectable(t)
    /\ Edit
    /\ final' = t
    /\ UNCHANGED <<rules, strategies>>

(* moveRoutingRule and moveRoutingRuleToIndex; a rule that would not move  *)
(* is no edit.                                                             *)
Move(i, to) ==
    LET id == rules[i].id
    IN  /\ to # Place(rankWorkspaceRoutingRules(rules), id)
        /\ SetRules(moveRoutingRuleToIndex(rules, id, to))

(* A strategy node is added, disabled, enabled or removed; the rules that  *)
(* name it keep its id.                                                    *)
EditStrategy(x, status) ==
    /\ strategies[x] # status
    /\ strategies[x] = "gone" => status = "on"
    /\ Edit
    /\ strategies' = [strategies EXCEPT ![x] = status]
    /\ UNCHANGED <<rules, final>>

Next ==
    \/ \E kind \in Kinds : AddRule(kind)
    \/ \E i \in DOMAIN rules : Duplicate(i)
    \/ \E i \in DOMAIN rules : removeNode(i)
    \/ \E i \in DOMAIN rules : Fill(i)
    \/ \E i \in DOMAIN rules : ToggleDisabled(i)
    \/ \E i \in DOMAIN rules, t \in RouteTargets : setRoutingTarget(i, t)
    \/ \E i, to \in DOMAIN rules : Move(i, to)
    \/ \E t \in RouteTargets : SetFinal(t)
    \/ \E x \in Strategies, status \in {"on", "off", "gone"} : EditStrategy(x, status)

Spec == Init /\ [][Next]_vars

-----------------------------------------------------------------------------
(* What must hold.                                                         *)

(* Every rule is a routing node with a matcher the user may pick, and no   *)
(* two have the same id (useBuilderStore.ts:343-392).                      *)
TypeOK ==
    /\ WellFormed(rules)
    /\ strategies \in [Strategies -> {"on", "off", "gone"}]
    /\ final \in RouteTargets
    /\ edits \in 0 .. MaxEdits

(* A rule of the output that decides for rule r: its own, or the one that  *)
(* Loon keeps for the same service.                                        *)
Decides(a, r) == a.id = r.id \/ (a.kind = r.kind /\ r.kind \in Services)

(* If one enabled rule precedes another that sends traffic elsewhere, then *)
(* the client of every target that accepts the project matches it first:   *)
(* a target whose client would take them in another order, or in one that  *)
(* is not known, refuses the project (compileRouting.ts, surge/rules.ts    *)
(* 49-61, loon/compatibility.ts 115-255, shadowrocket/routing.ts 14-37).   *)
TargetsKeepTheOrder ==
    \A t \in {x \in Targets : Accepts(x)} :
        LET ranked == rankRoutingRules(rules)
            out == RulesOf(t)
        IN  \A i, j \in DOMAIN ranked :
                i < j /\ ranked[i].target # ranked[j].target =>
                    \E a, b \in DOMAIN out :
                        /\ Decides(out[a], ranked[i])
                        /\ Decides(out[b], ranked[j])
                        /\ MatchesFirst(t, out, a, b)

(* A target that accepts the project leaves out no enabled rule and names  *)
(* no strategy it has not written: the emitters skip what they cannot say, *)
(* and every skip must have been refused before (rules.ts, routing.ts and  *)
(* compatibility.ts of each target, validateIR.ts:196-200).                *)
NothingIsDropped ==
    \A t \in {x \in Targets : Accepts(x)} :
        LET out == RulesOf(t)
        IN  /\ \A i \in EnabledIn(rules) :
                  \E k \in DOMAIN out : /\ Decides(out[k], rules[i])
                                       /\ out[k].target = rules[i].target
            /\ final \in Strategies => strategies[final] = "on"

(* A move puts the rule where the user dropped it, moves no other rule,    *)
(* and from then on the rules are matched in the order that is shown,      *)
(* whichever were disabled or had no priority (routeProductModel.ts 85-111)*)
MoveIsSeen ==
    [][\A i, to \in DOMAIN rules : Move(i, to) =>
          LET id == rules[i].id
              Others(s) == {k \in DOMAIN s : s[k].id # id}
              before == rankWorkspaceRoutingRules(rules)
              after == rankWorkspaceRoutingRules(rules')
          IN  /\ Place(after, id) = to
              /\ IdsOf(At(after, Others(after))) = IdsOf(At(before, Others(before)))
              /\ IdsOf(rankRoutingRules(rules')) = IdsOf(At(after, EnabledIn(after)))]_vars

(* "Match traffic from top to bottom" (messages.ts:304), "Visible order is *)
(* the matching order" (messages.ts:1041): the enabled rules are compiled  *)
(* in the order in which the routing page lists them.                      *)
VisibleOrderIsMatchOrder ==
    LET shown == rankWorkspaceRoutingRules(rules)
    IN  GraphCompiles =>
            IdsOf(rankRoutingRules(rules)) = IdsOf(At(shown, EnabledIn(shown)))
=============================================================================
