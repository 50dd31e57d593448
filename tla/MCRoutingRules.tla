--------------------------- MODULE MCRoutingRules ---------------------------
(* Rule lists a project may be opened with, for the two runs. *)
EXTENDS RoutingRules

Stored(id, kind, target) == [Rule(id, kind) EXCEPT !.filled = TRUE, !.target = target]

(* Two complete rules of any two kinds. Of the first, either no priority is *)
(* stored or the one it has when it was second and the first was removed:  *)
(* the second has the same by default.                                     *)
Pairs == {<<[Stored("r1", k1, "s") EXCEPT !.priority = p], Stored("r2", k2, "direct")>> :
              k1, k2 \in Kinds, p \in {Unset, 20}}

Three == {<<Stored("r1", "domain", "direct"), Stored("r2", "domain", "reject"),
            Stored("r3", "domain", "direct")>>}
=============================================================================
