----------------------------- MODULE MCProxySets -----------------------------
(* Two sources, one with the same server under two ids and both sharing it;*)
(* a merge, a limit and a deduplicate.                                     *)
EXTENDS ProxySets

ProxiesOf == [s \in Sources |-> IF s = "s1" THEN <<"p", "p-2">> ELSE <<"r", "q">>]

ServerOf == [p \in Proxies |-> IF p = "q" THEN "other" ELSE "same"]

Line(s) == [k \in 1 .. Len(s) - 1 |-> Edge(s[k], s[k + 1])]

(* An empty canvas, a line of three steps, and two lines that join. *)
Drawn == {<<>>, Line(<<"s1", "m", "f", "d", "g">>),
          Line(<<"s1", "f", "m", "d", "g">>) \o Line(<<"s2", "m">>)}
=============================================================================
