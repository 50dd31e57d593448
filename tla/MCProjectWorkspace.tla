------------------------- MODULE MCProjectWorkspace -------------------------
(* The instances of ProjectWorkspace that TLC checks. *)
EXTENDS ProjectWorkspace, TLC

Symmetry == Permutations(Tabs)
=============================================================================
