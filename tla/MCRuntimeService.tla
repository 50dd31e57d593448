-------------------------- MODULE MCRuntimeService --------------------------
(***************************************************************************)
(* Small instances of RuntimeService for TLC.                              *)
(***************************************************************************)
EXTENDS RuntimeService, TLC

\* Slots and configurations are interchangeable.
Symmetry == Permutations(Tasks) \cup Permutations(Configs)
=============================================================================
