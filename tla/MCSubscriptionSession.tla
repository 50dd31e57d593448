----------------------- MODULE MCSubscriptionSession -----------------------
(***************************************************************************)
(* Small instances of SubscriptionSession for TLC.                         *)
(***************************************************************************)
EXTENDS SubscriptionSession, TLC

\* Slots and configurations are interchangeable.
Symmetry == Permutations(Slots) \cup Permutations(Configs)
=============================================================================
