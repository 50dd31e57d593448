------------------------- MODULE MCRuntimeScheduler -------------------------
(***************************************************************************)
(* Small instances of RuntimeScheduler for TLC.  Sources and slots are     *)
(* interchangeable, but symmetry is not sound for a liveness property.     *)
(***************************************************************************)
EXTENDS RuntimeScheduler
=============================================================================
