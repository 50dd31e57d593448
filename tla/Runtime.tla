------------------------------- MODULE Runtime -------------------------------
(* What the modules about the Runtime Service share.                         *)
CONSTANTS
    Sources,  \* (project, source) pairs
    None      \* no row, no call
=============================================================================
