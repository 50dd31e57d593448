------------------------ MODULE MCRefreshCoordinator ------------------------
(***************************************************************************)
(* Small instances of RefreshCoordinator for TLC.                          *)
(***************************************************************************)
EXTENDS RefreshCoordinator

\* Sessions in which the user only refreshes.
RefreshesOnly ==
    \/ \E r \in Reqs : Progress(r)
    \/ \E k \in Keys : CacheStep(k) \/ \E r \in Reqs : Refresh(r, k)

RefreshesOnlySpec == Init /\ [][RefreshesOnly]_vars
=============================================================================
