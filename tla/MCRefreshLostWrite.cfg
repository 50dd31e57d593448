SPECIFICATION RefreshesOnlySpec
CONSTANTS
    Keys = {k1}
    Reqs = {r1, r2, r3}
    MaxGen = 3
INVARIANT FailedRefreshKeepsSaved
CHECK_DEADLOCK FALSE
