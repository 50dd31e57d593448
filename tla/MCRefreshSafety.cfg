SPECIFICATION FairSpec
CONSTANTS
    Keys = {k1}
    Reqs = {r1, r2}
    MaxGen = 4
INVARIANTS RegisteredIsInFlight DeletedStaysDeleted NewestIsSaved FailedSaveIsReported
PROPERTIES EveryRefreshReturns NoLateAnswer EmptyIsConfirmed CacheMovesForward KeepsLastKnownGood
CHECK_DEADLOCK FALSE
