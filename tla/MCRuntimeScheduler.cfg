SPECIFICATION FairSpec
CONSTANTS
    Sources = {k1, k2}
    Runs = {r1, r2, r3}
    Client = Client
    MaxTroubles = 4
    None = None
PROPERTIES MarkedWhenServed EveryDueScheduleIsServed
CHECK_DEADLOCK FALSE
