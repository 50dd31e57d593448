SPECIFICATION Spec
CONSTANTS
  Ids = {"r1", "r2", "r3"}
  Kinds = {"service-a", "domain", "ip", "geo-ip", "source-port"}
  Starts <- Pairs
  MaxRules = 3
  MaxEdits = 3
INVARIANTS TargetsKeepTheOrder NothingIsDropped
PROPERTIES MoveIsSeen
CHECK_DEADLOCK FALSE
