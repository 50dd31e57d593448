SPECIFICATION Spec
CONSTANTS
  Ids = {"r1", "r2", "r3", "r4"}
  Kinds = {"service-a"}
  Starts <- Three
  MaxRules = 4
  MaxEdits = 5
INVARIANTS VisibleOrderIsMatchOrder
CHECK_DEADLOCK FALSE
