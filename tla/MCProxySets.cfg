SPECIFICATION Spec
CONSTANTS
  Sources = {"s1", "s2"}
  Merges = {"m"}
  Limits = {"f"}
  Deduplicates = {"d"}
  Strategies = {"g"}
  Proxies = {"p", "p-2", "r", "q"}
  Fingerprint <- ServerOf
  Content <- ProxiesOf
  MaxProxies = 2
  Starts <- Drawn
  MaxEdges = 5
  MaxEdits = 2
INVARIANTS AnswersAreRight ExportKeepsTheSet
PROPERTIES EditsKeepTheFlow
CHECK_DEADLOCK FALSE
