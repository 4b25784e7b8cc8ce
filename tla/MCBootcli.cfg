CONSTANTS
  BadPubKeys = {"0xzz"}
  BadIPs = {"10.0.0.x"}
  SeedLists <- MCSeedLists
  NodeTypes = {1, 2}
  Codes = {0, 1}
SPECIFICATION Spec
INVARIANTS
  RapNodesMatchesSeeds
  BoundedRetries
CHECK_DEADLOCK FALSE
