CONSTANTS
    Node <- MCNode
    Client <- MCClient
    RegionPlans <- MCRegionPlans
    MaxAttempts = 2
SPECIFICATION Spec
CHECK_DEADLOCK FALSE
INVARIANTS
  SingleOwner
  HistoryKept
PROPERTIES
  ReadsSeeAcknowledged
  CacheAdvances
  RequestsEnd
