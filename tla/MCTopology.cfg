SPECIFICATION Spec
CONSTANTS
    End = 4
    DedupRetention = 3
    MaximumDiskUsed = 90
    ImbalanceThreshold = 1500
    SplitSize = 5
    SplitRequests = 5
    HeartbeatTimeout = 1
    Nodes = {m1, m2}
    Setup <- MCSetup
    Workloads <- MCWorkloads
CHECK_DEADLOCK FALSE
INVARIANTS
  CatalogConsistent
  RecoveryReproduces
  AppliedAtMostOnce
  ReplicasKept
PROPERTIES
  EpochsAdvance
  OperatorsEnd
