SPECIFICATION Spec
CONSTANTS
  t1 = t1
  t2 = t2
  Key = {1, 2}
  Txn = {t1, t2}
  RegionOf <- OneKeyPerRegion
  Workload <- OptimisticWorkload
  SafePoints = {3}
  RollbackUnknown = FALSE
  RecoveryKeepsUp = TRUE
CHECK_DEADLOCK FALSE
INVARIANTS
  OneOutcomePerKey
  RestartLosesNothing
  SecondariesFollowPrimary
  CommittedNotRolledBack
  AbortedNotCommitted
  NoLostUpdate
  ReadsRepeatable
