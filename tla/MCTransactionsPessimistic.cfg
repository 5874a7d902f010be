SPECIFICATION Spec
CONSTANTS
  t1 = t1
  t2 = t2
  Key = {1, 2}
  Txn = {t1, t2}
  RegionOf <- OneKeyPerRegion
  Workload <- LockOnlyPrimaryWorkload
  SafePoints = {}
  RollbackUnknown = FALSE
  RecoveryKeepsUp = TRUE
CHECK_DEADLOCK FALSE
INVARIANTS
  SecondariesFollowPrimary
  LockingReadsProtected
