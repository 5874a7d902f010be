SPECIFICATION FairSpec
CONSTANTS
  t1 = t1
  t2 = t2
  Key = {1, 2, 3}
  Txn = {t1}
  RegionOf <- TwoRegions
  Workload <- LockingTransaction
  SafePoints = {}
  RollbackUnknown = TRUE
  RecoveryKeepsUp = TRUE
CHECK_DEADLOCK FALSE
INVARIANTS
  CommitsAfterLocks
PROPERTIES
  LocksOnlyAdvance
  LocksDrain
