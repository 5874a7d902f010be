SPECIFICATION Spec
CONSTANTS
  t1 = t1
  t2 = t2
  Key = {1, 2}
  Txn = {t1}
  RegionOf <- OneKeyPerRegion
  Workload <- WritingTransaction
  SafePoints = {}
  RollbackUnknown = TRUE
  RecoveryKeepsUp = TRUE
CHECK_DEADLOCK FALSE
INVARIANTS
  SecondariesFollowPrimary
