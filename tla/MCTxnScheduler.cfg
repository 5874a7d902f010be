SPECIFICATION Spec
CONSTANTS
  x1 = x1
  x2 = x2
  x3 = x3
  w1 = w1
  w2 = w2
  Regions = {1}
  Keys = {1, 2}
  MaxCommand = 3
  Calls = {x1, x2, x3}
  Workers = {w1, w2}
  QueueCapacity = 1
  MaxPendingTasks = 2
  Workloads <- SafetyWorkloads
SYMMETRY Symmetry
CHECK_DEADLOCK FALSE
INVARIANTS
  LatchExclusion
  NoMissedGrant
  InFlightLatched
  SameTermWritesApply
  LatchesOwned
  AppliedMeansDone
PROPERTIES
  AnsweredOnce
