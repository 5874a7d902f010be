SPECIFICATION Spec
CONSTANTS
  n1 = n1
  n2 = n2
  n3 = n3
  c1 = c1
  c2 = c2
  Nodes = {n1, n2, n3}
  Caller = {c1, c2}
  RangeSize = 2
  LogicalSize = 4
  MaxLag = 1
  FenceDuration = 1
  MinElectionTimeout = 2
  SnapshotEvery = 2
  MaxTimestamp = 12
  StaleObserves = FALSE
  Plans <- Workloads
SYMMETRY Symmetry
VIEW View
CHECK_DEADLOCK FALSE
INVARIANTS
  RivalConfirmedFence
  PeekAhead
PROPERTIES
  ImplementsOracle
