CONSTANTS
    Node <- MCNode
    Client <- MCClient
    RegionPlans <- SplitWriteWorkloads
    MaxAttempts = 2
SPECIFICATION Spec
INVARIANT AcknowledgedKept
CHECK_DEADLOCK FALSE
