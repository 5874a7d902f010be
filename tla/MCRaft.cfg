SPECIFICATION Spec
CONSTANTS
    Server <- MCServer
    Reader <- MCReader
    Workloads <- MCRaftWorkloads
CHECK_DEADLOCK FALSE
INVARIANTS
  ElectionSafety
  LeaderCompleteness
  AppliedIsChosen
  ReadsCurrent
