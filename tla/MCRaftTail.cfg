SPECIFICATION Spec
CONSTANTS
    Server <- MCServer
    Reader <- MCReader
    Workloads <- TailWorkloads
INVARIANT
    DurableLog
CHECK_DEADLOCK FALSE
