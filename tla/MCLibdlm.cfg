SPECIFICATION Spec
CONSTANTS
    Threads = {"t1", "t2"}
    Spurious = FALSE
    MaxCalls = 4
    MaxBasts = 1
    MaxOpens = 1
INVARIANTS TypeOK CompleteOnReturn NoDeadFrame
PROPERTIES EveryCallReturns
CHECK_DEADLOCK FALSE
