SPECIFICATION Spec
CONSTANTS
    Threads = {"t1", "t2"}
    Spurious = TRUE
    MaxCalls = 2
    MaxBasts = 1
    MaxOpens = 1
INVARIANTS CompleteOnReturn
CHECK_DEADLOCK FALSE
