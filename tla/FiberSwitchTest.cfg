SPECIFICATION Spec
CONSTANTS
    NULL = NULL
    None = none
    Creator = main
    Threads = {t1}
    Detached = {}
    Fibers = {f1}
    Jobs = {j1}
    Rules = {"native", "live", "yield"}
    MaxYields = 2
INVARIANTS
    NoCrash
CHECK_DEADLOCK FALSE
