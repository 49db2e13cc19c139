SPECIFICATION FairSpec
CONSTANTS
    NULL = NULL
    None = none
    Creator = main
    Threads = {t1, t2}
    Detached = {t2}
    Fibers = {f1, f2}
    Jobs = {j1}
    Rules = {"scheduler", "native", "yield"}
    MaxYields = 2
INVARIANTS
    RunningIsCurrent
    WayBack
    CountExact
    StartedKnown
    NoStray
PROPERTIES
    ConstructorReturns
CHECK_DEADLOCK FALSE
