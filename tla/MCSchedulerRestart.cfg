SPECIFICATION FairSpec
CONSTANTS
    NULL = NULL
    ANY = ANY
    Caller = caller
    Workers = {w1, w2}
    Jobs = {j1}
    Fibers = {f1, f2}
    UseCaller = FALSE
    Contract = TRUE
    MaxYields = 1
    MaxWakes = 1
    MaxStarts = 2
PROPERTIES
    ImplementsJobPool
    StopReturns
INVARIANTS
    TypeOK
    CountersExact
