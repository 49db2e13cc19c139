SPECIFICATION FairSpec
CONSTANTS
    NULL = NULL
    ANY = ANY
    Caller = caller
    Workers = {}
    Jobs = {j1, j2}
    Fibers = {f1, f2}
    UseCaller = TRUE
    Contract = TRUE
    MaxYields = 1
    MaxWakes = 2
    MaxStarts = 1
PROPERTIES
    ImplementsJobPool
    StopReturns
