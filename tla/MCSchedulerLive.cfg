SPECIFICATION FairSpec
CONSTANTS
    NULL = NULL
    ANY = ANY
    Caller = caller
    Workers = {w1, w2}
    Jobs = {j1, j2}
    Fibers = {f1, f2}
    UseCaller = FALSE
    Contract = TRUE
    MaxYields = 0
    MaxWakes = 0
    MaxStarts = 1
PROPERTIES
    NoStarvation
