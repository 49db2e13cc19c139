SPECIFICATION Spec
CONSTANTS
    NULL = NULL
    ANY = ANY
    Caller = caller
    Workers = {w1, w2}
    Jobs = {j1}
    Fibers = {f1}
    UseCaller = FALSE
    Contract = TRUE
    MaxYields = 1
    MaxWakes = 0
    MaxStarts = 1
SYMMETRY Symmetry
INVARIANTS
    StaysPinned
