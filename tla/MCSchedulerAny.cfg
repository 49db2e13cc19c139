SPECIFICATION Spec
CONSTANTS
    NULL = NULL
    ANY = ANY
    Caller = caller
    Workers = {w1}
    Jobs = {j1, j2}
    Fibers = {f1, f2}
    UseCaller = TRUE
    Contract = FALSE
    MaxYields = 0
    MaxWakes = 1
    MaxStarts = 2
SYMMETRY Symmetry
INVARIANTS
    TypeOK
    CountersExact
