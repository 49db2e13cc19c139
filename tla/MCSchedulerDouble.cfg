SPECIFICATION Spec
CONSTANTS
    NULL = NULL
    ANY = ANY
    Caller = caller
    Workers = {w1, w2}
    Jobs = {j1}
    Fibers = {f1}
    UseCaller = FALSE
    Contract = FALSE
    MaxYields = 0
    MaxWakes = 1
    MaxStarts = 1
SYMMETRY Symmetry
INVARIANTS
    AssertionsHold
