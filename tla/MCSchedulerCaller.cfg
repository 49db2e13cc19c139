SPECIFICATION Spec
CONSTANTS
    NULL = NULL
    ANY = ANY
    Caller = caller
    Workers = {w1}
    Jobs = {j1, j2}
    Fibers = {f1, f2}
    UseCaller = TRUE
    Contract = TRUE
    MaxYields = 1
    MaxWakes = 1
    MaxStarts = 1
SYMMETRY Symmetry
PROPERTIES
    ImplementsJobPool
INVARIANTS
    OwnerInv
    FiberExclusive
    AssertionsHold
    StartsWherePinned
    NoOrphan
