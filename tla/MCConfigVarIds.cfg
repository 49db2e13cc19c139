SPECIFICATION Spec
CONSTANTS
    None = None
    Default = x0
    Threads = {t1, t2}
    Vars = {v1, v2}
    Values = {x0}
    Listeners = {l1, l2, l3}
    Throwing = {}
    Serial = FALSE
    MaxSets = 0
SYMMETRY Symmetry
INVARIANTS
    IdsNameListeners
