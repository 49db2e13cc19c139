SPECIFICATION Spec
CONSTANTS
    None = None
    Default = x0
    Threads = {t1, t2}
    Vars = {v1}
    Values = {x0, x1, x2}
    Listeners = {l1}
    Throwing = {}
    Serial = FALSE
    MaxSets = 2
INVARIANTS
    ListenerUpToDate
