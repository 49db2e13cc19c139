SPECIFICATION FairSpec
CONSTANTS
    None = None
    Default = x0
    Threads = {t1, t2}
    Vars = {v1, v2}
    Values = {x0, x1, x2}
    Listeners = {l1, l2}
    Throwing = {l1}
    Serial = TRUE
    MaxSets = 2
INVARIANTS
    IdsNameListeners
    ListenerUpToDate
PROPERTIES
    ChangeAnnounced
    CallsReturn
