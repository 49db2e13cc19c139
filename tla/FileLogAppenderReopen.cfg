SPECIFICATION Spec
CONSTANTS
    Threads = {t1, t2}
    MaxTime = 3
    MaxEvents = 3
    MaxFaults = 2
PROPERTIES
    ReopenOpens
CHECK_DEADLOCK FALSE
