SPECIFICATION Spec
CONSTANTS
    NULL = NULL
    Root = root
    RootAppender = a0
    Default = f0
    Threads = {t1, t2}
    Loggers = {root, sys}
    Appenders = {a0, a1}
    Formatters = {f0, f1}
    Levels = {1, 2}
    Rules = {"apart", "nonempty"}
    MaxCalls = 5
INVARIANTS
    FormatterInherited
