SPECIFICATION Spec
CONSTANTS
    root = root
    sys = sys
    Letters = {"m", "z"}
    ItemNames <- MCItemNames
    file = file
    none = none
    Loggers = {root, sys}
    Root = root
    Patterns <- MCPatterns
    Default <- p0
    Files = {file}
    None = none
    Docs <- MCDocs
INVARIANTS
    WrongFormatDefault
