SPECIFICATION FairSpec
CONSTANTS
    a = a
    b = b
    bad = bad
    n1 = n1
    n2 = n2
    word = word
    Nil = Nil
    None = None
    Threads = {t1, t2}
    Names <- MCNames
    Legal <- MCLegal
    Types <- MCTypes
    Default <- Zero
    Convert <- FromStr
    Numbers = {n1, n2}
    Illegal = {bad}
    Docs <- MCDocs
    Members <- YamlMembers
    MaxWidth = 3
    MaxDepth = 2
    MaxCalls = 5
INVARIANTS
    OneObject
    VisitSeesAll
    LoadReaches
    RoundTrip
PROPERTIES
    CallsReturn
