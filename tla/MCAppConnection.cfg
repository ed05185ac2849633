SPECIFICATION Spec
CONSTANTS
    None = None
    Old = old
    Server = {old, new}
    c1 = c1
    c2 = c2
    Call = {c1, c2}
    MaxConnects = 2
    MaxTokens = 1
    MaxFaults = 1
INVARIANTS
    ShownIsOfConnection
    LoadsFindCredentials
PROPERTIES
    OnlyUsersReplace
    DroppedTokenArrived
SYMMETRY MCSymmetry
CHECK_DEADLOCK FALSE
