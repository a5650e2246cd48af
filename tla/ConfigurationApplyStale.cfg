SPECIFICATION ApplySpec
CONSTANTS
    None = None
    v1 = v1
    v2 = v2
    Values = {v1, v2}
    Editors = {}
    Touched <- AllLeaves
    InitialConfig <- StandardConfig
    InitialSecret <- StandardSecret
    MaxEdits = 1
    MaxFaults = 0
INVARIANT
    RuntimeMatches
CHECK_DEADLOCK FALSE
