SPECIFICATION ApplySpec
CONSTANTS
    None = None
    v1 = v1
    v2 = v2
    Values = {v1}
    Editors = {e1}
    Touched <- AllLeaves
    InitialConfig <- StandardConfig
    InitialSecret <- StandardSecret
    MaxEdits = 2
    MaxFaults = 1
INVARIANTS
    SecretBacked
    AdmittedRenders
    RuntimeConverges
    Retryable
PROPERTY
    PartKeepsTheRest
CHECK_DEADLOCK FALSE
