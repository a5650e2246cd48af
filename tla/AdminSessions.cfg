SPECIFICATION AuthSpec
CONSTANTS
    None = None
    Tabs = {t1, t2}
    Tokens = {k1, k2}
    IdleLimit = 1
    AbsoluteLimit = 3
    MaxNow = 2
    MaxCsrf = 4
INVARIANTS
    EndedStaysEnded
    SomeTabCanAct
PROPERTY
    ServedWasLive
SYMMETRY Symmetry
CHECK_DEADLOCK FALSE
