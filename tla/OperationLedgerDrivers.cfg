SPECIFICATION Spec
CONSTANTS
    Null = Null
    Ops = {o1, o2}
    Projects = {A}
    Procs = {w1, w2}
    MaxEvents = 5
INVARIANT
    EventsTellStatus
PROPERTY
    FollowsLifecycle
SYMMETRY
    Symmetry
CHECK_DEADLOCK FALSE
