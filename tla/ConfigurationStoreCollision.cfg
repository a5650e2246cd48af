SPECIFICATION Spec
CONSTANTS
    A = A
    B = B
    n1 = n1
    n2 = n2
    None = None
    Projects = {A, B}
    Ops = {o1, o2}
    Kinds <- TwoKinds
    Ports = {n1, n2, n3}
    Secrets = {}
    Installed = {A, B}
    InitialConfig <- MCInitialConfig
    InitialSecret <- NoSecret
    MaxRevision = 2
    MaxFence = 1
    StatusWrites = {}
    PhaseWrites = {}
INVARIANTS
    PortsNeverCollide
CHECK_DEADLOCK FALSE
