SPECIFICATION Spec
CONSTANTS
    A = A
    B = B
    n1 = n1
    n2 = n2
    None = None
    Projects = {A, B}
    Ops = {o1, o2}
    Kinds <- OneKind
    Ports = {n1}
    Secrets = {}
    Installed = {A}
    InitialConfig <- MCInitialConfig
    InitialSecret <- NoSecret
    MaxRevision = 2
    MaxFence = 2
    StatusWrites = {"FAILED"}
    PhaseWrites = {"RUNTIME_COMMITTED"}
INVARIANTS
    LeaseBindsPayload
    PortExclusive
PROPERTY
    FenceRises
SYMMETRY OpSymmetry
CHECK_DEADLOCK FALSE
