SPECIFICATION FairSpec
CONSTANTS
    A = A
    n1 = n1
    None = None
    Projects = {A}
    Ops = {o1}
    Kinds <- OneKind
    Ports = {n1}
    Secrets = {}
    Installed = {A}
    InitialConfig <- MCInitialConfig
    InitialSecret <- NoSecret
    MaxRevision = 2
    MaxFence = 2
    StatusWrites = {"RUNNING", "SUCCEEDED", "FAILED", "ROLLING_BACK", "ROLLED_BACK"}
    PhaseWrites = {}
    Handlers = {h1}
    Resumers = {r1}
    PreSteps = 0
    PostSteps = 1
    MaxFaults = 1
PROPERTIES
    OperationsEnd
    LockIsReturned
    LockHasOwner
    CommittedIsApplied
    
CHECK_DEADLOCK FALSE
