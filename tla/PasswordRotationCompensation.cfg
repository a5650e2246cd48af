SPECIFICATION RotSpec
CONSTANTS
    A = A
    pw = pw
    None = None
    Projects = {A}
    Server = A
    Ops = {o1}
    Kinds = {}
    Ports = {}
    Secrets = {o1, pw}
    Installed = {A}
    InitialConfig <- OneConfig
    InitialSecret <- Initial
    MaxRevision = 2
    MaxFence = 3
    StatusWrites = {"RUNNING", "FAILED", "ROLLING_BACK", "ROLLED_BACK", "SUCCEEDED"}
    PhaseWrites = {"RUNTIME_COMMITTED", "ROLLBACK_PENDING", "ROLLBACK_CONFIRMED"}
    Workers = {w1}
    MaxRequests = 1
    MaxFaults = 2
    MaxEvents = 3
PROPERTY
    RollbackIsReentered
