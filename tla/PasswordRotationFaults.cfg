SPECIFICATION FairRotSpec
CONSTANTS
    A = A
    pw = pw
    None = None
    Projects = {A}
    Server = A
    Ops = {o1, o2}
    Kinds = {}
    Ports = {}
    Secrets = {o1, o2, pw}
    Installed = {A}
    InitialConfig <- OneConfig
    InitialSecret <- Initial
    MaxRevision = 3
    MaxFence = 4
    StatusWrites = {"RUNNING", "FAILED", "ROLLING_BACK", "ROLLED_BACK", "SUCCEEDED"}
    PhaseWrites = {"RUNTIME_COMMITTED", "ROLLBACK_PENDING", "ROLLBACK_CONFIRMED"}
    Workers = {w1}
    MaxRequests = 2
    MaxFaults = 2
    MaxEvents = 3
INVARIANTS
    RotTypeOK
    AnchorIsOld
PROPERTIES
    CommittedIsLive
    RolledBackIsRestored
    RotationsEnd
