SPECIFICATION FairFnSpec
CONSTANTS
    a = a
    b = b
    c = c
    m1 = m1
    m2 = m2
    None = None
    Unknown = Unknown
    Foreign = Foreign
    Archives = {a, b, c}
    Workers = {m1, m2}
    StartFiles <- Starts
    MaxRequests = 2
    MaxFaults = 1
INVARIANTS
    FnTypeOK
    ReleasesConsistent
    LiveIsLoaded
    StatusTellsRelease
PROPERTIES
    RollbackCompleted
    FunctionOpsSettle
