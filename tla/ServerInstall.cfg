SPECIFICATION FairInstallSpec
CONSTANTS
    db = db
    auth = auth
    tpl = tpl
    fn = fn
    m1 = m1
    m2 = m2
    None = None
    Services = {db, auth, tpl, fn}
    Database = db
    Core = {auth, tpl}
    Helpers = {tpl}
    DependsOn <- Compose
    Configs <- TwoConfigs
    First <- Small
    Callers = {m1, m2}
    Keys = {1, 2}
    MaxRequests = 2
    MaxFaults = 1
INVARIANTS
    InstallTypeOK
    RuntimeAgrees
    BootstrapFirst
    PublishedIsWhole
PROPERTIES
    DatabaseKept
    RequestsEnd
