CONSTANTS
    s1 = s1
    s2 = s2
    Urls = {s1}
    AuthTasks = {t1, t2}
    FirstList <- OnlyFirst
    ServerLists <- NoLists
    PoolSizes = {2}
    BrokenEntries = {t1, t2}
    FailureModes = {"down", "silent", "faulty"}
    MaxFailures = 2
    MaxServerSets = 0
    MaxConnSets = 0
    DetectorRuns = TRUE
SPECIFICATION Spec
SYMMETRY SymAuthTasks
INVARIANTS
    TypeOK
    ConnectionsConserved
    HealthyHasConnections
    NoSleeperMissed
CHECK_DEADLOCK FALSE
