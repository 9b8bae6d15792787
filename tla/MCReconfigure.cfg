CONSTANTS
    s1 = s1
    s2 = s2
    Urls = {s1, s2}
    AuthTasks = {t1}
    FirstList <- BothServers
    ServerLists <- ManyLists
    PoolSizes = {1, 2}
    BrokenEntries = {t1}
    FailureModes = {"down"}
    MaxFailures = 1
    MaxServerSets = 1
    MaxConnSets = 1
    DetectorRuns = FALSE
SPECIFICATION FairSpec
INVARIANTS
    HomeConnections
    NoSleeperMissed
PROPERTY
    ShutdownsEnd
    PoolsLease
CHECK_DEADLOCK FALSE
