CONSTANTS
    s1 = s1
    s2 = s2
    Urls = {s1, s2}
    AuthTasks = {t1, t2}
    FirstList <- BothServers
    ServerLists <- NoLists
    PoolSizes = {1}
    BrokenEntries = {}
    FailureModes = {"down"}
    MaxFailures = 1
    MaxServerSets = 0
    MaxConnSets = 0
    DetectorRuns = TRUE
SPECIFICATION FairSpec
PROPERTIES
    AuthAnswered
    ServersRecover
CHECK_DEADLOCK FALSE
