CONSTANTS
    s1 = s1
    s2 = s2
    Urls = {s1}
    AuthTasks = {t1, t2}
    FirstList <- OnlyFirst
    ServerLists <- NoLists
    PoolSizes = {1}
    BrokenEntries = {}
    FailureModes = {"down"}
    MaxFailures = 2
    MaxServerSets = 0
    MaxConnSets = 0
    DetectorRuns = TRUE
SPECIFICATION FairSpec
PROPERTY AuthEnds
CHECK_DEADLOCK FALSE
