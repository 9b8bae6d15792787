CONSTANTS
    s1 = s1
    s2 = s2
    Urls = {s1, s2}
    AuthTasks = {t1}
    FirstList <- OnlyFirst
    ServerLists <- Shrunk
    PoolSizes = {1}
    BrokenEntries = {}
    FailureModes = {"down"}
    MaxFailures = 1
    MaxServerSets = 1
    MaxConnSets = 0
    DetectorRuns = FALSE
SPECIFICATION Spec
PROPERTY StatusIsReported
CHECK_DEADLOCK FALSE
