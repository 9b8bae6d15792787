CONSTANTS
    s1 = s1
    s2 = s2
    Urls = {s1, s2}
    AuthTasks = {t1}
    FirstList <- OnlyFirst
    ServerLists <- Several
    PoolSizes = {1}
    BrokenEntries = {t1}
    FailureModes = {"down"}
    MaxFailures = 1
    MaxServerSets = 1
    MaxConnSets = 0
    DetectorRuns = TRUE
SPECIFICATION Spec
INVARIANTS
    ListsAligned
    LeasesExclusive
CHECK_DEADLOCK FALSE
