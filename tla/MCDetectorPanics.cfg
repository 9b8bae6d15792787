CONSTANTS
    s1 = s1
    s2 = s2
    Urls = {s1, s2}
    AuthTasks = {}
    FirstList <- BothServers
    ServerLists <- Shrunk
    PoolSizes = {1}
    BrokenEntries = {}
    FailureModes = {}
    MaxFailures = 0
    MaxServerSets = 1
    MaxConnSets = 0
    DetectorRuns = TRUE
SPECIFICATION Spec
INVARIANT DetectorSurvives
CHECK_DEADLOCK FALSE
