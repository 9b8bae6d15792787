CONSTANTS
    s1 = s1
    s2 = s2
    Clients = {c1}
    Values = {1, 2}
    Servers = {s1, s2}
    ServerLists <- Lists
    MaxDetached = 1
SPECIFICATION Spec
INVARIANTS
    TypeOK
    NothingOutlivesUnload
    NoOrphanedCaller
    SettingsCurrent
PROPERTIES
    UnloadEnds
    DetectorKeepsRunning
