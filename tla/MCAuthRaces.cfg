\* Two AUTH commands at a time, and two changes of anything else.
CONSTANTS
    Clients = {c1, c2}
    Users = {u1}
    Newest = 2
    Tokens = {"read", "write", "selector", "off", "bad"}
    Selectors = {"selector"}
    BadTokens = {"bad"}
    OffTokens = {"off"}
    Grants <- SomeGrants
    AuthModes = {"bind", "search+bind"}
    FirstExempt = {}
    MaxAuths = 1
    MaxEvents = 2
SPECIFICATION Spec
SYMMETRY SymClients
INVARIANTS
    TypeOK
    CacheSound
    PermissionsOfOneGrant
PROPERTIES
    LoginJustified
    CacheMovesForward
    DeletionJustified
    RemovedIsCleanedUp
    StaysDeleted
CHECK_DEADLOCK FALSE
