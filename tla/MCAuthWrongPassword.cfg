\* One AUTH, and nothing changes.
CONSTANTS
    Clients = {c1}
    Users = {u1}
    Newest = 2
    Tokens = {"read", "write", "selector", "off", "bad"}
    Selectors = {"selector"}
    BadTokens = {"bad"}
    OffTokens = {"off"}
    Grants <- SomeGrants
    AuthModes = {"search+bind"}
    FirstExempt = {}
    MaxAuths = 1
    MaxEvents = 0
SPECIFICATION Spec
PROPERTY DeletedOnlyWhenAbsent
CHECK_DEADLOCK FALSE
