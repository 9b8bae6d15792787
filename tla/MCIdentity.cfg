\* Two operations at a time, any number one after the other, on one connection.
CONSTANTS
    u1 = u1
    u2 = u2
    Ops = {t1, t2}
    Conns = {k1}
    Users = {u1, u2}
    Directories <- SomeDirectories
    Accounts = {"none", "good", "bad"}
    MaxErrors = 2
SPECIFICATION Spec
SYMMETRY Symmetric
INVARIANTS
    TypeOK
    OwnIdentity
PROPERTY
    OutcomeSound
