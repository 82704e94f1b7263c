SPECIFICATION Spec
CONSTANTS
    Conns = {c1, c2}
    Clients = {k1}
    CLI = cli
    Ops = {"status", "unlock", "lock", "use", "revoke", "reset"}
    MaxPeriod = 2
    MaxEpoch = 3
SYMMETRY ConnSymmetry
CHECK_DEADLOCK FALSE
INVARIANTS
    TypeOK
    SessionsDieAtLock
    RevokedHaveNoSession
