SPECIFICATION RollbackSpec
CONSTANTS
    Passwords = {p1, p2}
    RecordIDs = {r1}
    Payloads = {a}
    ClientIDs = {c1}
    MaxVaults = 1
    MaxEnvelope = 2
    MaxRevision = 2
    MaxCounter = 3
    MaxEpoch = 4
    MaxFailed = 0
    LegacyPassword = p1
PROPERTIES
    RollbackDetected
