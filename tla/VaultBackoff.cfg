SPECIFICATION FairSpec
CONSTANTS
    Passwords = {p1, p2}
    RecordIDs = {}
    Payloads = {a}
    ClientIDs = {}
    MaxVaults = 1
    MaxEnvelope = 2
    MaxRevision = 1
    MaxCounter = 3
    MaxEpoch = 3
    MaxFailed = 12
    LegacyPassword = p1
PROPERTIES
    FailuresRemembered
    BackoffEnds
