SPECIFICATION Spec
CONSTANTS
    Passwords = {p1, p2}
    RecordIDs = {r1, r2}
    Payloads = {a, b}
    ClientIDs = {c1}
    MaxVaults = 1
    MaxEnvelope = 2
    MaxRevision = 2
    MaxCounter = 5
    MaxEpoch = 5
    MaxFailed = 0
    LegacyPassword = p1
SYMMETRY RecordSymmetry
INVARIANTS
    NoFalseAlarm
