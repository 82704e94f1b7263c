SPECIFICATION Spec
CONSTANTS
    Passwords = {p1, p2}
    RecordIDs = {r1, r2}
    Payloads = {a, b}
    ClientIDs = {c1}
    MaxVaults = 2
    MaxEnvelope = 2
    MaxRevision = 2
    MaxCounter = 4
    MaxEpoch = 4
    MaxFailed = 0
    LegacyPassword = p1
SYMMETRY RecordSymmetry
INVARIANTS
    TypeOK
    AnchorCurrent
    HighWaterNotAhead
    IndexMirrorsRecords
    OnlyActiveEnvelope
    RowsOpenUnlessResealed
    CatalogAccepted
    BackupSound
PROPERTIES
    ImplementsRecordStore
