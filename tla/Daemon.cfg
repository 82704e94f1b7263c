SPECIFICATION FairSpec
CONSTANTS
    Threads = {1, 2, 3}
    RecordIDs = {r1, r2}
    Existing = {r1}
    Payloads = {a}
    Ops = {"create", "update", "delete", "reveal", "status", "unlock", "lock", "change"}
    MaxRequests = 3
CHECK_DEADLOCK FALSE
INVARIANTS
    TypeOK
    AnchorCoversTables
    HighWaterNotAhead
    IndexSettles
PROPERTIES
    RevisionsAdvance
    RequestsAnswered
