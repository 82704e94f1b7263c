SPECIFICATION FairSpec
CONSTANTS
    Requests = {1, 2, 3}
    RekeyInterval = 2
    MaxFaults = 1
INVARIANTS
    InStep
PROPERTIES
    CallsEnd
CHECK_DEADLOCK FALSE
