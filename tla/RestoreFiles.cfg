SPECIFICATION Spec
CONSTANTS
    MaxReplacements = 2
    MaxWrites = 2
    MaxFaults = 2
    MaxVaults = 2
CHECK_DEADLOCK FALSE
INVARIANTS
    PreviousKept
    ServesTheVault
    StoreOpenBetween
    DestroyComplete
PROPERTIES
    AlarmIsRollback
