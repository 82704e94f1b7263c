SPECIFICATION FairSpec
CONSTANTS
    Extensions = {e1}
    Slots = {s1, s2}
    MaxAttempts = 2
    MaxClients = 2
    MaxFaults = 1
CHECK_DEADLOCK FALSE
INVARIANTS
    OneClientPerPairing
    HandedOutOnce
    IdentityMatchesRow
PROPERTIES
    CredentialKept
    NotLeftPending
    PairingCompletes
