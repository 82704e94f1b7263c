SPECIFICATION Spec
CONSTANTS
    Conns = {c1, c2}
    Window = 2
    Interval = 1
    TTL = 3
SYMMETRY ConnSymmetry
INVARIANTS
    TypeOK
    UnattendedLocks
PROPERTIES
    NotLockedInUse
