SPECIFICATION Spec
CONSTANTS
    Clients = {c1, c2}
    Free = Free
    MaxCalls = 2
    MaxBatch = 1
    MaxFaults = 0
    MaxCrashes = 0
    LiveLocksBroken = FALSE
SYMMETRY Symmetry
INVARIANTS
    ConflictFailsClosed
CHECK_DEADLOCK FALSE
