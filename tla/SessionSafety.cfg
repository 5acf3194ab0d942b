SPECIFICATION Spec
CONSTANTS
    Clients = {c1, c2}
    Free = Free
    MaxCalls = 3
    MaxBatch = 2
    MaxFaults = 1
    MaxCrashes = 1
    LiveLocksBroken = FALSE
SYMMETRY Symmetry
INVARIANTS
    OneWriter
    Mendable
    SnapshotsCommitted
    AcceptedInPlace
PROPERTIES
    HistoryGrows
    ImplementsLog
CHECK_DEADLOCK FALSE
