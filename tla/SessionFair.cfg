SPECIFICATION FairSpec
CONSTANTS
    Clients = {c1, c2}
    Free = Free
    MaxCalls = 2
    MaxBatch = 2
    MaxFaults = 1
    MaxCrashes = 1
    LiveLocksBroken = FALSE
PROPERTIES
    CallsReturn
    AlwaysMended
CHECK_DEADLOCK FALSE
