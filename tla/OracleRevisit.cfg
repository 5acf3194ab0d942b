SPECIFICATION Spec
CONSTANTS
    b1 = b1
    b2 = b2
    b3 = b3
    Calls = {c1, c2, c3}
    Bytes <- MCBytes
    Size <- MCSize
    None = None
    Torn = Torn
    Shared = FALSE
    MaxFaults = 0
    MaxCrashes = 0
SYMMETRY Symmetry
INVARIANTS
    IdenticalIdempotent
CHECK_DEADLOCK FALSE
