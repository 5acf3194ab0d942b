SPECIFICATION Spec
CONSTANTS
    Writers = {w1, w2}
    Bundles = {b1, b2}
    Absent = Absent
    Damaged = Damaged
    Foreign = Foreign
    MaxFaults = 3
    MaxCrashes = 1
SYMMETRY Symmetry
INVARIANTS
    NeverPartial
    AcknowledgedStands
    FailureRestores
    NothingLost
PROPERTIES
    OnlyOverwriteReplaces
CHECK_DEADLOCK FALSE
