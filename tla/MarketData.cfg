SPECIFICATION MarketSpec
CONSTANTS
    Calls = {c1, c2}
    Writers = {c1, c2}
    MaxTime = 2
    MaxRevisions = 1
    ChunkSlots = 1
    PageRows = 1
    Retention = 2
    Requests <- EitherDataset
    NoAnswer = NoAnswer
    None = None
    Datasets = {"candles", "funding"}
    Slots <- Time
    Values <- Contents
SYMMETRY Symmetry
INVARIANTS
    CollectorTypeOK
    OneRowPerSlot
    RunsTrue
    NoHole
    Replayable
PROPERTIES
    FirstObservationStands
CHECK_DEADLOCK FALSE
