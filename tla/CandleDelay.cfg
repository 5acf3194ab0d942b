SPECIFICATION MarketSpec
CONSTANTS
    Calls = {c1}
    Writers = {c1}
    MaxTime = 2
    MaxRevisions = 0
    ChunkSlots = 2
    PageRows = 1
    Retention = 2
    Requests <- Candles
    NoAnswer = NoAnswer
    None = None
    Datasets = {"candles", "funding"}
    Slots <- Time
    Values <- Contents
INVARIANTS
    NothingForming
CHECK_DEADLOCK FALSE
