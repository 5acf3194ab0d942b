SPECIFICATION MCSpec
CONSTANTS
    b1 = b1
    b2 = b2
    b3 = b3
    before = before
    Calls = {before, c1, c2}
    Ingesters = {i1, i2}
    Bytes <- MCBytes
    Size <- MCSize
    Content <- MCContent
    None = None
    Torn = Torn
    Shared = FALSE
    MaxFaults = 1
    MaxCrashes = 1
SYMMETRY Symmetry
CONSTRAINT OneFailure
VIEW Relevant
INVARIANTS
    ProvenanceTrue
    DisputesMarked
    RowsAccounted
    RevisionsPointToFirst
PROPERTIES
    NeverMutated
CHECK_DEADLOCK FALSE
