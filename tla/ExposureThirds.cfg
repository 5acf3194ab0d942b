\* A scenario of four events in three equal spans.
CONSTANTS
    None = None
    Digits = 6
    InitialCash <- Cash20
    Multiplier = 1
    Times = {0, 1, 2, 3}
    Seqs = {0}
    Deltas <- NearFlips
    Prices = {1}
    References = {1}
    FeeRates <- NoFee
    FundingRates <- Tenth
    MaxEvents = 4
    SampleTimes <- Grid
    MaxValuationAge = 2
    MinReturns = 2
    Annual <- Year
SPECIFICATION MetricsSpec
INVARIANTS PercentagesReconcile
CHECK_DEADLOCK FALSE
