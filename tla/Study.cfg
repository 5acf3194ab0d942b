\* Averages terminate: prices are 1 modulo 9, positions have few factors.
CONSTANTS
    None = None
    Absent = Absent
    Refused = Refused
    Digits = 6
    InitialCash <- Cash20
    Multiplier = 2
    Times = {4, 8}
    Seqs = {0, 1}
    Deltas <- NearFlips
    Prices = {1, 10}
    References = {2}
    FeeRates <- Tenth
    FundingRates <- Tenth
    MaxEvents = 4
    Start = 0
    End = 8
    MaxAge = 2
    SampleTimes <- Grid
    MaxValuationAge = 2
    MinReturns = 2
    Annual <- Year
    Requests <- StudyRequests
SPECIFICATION StudySpec
INVARIANTS Reconciles MarkedToMarket FundedOnPriorPosition
    DrawdownIsWorstFall ExposureFollowsFills
    NoLookAhead SettledHourly ValuedWhileHeld
CHECK_DEADLOCK FALSE
