\* Averages with a denominator of three, the kernel's digits scaled down to 5.
CONSTANTS
    None = None
    Digits = 5
    InitialCash <- Cash100
    Multiplier = 1
    Times = {1, 2}
    Seqs = {0, 1}
    Deltas <- Thirds
    Prices = {1, 2}
    References = {1}
    FeeRates <- NoFee
    FundingRates <- Tenth
    MaxEvents = 4
SPECIFICATION Spec
INVARIANTS Reconciles
CHECK_DEADLOCK FALSE
