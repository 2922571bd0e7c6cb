SPECIFICATION Spec
CONSTANTS
    r1 = r1  r2 = r2
    Reversals <- MCReversals
    AmountOf <- MCAmountOf
    Amount = 2
    RefundStatuses <- MCFinal
    FetchRefunds = "no"
    MaxRunning = 2
    MaxLost = 0
INVARIANT NotOverReversed
CHECK_DEADLOCK FALSE
