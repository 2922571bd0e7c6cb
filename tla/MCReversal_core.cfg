SPECIFICATION FairSpec
CONSTANTS
    r1 = r1  r2 = r2
    Reversals <- MCReversals
    AmountOf <- MCAmountOf
    Amount = 2
    RefundStatuses <- MCStatuses
    FetchRefunds = "yes"
    MaxRunning = 2
    MaxLost = 1
INVARIANTS TypeOK RecordedWasRefunded RefundsClaimed NotOverReversedInTurn
PROPERTY ReversalEnds
CHECK_DEADLOCK FALSE
