SPECIFICATION Spec
CONSTANTS
    r1 = r1  r2 = r2  r3 = r3
    Requests <- MCRequests3
    MaxAttempts = 3
    MaxPollErrors = 0
    Outcomes <- MCOutcomes
    Moves <- MCMoves
    FetchedStatuses <- MCFetchedAll
SYMMETRY RequestSymmetry
INVARIANT AtMostOnePayment
CHECK_DEADLOCK FALSE
