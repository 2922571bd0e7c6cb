SPECIFICATION Spec
CONSTANTS
    r1 = r1  r2 = r2  r3 = r3
    Requests <- MCRequests3
    MaxAttempts = 2
    MaxPollErrors = 1
    Outcomes <- MCOutcomes
    Moves <- MCMoves
    FetchedStatuses <- MCFetched
SYMMETRY RequestSymmetry
INVARIANTS TypeOK AttemptsExclusive AtMostOnePayment LiveScheduleRecorded SuccessIsRelated
PROPERTY SuccessNeverFails
CHECK_DEADLOCK FALSE
