SPECIFICATION FairSpec
CONSTANTS
    r1 = r1  r2 = r2  r3 = r3
    Requests <- MCRequests2
    MaxAttempts = 2
    MaxPollErrors = 1
    Outcomes <- MCOutcomes
    Moves <- MCMoves
    FetchedStatuses <- MCFetched
PROPERTY AttemptDecided
CHECK_DEADLOCK FALSE
