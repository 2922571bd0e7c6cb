SPECIFICATION FairSpec
CONSTANTS
    Schedules <- TwoSchedules
    Threshold = 2
    PageSize = 1
    MaxUpdates = 1
    MaxRetries = 1
INVARIANTS TypeOK PausedIsRecorded PausedForThisConfig
PROPERTY EventuallyPaused
CHECK_DEADLOCK FALSE
