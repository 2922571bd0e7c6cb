SPECIFICATION Spec
CONSTANTS
    p1 = p1  p2 = p2
    Processes <- OneProcess
    MaxUpdates = 0
    MaxUninstalls = 1
    MaxFaults = 0
INVARIANT NothingLaunchedAgain
CHECK_DEADLOCK FALSE
