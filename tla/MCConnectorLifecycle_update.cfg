SPECIFICATION FairSpec
CONSTANTS
    p1 = p1  p2 = p2
    Processes <- OneProcess
    MaxUpdates = 1
    MaxUninstalls = 1
    MaxFaults = 0
INVARIANT PeriodsAgree
PROPERTY UninstallEnds
CHECK_DEADLOCK FALSE
