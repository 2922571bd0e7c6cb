SPECIFICATION Spec
CONSTANTS
    p1 = p1  p2 = p2
    Processes <- TwoProcesses
    MaxUpdates = 0
    MaxUninstalls = 1
    MaxFaults = 1
SYMMETRY ProcessSymmetry
INVARIANTS TypeOK ManagersConverge SchedulesRecorded
CHECK_DEADLOCK FALSE
