CONSTANTS
    p1 = p1
    p2 = p2
    p3 = p3
    Processes <- MCProcesses
    Limits <- MCLimits
    NTasks = 2
    MaxBatch = 2
    MaxFaults = 0
    MaxCrashes = 0
SPECIFICATION Spec
INVARIANTS PublishersDisjoint
CHECK_DEADLOCK FALSE
