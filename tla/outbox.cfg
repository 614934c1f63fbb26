CONSTANTS
    p1 = p1
    p2 = p2
    p3 = p3
    Processes <- MCProcesses
    Limits <- MCLimits
    NTasks = 2
    MaxBatch = 2
    MaxFaults = 1
    MaxCrashes = 1
SPECIFICATION FairSpec
INVARIANTS TypeOK DispatchedWasSent ClaimsAreHeld ReconcilesDisjoint
PROPERTIES DispatchedIsFinal EveryRowDispatched ImplementsPublisher
CHECK_DEADLOCK FALSE
