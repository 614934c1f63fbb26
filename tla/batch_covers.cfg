CONSTANTS
    t1 = t1
    t2 = t2
    w1 = w1
    c1 = c1
    none = none
    NoTask = none
    Tasks <- MCTasks
    Workers <- MCWorkers
    Cancellers <- MCCancellers
    Batch <- MCTasks
    Routable <- MCTasks
    Outcomes <- MCOutcomes
    MaxRetries = 0
    MaxPublishes = 1
    MaxFaults = 1
    MaxDisruptions = 0
SPECIFICATION Spec
INVARIANT BatchCancelCovers
CHECK_DEADLOCK FALSE
