CONSTANTS
    t1 = t1
    none = none
    NoTask = none
    Tasks <- MCTasks
    Workers <- MCWorkers
    w1 = w1
    Cancellers = {}
    Batch = {}
    Routable <- MCTasks
    Outcomes <- MCOutcomes
    MaxRetries = 2
    MaxPublishes = 1
    MaxFaults = 0
    MaxDisruptions = 0
SPECIFICATION Spec
INVARIANT FailsOnlyAfterLastRetry
CHECK_DEADLOCK FALSE
