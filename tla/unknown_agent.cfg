CONSTANTS
    t1 = t1
    t2 = t2
    w1 = w1
    none = none
    NoTask = none
    Tasks <- MCTasks
    Workers <- MCWorkers
    Cancellers = {}
    Batch = {}
    Routable <- MCRoutable
    Outcomes <- MCOk
    MaxRetries = 1
    MaxPublishes = 1
    MaxFaults = 0
    MaxDisruptions = 0
SPECIFICATION FairSpec

PROPERTY PublishedIsFinalized
CHECK_DEADLOCK FALSE
