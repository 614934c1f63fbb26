CONSTANTS
    t1 = t1
    t2 = t2
    w1 = w1
    none = none
    NoTask = none
    Tasks <- MCTasks
    Workers <- MCWorkers
    Cancellers = {}
    Batch = {}
    Routable <- MCRoutable
    Outcomes <- MCOutcomes
    MaxRetries = 1
    MaxPublishes = 1
    MaxFaults = 2
    MaxDisruptions = 1
SPECIFICATION FairSpec
INVARIANTS PairedAtRest
PROPERTIES TasksFollowLifecycle SessionsFollowLifecycle PublishedSettles
CHECK_DEADLOCK FALSE
