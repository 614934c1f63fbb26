CONSTANTS
    t1 = t1
    w1 = w1
    w2 = w2
    c1 = c1
    none = none
    NoTask = none
    Tasks <- MCTasks
    Workers <- MCWorkers
    Cancellers <- MCCancellers
    Batch <- MCTasks
    Routable <- MCTasks
    Outcomes <- MCOutcomes
    MaxRetries = 0
    MaxPublishes = 1
    MaxFaults = 0
    MaxDisruptions = 0
SPECIFICATION Spec

PROPERTY TerminalIsFinal
CHECK_DEADLOCK FALSE
