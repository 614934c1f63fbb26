CONSTANTS
    t1 = t1
    t2 = t2
    Tasks <- MCTasks
    Ttl = 1
    MaxTime = 2
    MaxPolls = 1
    MaxStale = 1
    MaxFaults = 1
SPECIFICATION Spec
INVARIANTS TypeOK DerivedStatus AnswerNotTorn QueuedNotOverlooked ScrapeFresh
PROPERTIES StatusForward
CHECK_DEADLOCK FALSE
