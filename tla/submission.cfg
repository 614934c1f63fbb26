CONSTANTS
    b1 = b1
    b2 = b2
    t1 = t1
    t2 = t2
    k = k
    NoKey = NoKey
    Shared = Shared
    Requests <- MCRequests
    Singles <- MCSingles
    Key <- MCKey
    Total <- MCTotal
    MaxSubmitted = 3
    MaxFaults = 1
SPECIFICATION Spec
INVARIANTS TypeOK OneBatchPerKey InputsKept OwnDirectoryStays OnlyThoseLeaveFiles NobodyWaitsForever
PROPERTIES ImplementsRegistry
CHECK_DEADLOCK FALSE
