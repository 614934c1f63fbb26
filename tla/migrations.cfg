CONSTANTS
    a1 = a1
    a2 = a2
    Appliers <- MCAppliers
    Versions = 3
    MaxCrashes = 1
SPECIFICATION Spec
INVARIANTS TypeOK AppliedOnce LedgerIsPrefix SuccessIsUpToDate
CHECK_DEADLOCK FALSE
