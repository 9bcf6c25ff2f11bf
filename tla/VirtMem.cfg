SPECIFICATION VirtMemFairSpec
CONSTANTS
    Procs = {p1, p2}
    MaxIndex = 2
    NoOwner = NoOwner
INVARIANTS FirstEntryOnce ReadsBack
PROPERTY MallocReturns
CHECK_DEADLOCK FALSE
