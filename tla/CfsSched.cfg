SPECIFICATION FairSpec
CONSTANTS
    Procs = {p1, p2}
    Mortal = {p1}
    Recycles = 1
    NumSigs = 2
    MaxPend = 2
CHECK_DEADLOCK FALSE
INVARIANT TogglesInStep
PROPERTIES ServedInTurn QueueCallsReturn
