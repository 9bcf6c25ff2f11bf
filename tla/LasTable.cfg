SPECIFICATION Spec
CONSTANTS
    Procs = {p1, p2}
    NumGpus = 2
    N = 2
    Costs = {1}
    Mortal = {}
    FifoCap = 1
    MaxReqs = 3
SYMMETRY Symmetry
INVARIANTS SlotOwned ServiceCharged
