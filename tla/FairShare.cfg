SPECIFICATION FairSpec
CONSTANTS
    Procs = {p1, p2}
    NumGpus = 2
    N = 2
    MaxAdds = 2
CHECK_DEADLOCK FALSE
INVARIANTS Exclusive Registered
PROPERTY SectionLeft
