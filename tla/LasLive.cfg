SPECIFICATION FairSpec
CONSTANTS
    Procs = {p1, p2}
    NumGpus = 1
    N = 3
    Costs = {1}
    Mortal = {p1}
    FifoCap = 1
    MaxReqs = 3
PROPERTIES CallsReturn SlotFreed FavourFollowsService
