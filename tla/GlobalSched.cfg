SPECIFICATION Spec
CONSTANTS
    Small = {t1, t2, t3}
    Large = t4
    Empty = t5
    Threads <- Clients
    MaxDevices = 4
    MaxCounted = 3
    Weights = 2
    DevicesOf <- KnownDevices
    LocalOf <- LastLocal
    AppOf <- LargeApp
    Weight <- TwoWeights
    M = 6
    Policies <- DifferentPolicies
    MaxGets <- EmptyTwice
SYMMETRY Alike
INVARIANTS Balanced CountsThreads FittingClientsHarmless
PROPERTY PicksLeastLoaded
