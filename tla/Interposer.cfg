SPECIFICATION Spec
CONSTANTS
    Threads = {t1, t2}
    Remotes <- Nodes2
    PerNode <- TwoAndOne
    MaxDevices = 5
    Answers = {0, 1, 2, 4}
    Calls <- OneOfEach
    MaxCalls = 2
SYMMETRY Symmetry
INVARIANTS TablesInverse ErrorIsOwn DeviceKnown RoutedToBound StaysWithMemory
