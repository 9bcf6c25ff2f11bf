SPECIFICATION ServerFairSpec
CONSTANTS
    Conns = {c1, c2}
    MaxStarts = 2
    MaxCalls = 1
    NoConn = NoConn
CHECK_DEADLOCK FALSE
PROPERTIES ClientAccepted EndIsSeen
