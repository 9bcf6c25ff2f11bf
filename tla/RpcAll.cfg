SPECIFICATION FairSpec
CONSTANTS
    Conns = {c1}
    Methods <- AllMethods
    MaxCalls = 2
    BufCap = 3
INVARIANTS ResponseFits OkWasExecuted Framing InOrderOnce
PROPERTIES CallReturns EventuallyExecuted ImplementsService
