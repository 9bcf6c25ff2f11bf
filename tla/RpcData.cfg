SPECIFICATION Spec
CONSTANTS
    Conns = {c1}
    Methods <- ClassMethods
    MaxCalls = 2
    BufCap = 2
INVARIANT OkDeliversData
