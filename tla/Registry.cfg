SPECIFICATION Spec
CONSTANTS
    Threads = {t1, t2}
    NNodes = 2
    a = a
    b = b
    c = c
    Bins = {a, b, c}
    Old = {b}
    Fns <- Kernels
    MAX_REGISTERED_FUNCS = 1
    MaxLoads = 3
SYMMETRY Symmetry
INVARIANTS RegistriesAgree LaunchFound SymbolFound
