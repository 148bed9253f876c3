CONSTANTS
    c1 = c1
    c2 = c2
    empty = empty
    k = k
    v1 = v1
    v2 = v2
    long = long
    Client = {c1, c2}
    Main = Main
    Str <- MCStr
    LenOf <- MCLenOf
    MAX_STR_LEN = 2
    MaxSignals = 0
    None = None
    Destroyed = Destroyed
    Request <- FewRequests
    MaxAsks = 1
    Dying = {c1, c2}
SPECIFICATION Spec
INVARIANTS
    ConnectedAreServed
SYMMETRY Interchangeable
CHECK_DEADLOCK FALSE
