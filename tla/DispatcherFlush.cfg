SPECIFICATION OrderedSpec
CONSTANTS
    e1 = e1  e2 = e2  e3 = e3
    b1 = b1  p1 = p1  f1 = f1  f2 = f2
    None = None
    Event = {e1, e2}
    Task = {b1}
    Pending = {p1}
    Flush = {f1, f2}
    Transformed = {e1}
    Injected = {}
    Guarded = {e1}
INVARIANTS TypeOK FailClosed FlushCovers PermitHeld
PROPERTIES ReservedOrder FlushOrder
CHECK_DEADLOCK FALSE
