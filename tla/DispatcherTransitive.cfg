SPECIFICATION Spec
CONSTANTS
    e1 = e1  e2 = e2  e3 = e3
    b1 = b1  p1 = p1  f1 = f1  f2 = f2
    None = None
    Event = {e1, e2}
    Task = {}
    Pending = {p1}
    Flush = {f1}
    Transformed = {}
    Injected = {}
    Guarded = {}
INVARIANTS FlushCoversTransitively
CHECK_DEADLOCK FALSE
