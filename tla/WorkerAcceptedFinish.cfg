SPECIFICATION Spec
CONSTANTS
    Req = {q1, q2}
    Probe = {p1}
    MaxAttempts = 0
    None = None
INVARIANT AcceptedFinish
CHECK_DEADLOCK FALSE
