SPECIFICATION FairSpec
CONSTANTS
    Req = {q1, q2}
    Probe = {p1, p2}
    MaxAttempts = 1
    None = None
INVARIANTS TypeOK InFlightExact NothingAfterIdle OldTokenNeverReopens
PROPERTIES DeadlineKept DrainEnds
CHECK_DEADLOCK FALSE
