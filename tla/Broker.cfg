SPECIFICATION MCSpec
CONSTANTS
    Mcp = {1, 2}
    Act = {a1, a2, a3}
    Worker = {w1, w2}
    Req = {q1}
    None = None
    MaxFaults = 3
INVARIANTS TypeOK OwnerHoldsRoute ReadyHasSession NoLaunchInWindow OneWorkerPerGrant
PROPERTIES ImplementsLifecycle
CHECK_DEADLOCK FALSE
