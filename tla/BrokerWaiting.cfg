SPECIFICATION FairSpec
CONSTANTS
    Mcp = {1, 2}
    Act = {a1, a2}
    Worker = {w1}
    Req = {}
    None = None
    MaxFaults = 0
PROPERTY WaitingActivates
CHECK_DEADLOCK FALSE
