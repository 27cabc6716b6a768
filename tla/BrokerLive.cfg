SPECIFICATION MCFairSpec
CONSTANTS
    Mcp = {1, 2}
    Act = {a1, a2, a3}
    Worker = {w1, w2}
    Req = {}
    None = None
    MaxFaults = 1
PROPERTIES TransitionsEnd
CHECK_DEADLOCK FALSE
