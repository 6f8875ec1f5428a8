SPECIFICATION Spec
CONSTANTS
    MaxSwitches = 1
    MaxLost = 1
    MaxFails = 0
    MaxFlows = 2
    MaxRefreshes = 1
CHECK_DEADLOCK FALSE
INVARIANT AliveCorrects
