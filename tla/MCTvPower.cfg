SPECIFICATION FairSpec
CONSTANTS
    MaxSwitches = 1
    MaxLost = 1
    MaxFails = 1
    MaxFlows = 2
    MaxRefreshes = 1
CHECK_DEADLOCK FALSE
INVARIANT TypeOK
INVARIANT PowerOnIsOver
INVARIANT ToggleIsChecked
INVARIANT OkIsTrue
INVARIANT PresenceAgrees
PROPERTY TvComesOn
