SPECIFICATION FairSpec
CONSTANTS
    Keys <- AllKeys
    EdgeQueueMax = 2
    MaxTasks = 3
    MaxPresses = 2
    MaxTaps = 1
    MaxLosses = 1
CHECK_DEADLOCK FALSE
INVARIANT TypeOK
INVARIANT NoStuckKey
INVARIANT TablesAreLive
PROPERTY EdgesAreServed
PROPERTY StopEnds
