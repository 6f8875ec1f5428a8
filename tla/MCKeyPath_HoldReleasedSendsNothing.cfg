SPECIFICATION FairSpec
CONSTANTS
    Keys <- HoldKey
    EdgeQueueMax = 2
    MaxTasks = 3
    MaxPresses = 2
    MaxTaps = 1
    MaxLosses = 0
CHECK_DEADLOCK FALSE
PROPERTY HoldReleasedSendsNothing
