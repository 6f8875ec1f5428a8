SPECIFICATION Spec
CONSTANTS
    MaxEntries = 5
    MaxTroubles = 2
CHECK_DEADLOCK FALSE
INVARIANT NothingForgotten
