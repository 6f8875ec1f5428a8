SPECIFICATION FairWatchSpec
CONSTANTS
    Debounce = 2
    MaxTasks = 3
    MaxEvents = 6
CHECK_DEADLOCK FALSE
INVARIANT DebounceHonoured
PROPERTY SessionSignalled
