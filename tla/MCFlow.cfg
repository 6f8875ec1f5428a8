SPECIFICATION Spec
CONSTANTS
    MaxEvents = 3
    Attempts = 2
CHECK_DEADLOCK FALSE
INVARIANT TypeOK
INVARIANT BeliefFollows
INVARIANT SuccessIsTrue
INVARIANT NothingLeftRunning
