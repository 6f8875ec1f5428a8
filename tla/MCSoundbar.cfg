SPECIFICATION Spec
CONSTANTS
    MaxEvents = 2
CHECK_DEADLOCK FALSE
INVARIANT TypeOK
INVARIANT MirrorAgrees
INVARIANT SignalsAreStarts
INVARIANT ReleaseEnds
