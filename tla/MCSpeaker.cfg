SPECIFICATION FairSpec
CONSTANTS
    MaxEvents = 3
CHECK_DEADLOCK FALSE
INVARIANT TypeOK
INVARIANT MirrorAgrees
INVARIANT NoFalseAlarm
PROPERTY TruthArrives
