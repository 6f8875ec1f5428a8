SPECIFICATION FairSpec
CONSTANTS
    c1 = c1
    c2 = c2
    Callers <- MCCallers
    Available <- MCAvailable
    MaxSaves = 2
    DiskRefuses = TRUE
INVARIANT TypeOK
INVARIANT OneSequence
INVARIANT RestartKeepsMode
PROPERTY ModeStillDuringFlow
PROPERTY IntentStands
PROPERTY RefinesAuthority
PROPERTY FlowEnds
PROPERTY ModeReachesDisk
