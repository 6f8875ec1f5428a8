SPECIFICATION FairSpec
CONSTANTS
    c1 = c1
    c2 = c2
    Callers <- MCCallers
    Available <- MCAvailable
    MaxSaves = 2
    DiskRefuses = FALSE
INVARIANT LastSaveLands
