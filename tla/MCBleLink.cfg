SPECIFICATION FairSpec
CONSTANTS
    Reports <- OneReport
    RingMax = 6
    RxMax = 3
    MaxBtEvents = 1
    MaxTroubles = 1
    TxMax = 3
    MaxKeys = 2
CHECK_DEADLOCK FALSE
INVARIANT TypeOK
INVARIANT LinkReadyIsComputed
INVARIANT HostAgrees
INVARIANT KeysComeUp
PROPERTY LinkRecovers
