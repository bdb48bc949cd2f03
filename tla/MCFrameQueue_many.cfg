CONSTANTS
    Fetchers = {f1, f2, f3}
    Buffers = {b1, b2, b3, b4}
    NoBuffer = NoBuffer
    Items <- AllFrames
    Limits = {0, 2}
    MaxAccepted = 4
SPECIFICATION FQSpec
SYMMETRY FetcherSymmetry
INVARIANTS
    WQTypeOK
    NoLostWakeup
    CancelReachesAll
    FifoOnce
    SoleOwner
    NoLeak
    QueuedFramesOwn
