CONSTANTS
    Base = 3
    Header = 2
    Messages <- MCMessages
    Cuts = {"header", "msg"}
    MaxFrames = 2
CHECK_DEADLOCK FALSE
SPECIFICATION FairSpec
INVARIANTS
    SPTypeOK
PROPERTIES
    FramesInOrder
    EveryFrameRead
