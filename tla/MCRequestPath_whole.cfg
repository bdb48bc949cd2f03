CONSTANTS
    Base = 4
    Header = 3
    Messages <- MCMessages
    Cuts = {"header", "msg"}
    MaxFrames = 3
CHECK_DEADLOCK FALSE
SPECIFICATION FairSpec
INVARIANTS
    RPTypeOK
    ClosedAfterLastFrame
PROPERTIES
    FramesInOrder
    EveryFramePushed
