CONSTANTS
    Base = 4
    Header = 3
    Messages <- MCShort
    Cuts = {"header", "len", "msg"}
    MaxFrames = 2
CHECK_DEADLOCK FALSE
SPECIFICATION Spec
INVARIANTS
    FullFrames
