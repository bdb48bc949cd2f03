CONSTANTS
    Base = 3
    Header = 2
    Messages <- MCShort
    Cuts = {"header", "msg"}
    MaxFrames = 1
CHECK_DEADLOCK FALSE
SPECIFICATION Spec
INVARIANTS
    AnsweredIsSuccess
