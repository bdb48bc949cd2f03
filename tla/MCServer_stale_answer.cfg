CONSTANTS
    Conns = {c1, c2}
    ClientFds = {5}
    ListenFd = 3
    EventFd = 4
    NoConn = NoConn
    MaxFrames = 1
    Replies = {1}
    Deactivates = FALSE
    Orderly = FALSE
    AddMayFail = FALSE
    Rehash = FALSE
CHECK_DEADLOCK FALSE
SPECIFICATION Spec
INVARIANTS
    AnswersOwnRequest
