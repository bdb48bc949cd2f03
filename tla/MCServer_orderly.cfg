CONSTANTS
    Conns = {c1, c2, c3}
    ClientFds = {5, 6}
    ListenFd = 3
    EventFd = 4
    NoConn = NoConn
    MaxFrames = 2
    Replies = {1}
    Deactivates = FALSE
    Orderly = TRUE
    AddMayFail = FALSE
    Rehash = FALSE
CHECK_DEADLOCK FALSE
SPECIFICATION FairSpec
INVARIANTS
    AnswersOwnRequest
PROPERTIES
    RequestAnswered
