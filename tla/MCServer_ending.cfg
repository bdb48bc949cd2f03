CONSTANTS
    Conns = {c1, c2}
    ClientFds = {5, 6}
    ListenFd = 3
    EventFd = 4
    NoConn = NoConn
    MaxFrames = 1
    Replies = {0, 1}
    Deactivates = TRUE
    Orderly = FALSE
    AddMayFail = TRUE
    Rehash = TRUE
CHECK_DEADLOCK FALSE
SPECIFICATION FairSpec
PROPERTIES
    EndedIsClosed
