CONSTANTS
    Conns = {c1, c2}
    ClientFds = {5}
    ListenFd = 3
    EventFd = 4
    NoConn = NoConn
    MaxFrames = 2
    Replies = {1}
    Deactivates = FALSE
    Orderly = FALSE
    AddMayFail = FALSE
    Rehash = TRUE
CHECK_DEADLOCK FALSE
SPECIFICATION FairSpec
INVARIANTS
    TypeOK
    TablesAgree
    NoStrandedInput
    OwnSession
    NotificationAccounting
PROPERTIES
    ClosedOnlyIfGone
    GoneIsClosed
