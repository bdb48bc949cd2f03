CONSTANTS
    Fetchers = {w}
    TheWorker = w
    Items = {a}
    Limits = {}
    MaxAccepted = 3
    Callers = {"SIGINT", "stop", "terminate"}
CHECK_DEADLOCK FALSE
SPECIFICATION LCFairSpec
INVARIANTS
    LCTypeOK
    JoinMeetsNoSleeper
    WorkerOutlivesThread
PROPERTIES
    JoinEnds
    StopEndsRun
    FramesAreTaken
