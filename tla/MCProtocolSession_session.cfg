CONSTANTS
    Operations = {"connect", "authenticate", "fetchRequest"}
    Requests <- TheRequests
    OtherFrames <- TheOtherFrames
    Credentials <- TheCredentials
    Methods = {"trust", "right"}
    Factories = {"test", "null", "none"}
    UserTables <- TheTables
    Attempts = 1
    MaxCalls = 3
    MaxChanges = 1
CHECK_DEADLOCK FALSE
SPECIFICATION PSSpec
INVARIANTS
    KeysAgree
    AnswersInStep
    AuthenticatedMeansAccepted
    EchoIsOwn
    WorkerSurvives
PROPERTIES
    PhasesRespected
    CallEnds
