SPECIFICATION MOSpec
CONSTANTS
    Checked = {"KexMsg", "ClientConnectedStateRequest", "ServerConnectedStateResponse",
               "ClientAuthRequest", "ServerAuthResponse", "UserRequest", "ServerResponse", "Test"}
    Newer <- TheNewerField
    MaxUnknown = 2
INVARIANTS RetainedIsEmpty SizeIsExact
PROPERTY ImplementsValues
CHECK_DEADLOCK FALSE
