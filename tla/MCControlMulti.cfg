SPECIFICATION ControlFairSpec
CONSTANTS
    MaxConnections = 2
    MaxRequests = 5
    Multiplayer = TRUE
    MultiThreaded = TRUE
    Realtime = {FALSE, TRUE}
    MaxRealtime = 4
    Windows = FALSE
    NDEBUG = FALSE
INVARIANTS
    OneRequestInFlight
    ResponsesMatch
    EndIsAnnounced
    LeaveAnswerIsThere
PROPERTIES
    CoordinatorReturns
