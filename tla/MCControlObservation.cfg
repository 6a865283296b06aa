SPECIFICATION ControlSpec
CONSTANTS
    MaxConnections = 2
    MaxRequests = 5
    Multiplayer = FALSE
    MultiThreaded = FALSE
    Realtime = {FALSE}
    MaxRealtime = 5
    Windows = FALSE
    NDEBUG = FALSE
INVARIANTS
    ObservationSurvivesFailure
