SPECIFICATION ControlSpec
CONSTANTS
    MaxConnections = 2
    MaxRequests = 6
    Multiplayer = FALSE
    MultiThreaded = FALSE
    Realtime = {FALSE, TRUE}
    MaxRealtime = 5
    Windows = TRUE
    NDEBUG = TRUE
INVARIANTS
    ControlInv
    StaleStepIsReported
    GameEndsOnce
PROPERTIES
    GivenUpIsLeftAlone
