SPECIFICATION ControlSpec
CONSTANTS
    MaxConnections = 1
    MaxRequests = 6
    Multiplayer = TRUE
    MultiThreaded = FALSE
    Realtime = {FALSE}
    MaxRealtime = 5
    Windows = FALSE
    NDEBUG = FALSE
INVARIANTS
    EndIsAnnounced
