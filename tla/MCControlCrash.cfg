SPECIFICATION ControlSpec
CONSTANTS
    MaxConnections = 1
    MaxRequests = 4
    Multiplayer = FALSE
    MultiThreaded = FALSE
    Realtime = {FALSE}
    MaxRealtime = 5
    Windows = FALSE
    NDEBUG = FALSE
PROPERTIES
    CrashIsDetected
