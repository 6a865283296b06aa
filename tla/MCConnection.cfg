SPECIFICATION FairSpec
CONSTANTS
    MaxConnections = 3
    MaxRequests = 4
INVARIANTS
    TypeOK
    IndInv
    NoStaleResponse
    DeliveredInOrder
    QueuedIsAnnounced
    FalseAnnouncementNeedsTimeout
    PopFindsResponse
    ClearRunsAlone
    NoCallbackAfterQuit
PROPERTIES
    CallsReturn
    ImplementsChannel
