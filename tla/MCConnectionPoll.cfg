SPECIFICATION Spec
CONSTANTS
    MaxConnections = 1
    MaxRequests = 1
INVARIANTS
    PollResponseMeansQueued
