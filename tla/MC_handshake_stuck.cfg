SPECIFICATION FairSpec
CONSTANTS
    MaxLevel = 2
    MaxInFlight = 1
    MaxUpdates = 0
    MaxRequests = 0
PROPERTIES
    HandshakeEnds
CHECK_DEADLOCK FALSE
