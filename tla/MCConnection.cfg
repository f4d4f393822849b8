SPECIFICATION FairSpec
CONSTANTS
    MaxLevel = 2
    MaxInFlight = 1
    MaxUpdates = 1
    MaxRequests = 1
INVARIANTS
    IInv
    SpawnedIsReady
    FrameOfItsLevel
    UpdateOfItsLevel
PROPERTIES
    FirstHandshakeEnds
CHECK_DEADLOCK FALSE
