SPECIFICATION Spec
CONSTANTS
    UpdateBackup = 4
    RingSize = 8
    EntityCounts = {2}
    OtherCounts = {2}
    MaxReliable = 2
    CommandAge = 3
    MaxFrames = 5
    MaxInputs = 2
    MaxInFlight = 1
INVARIANTS
    TypeOK
    EveryFrameDecodes
    GameCommandsStoredOnce
    GameCommandsInOrder
    NoDeltaHonoured
PROPERTIES
    ShowsFramesInOrder
CHECK_DEADLOCK FALSE
