SPECIFICATION Spec
CONSTANTS
    MaxLevel = 2
    MaxInFlight = 1
    MaxUpdates = 0
    MaxRequests = 0
INVARIANTS
    FrameHasBaselines
CHECK_DEADLOCK FALSE
