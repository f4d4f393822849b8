SPECIFICATION Spec
CONSTANTS
    CmdBackup = 3
    Few = 1
    MaxDelay = 2
    MaxMoves = 6
    MaxTime = 3
    MaxAhead = 0
    MaxSetBack = 1
    MaxInFlight = 1
INVARIANTS
    TypeOK
    MovesInOrder
    NoMoveLost
CHECK_DEADLOCK FALSE
