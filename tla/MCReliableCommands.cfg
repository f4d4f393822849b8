SPECIFICATION FairSpec
CONSTANTS
    Disconnect = Disconnect
    Empty = Empty
    MaxReliable = 2
    MaxInFlight = 1
    MaxAdded <- MCMaxAdded
INVARIANTS
    TypeOK
    ExecutedInOrder
    ServerKeepsUnacknowledged
    AcksAreSound
    MovesFollowCommands
    NothingAfterDisconnect
PROPERTIES
    CommandsArrive
CHECK_DEADLOCK FALSE
