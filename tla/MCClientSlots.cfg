SPECIFICATION Spec
CONSTANTS
    Player = {p1, p2}
    HostOf <- OneHost
    MultiviewPlayer = {p1, p2}
    NoPlayer = NoPlayer
    NoHost = NoHost
    MaxClients = 2
    MaxChallenges = 1
    MaxMvClients = 2
    IpLimit = 2
    TimeoutTime = 1
    ZombieTime = 1
    ReconnectLimit = 1
    Lifetime = 0
    MaxTime = 5
    MaxIssued = 2
    MaxLevels = 1
    MaxInFlight = 2
SYMMETRY Interchangeable
INVARIANTS
    TypeOK
    OneSlotEach
    ChallengeUsedOnce
    SilenceEnds
PROPERTIES
    EstablishedIsNotReset
    NotTimedOutWhileHeard
CHECK_DEADLOCK FALSE
