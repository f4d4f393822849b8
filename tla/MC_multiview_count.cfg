SPECIFICATION Spec
CONSTANTS
    Player = {p1}
    HostOf <- OneHost
    MultiviewPlayer = {p1}
    NoPlayer = NoPlayer
    NoHost = NoHost
    MaxClients = 2
    MaxChallenges = 1
    MaxMvClients = 2
    IpLimit = 2
    TimeoutTime = 1
    ZombieTime = 1
    ReconnectLimit = 1
    Lifetime = 0
    MaxTime = 5
    MaxIssued = 2
    MaxLevels = 1
    MaxInFlight = 2
INVARIANTS
    MultiviewCounted
CHECK_DEADLOCK FALSE
