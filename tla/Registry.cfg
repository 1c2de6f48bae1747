SPECIFICATION FairSpec
CONSTANTS
    MAX_SERVERS = 5
    Server = {1, 2}
    FirstLeader = 1
    Drivers = {d1}
    Passengers = {p1}
    None = None
    MaxLeaderCrashes = 1
    MaxDriverCrashes = 1
    MaxLogins = 2
    MaxRides = 1
    MaxPongs = 1
INVARIANT TypeOK
INVARIANT RegistryConsistent
INVARIANT RiderReachable
PROPERTY FreeDriversListed
CHECK_DEADLOCK FALSE
