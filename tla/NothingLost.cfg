SPECIFICATION FairSpec
CONSTANTS
    MAX_SERVERS = 5
    Server = {1, 2}
    FirstLeader = 1
    Drivers = {d1}
    Passengers = {p1}
    None = None
    MaxLeaderCrashes = 1
    MaxDriverCrashes = 0
    MaxLogins = 1
    MaxRides = 1
    MaxPongs = 1
PROPERTY NothingLost
CHECK_DEADLOCK FALSE
