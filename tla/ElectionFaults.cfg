SPECIFICATION Spec
CONSTANTS
    MAX_SERVERS = 3
    FirstLeader = 1
    Replicas = {2, 3}
    None = None
    MaxCrashes = 2
    MaxRestarts = 0
    MaxPings = 0
    MaxLatePings = 0
    MaxElections = 2
    MaxLosses = 1
    Timely = TRUE
    CrashesAnytime = TRUE
INVARIANT TypeOK
INVARIANT LeaderDominatesSender
INVARIANT RingHandlersHaveSocket
INVARIANT NoLiveServerSuspected
PROPERTY OnlyHighestAdopted
CHECK_DEADLOCK FALSE
