SPECIFICATION FairSpec
CONSTANTS
    MAX_SERVERS = 5
    FirstLeader = 1
    Replicas = {2, 3, 4, 5}
    None = None
    MaxCrashes = 4
    MaxRestarts = 0
    MaxPings = 0
    MaxLatePings = 0
    MaxElections = 1
    MaxLosses = 0
    Timely = TRUE
    CrashesAnytime = FALSE
INVARIANT NoLiveServerSuspected
PROPERTY KeepsLeadership
PROPERTY OnlyHighestAdopted
PROPERTY HighestLeads
PROPERTY SurvivorsConnected
CHECK_DEADLOCK FALSE
