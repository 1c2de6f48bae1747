SPECIFICATION Failovers
CONSTANTS
    MAX_SERVERS = 4
    FirstLeader = 1
    Replicas = {2, 3, 4}
    None = None
    MaxCrashes = 2
    MaxRestarts = 0
    MaxPings = 0
    MaxLatePings = 0
    MaxElections = 2
    MaxLosses = 0
    Timely = TRUE
    CrashesAnytime = TRUE
INVARIANT MarksStoppedLeader
CHECK_DEADLOCK FALSE
