SPECIFICATION FairSpec
CONSTANTS
    MAX_SERVERS = 3
    FirstLeader = 1
    Replicas = {2, 3}
    None = None
    MaxCrashes = 2
    MaxRestarts = 1
    MaxPings = 1
    MaxLatePings = 1
    MaxElections = 1
    MaxLosses = 0
    Timely = TRUE
    CrashesAnytime = FALSE
INVARIANT ReignUndisturbed
PROPERTY TokensDrain
PROPERTY LeaderTrustsItsReplicas
CHECK_DEADLOCK FALSE
