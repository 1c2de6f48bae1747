SPECIFICATION FairSpec
CONSTANTS
    d1 = d1
    p1 = p1
    p2 = p2
    Drivers = {d1}
    Passengers = {p1, p2}
    None = None
    MaxStarts = 4
    MaxCrashes = 1
    MaxDenials = 0
PROPERTY DriversFreed
PROPERTY RidersArrive
CHECK_DEADLOCK FALSE
