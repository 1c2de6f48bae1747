SPECIFICATION Spec
CONSTANTS
    d1 = d1
    d2 = d2
    p1 = p1
    p2 = p2
    Drivers = {d1, d2}
    Passengers = {p1, p2}
    None = None
    MaxStarts = 4
    MaxCrashes = 2
    MaxDenials = 1
SYMMETRY Symmetry
INVARIANT TypeOK
INVARIANT OneDriverEach
INVARIANT TravelsCarried
INVARIANT PaysForRide
INVARIANT NobodyForgotten
PROPERTY KeepsContract
CHECK_DEADLOCK FALSE
