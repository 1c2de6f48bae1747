SPECIFICATION Spec
CONSTANTS
    d1 = d1
    p1 = p1
    Drivers = {d1}
    Passengers = {p1}
    None = None
    MaxStarts = 3
    MaxCrashes = 1
    MaxDenials = 0
INVARIANT PaidPerRide
CHECK_DEADLOCK FALSE
