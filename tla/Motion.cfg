SPECIFICATION FairSpec
CONSTANTS
    Coordinates = {0, 1, 2, 3, 4}
    MaxMoves = 7
INVARIANT TypeOK
INVARIANT EndsOnTime
PROPERTY RideEnds
CHECK_DEADLOCK FALSE
