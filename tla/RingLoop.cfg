SPECIFICATION Spec
CONSTANT MAX_SERVERS = 5
INVARIANT LoopMatchesClosedForm
PROPERTY LoopEnds
CHECK_DEADLOCK FALSE
