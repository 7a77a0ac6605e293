SPECIFICATION FairSpec
CONSTANTS
    t1 = t1
    t2 = t2
    Scopes <- MCScopes
    Workers = {w1, w2}
    StepLimit = 2
    MaxMoves = 1
    MaxFaults = 1
    None = None
CHECK_DEADLOCK FALSE
INVARIANTS ReviewedWorkOnly WorkIsReserved EarlierAreDone
PROPERTIES RunningIsResolved
