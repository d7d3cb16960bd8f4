CONSTANTS
    t1 = t1
    t2 = t2
    Threads <- TwoThreads
    Builders = {1, 2, 3}
    Cap = 3
    MaxLeaks = 1
    ErrorCodes <- ServerCodes
    MaxId = 4
SPECIFICATION Spec
SYMMETRY ThreadSymmetry
INVARIANTS
    AcceptedIsMine
    ServerErrorIsReported
    MatchInv
PROPERTIES
    ImplementsOwnAnswers
CHECK_DEADLOCK FALSE
