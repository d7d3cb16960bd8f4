CONSTANTS
    t1 = t1
    t2 = t2
    Threads <- TwoThreads
    Builders = {1, 2, 3}
    Cap = 4
    MaxLeaks = 1
    ErrorCodes <- CodesWithZero
    MaxId = 4
SPECIFICATION Spec
SYMMETRY ThreadSymmetry
INVARIANTS
    ServerErrorIsReported
CHECK_DEADLOCK FALSE
