CONSTANTS
    TTL = 2
    MaxTime = 3
    MaxVersion = 2
    MaxInfusion = 1
    MaxFwd = 1
    MaxBack = 1
SPECIFICATION Spec
CHECK_DEADLOCK FALSE
INVARIANTS
    PlannerInv
    ConfigIsRecent
    ForgottenStaysForgotten
    InfusionsReadInCall
