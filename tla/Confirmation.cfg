CONSTANTS
    Second = 2
    DefaultExpiryMs = 6
    ExpiryWindow = 8
    Margin = 1
    MaxSkew = 2
    MaxTime = 9
    MaxTravel = 4
    UnknownMargin = 1
    PendingMargin = 2
    HoldSeconds = 1
    ToolTimeout = 2
SPECIFICATION Spec
INVARIANTS
    ConfirmationInv
    FinalIsTheChains
    LateIsSoon
    RefusedHasACause
PROPERTIES
    WaitEnds
    EndlessDecides
CHECK_DEADLOCK FALSE
