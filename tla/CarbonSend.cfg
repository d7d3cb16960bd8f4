CONSTANTS
    Messages <- MessageKinds
    SignerLists <- AllSigners
    StatedCounts = {0, 2}
    AssetCost = 2
    WitnessCost = 1
    MaxCalls = 2
    MaxConfig = 1
    MaxHeld = 2
SPECIFICATION Spec
INVARIANTS
    SendInv
    CreationWasChecked
    FixedWitnessesAreRight
    AbortHasACause
PROPERTIES
    ImplementsOncePayment
CHECK_DEADLOCK FALSE
