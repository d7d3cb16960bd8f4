CONSTANTS
    Messages <- MessageKinds
    SignerLists <- AllSigners
    StatedCounts = {0, 2}
    AssetCost = 2
    WitnessCost = 1
    MaxCalls = 2
    MaxConfig = 1
    MaxHeld = 0
SPECIFICATION Spec
INVARIANTS
    FreeIsTheChains
CHECK_DEADLOCK FALSE
