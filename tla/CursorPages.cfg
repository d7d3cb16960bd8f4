CONSTANTS
    Instances = 2
    Fungible = {1, 2, 3}
    NonFungible = {4}
    PageSize = 2
    MaxPages = 2
    MaxInfused = 1
SPECIFICATION Spec
INVARIANTS
    WalkInv
    TheWholeListOnce
PROPERTIES
    Returns
    ImplementsWholeReading
CHECK_DEADLOCK FALSE
