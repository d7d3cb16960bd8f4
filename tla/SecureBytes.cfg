CONSTANTS
    Arrays = {a1, a2}
    Handles = {h1, h2, h3}
    Blocks = {b1, b2, b3}
    None = None
    MaxCount = 2
    Adapters <- AllAdapters
SYMMETRY Interchangeable
SPECIFICATION Spec
CHECK_DEADLOCK FALSE
INVARIANTS
    SecureInv
    OpenOnlyWhileHeld
    HoldersCanUse
