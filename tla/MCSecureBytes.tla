--------------------------- MODULE MCSecureBytes ---------------------------
EXTENDS SecureBytes, TLC

AllAdapters == SUBSET {"pages", "cipher"}
Interchangeable == Permutations(Arrays) \cup Permutations(Handles) \cup Permutations(Blocks)

============================================================================
