SPECIFICATION Spec
CONSTANTS
    Idents = {1, 2, 3, 4}
    ScriptOf <- Distinct
    ScriptLen = 22
    NoScript = "none"
    PoolScript = "pool"
    OpReturns = {"commit1", "commit2", "witness"}
    Witness = "witness"
    Unissued = Unissued
    House = {2}
    Setups <- DefaultSetups
    MaxBlocks = 2
INVARIANTS
    PaidInFull
