SPECIFICATION Spec
CONSTANTS
    s1 = s1
    b1 = b1
    b2 = b2
    Sessions <- OneSession
    Blocks <- TwoBlocks
    Backed <- OneBlock
    Unpaid = {0, 3}
    Room = 2
    MaxReorgs = 3
    MaxCrashes = 2
    NoRecord = NoRecord
INVARIANTS
    AppliedOnce
    CarriedIsSaved
PROPERTIES
    MainIsCarried
