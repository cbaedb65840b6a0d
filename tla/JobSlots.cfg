SPECIFICATION Spec
CONSTANTS
    s1 = s1
    s2 = s2
    j1 = j1
    j2 = j2
    c1 = c1
    c2 = c2
    c3 = c3
    small = small
    large = large
    huge = huge
    Slots <- MCSlots
    Jobs <- TwoJobs
    Ids <- ThreeIds
    Bodies <- MCBodies
    SizeOf <- MCSizeOf
    Times = {10, 11}
    Counting = "includes"
    MAX_COINBASE_SECTION_BYTES = 5
    MAX_COINBASES_PER_SLOT = 2
    MAX_LIVE_SLOTS = 1
    MAX_CB_CACHE = 1
    MAX_H2_CACHE = 1
    Budget = 5
    None = None
SYMMETRY Symmetry
INVARIANTS
    HeldWithinBudget
    CachesFollowSections
