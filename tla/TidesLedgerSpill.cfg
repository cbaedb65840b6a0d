SPECIFICATION LedgerSpec
CONSTANTS
    alice = alice
    bob = bob
    Idents <- MCIdents
    Works = {1, 2}
    Targets = {2, 4}
    COMPACT_SLACK = 1
    BUF_ROWS = 1
    MaxShares = 4
    MaxStops = 1
SYMMETRY Symmetry
INVARIANT
    ReplayExact
