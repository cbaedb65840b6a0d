SPECIFICATION LedgerSpec
CONSTANTS
    alice = alice
    bob = bob
    Idents <- MCIdents
    Works = {1, 2}
    Targets = {2, 4}
    COMPACT_SLACK = 1
    BUF_ROWS = 5
    MaxShares = 5
    MaxStops = 2
SYMMETRY Symmetry
INVARIANTS
    WindowExact
    ReplayExact
    OwnersKept
    FileBounded
PROPERTIES
    CrashKeepsWritten
    RestartKeepsWindow
