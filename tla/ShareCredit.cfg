SPECIFICATION Spec
CONSTANTS
    s1 = s1
    s2 = s2
    x1 = x1
    x2 = x2
    x3 = x3
    Sessions <- MCSessions
    Shares <- MCShares
    HeightOf <- MCHeightOf
    MAX_PER_HEIGHT = 1
    MAX_TOTAL = 2
    MaxHeight = 4
    MaxReorg = 2
    MaxLag = 2
    MaxRestarts = 1
    Identities = {address, worker}
    Payable = {address}
    NoShare = NoShare
INVARIANTS
    CreditedOnce
    DedupCoversLive
    SeenBounded
    SeenIsCredited
