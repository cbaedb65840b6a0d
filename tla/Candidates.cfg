SPECIFICATION Spec
CONSTANTS
    Ids = {i1, i2}
    Templates = {t1, t2}
    Blocks = {b1, b2}
    TTL = 2
    EarlyReuse = FALSE
    MaxSessions = 2
    MaxUnasked = 1
    None = None
INVARIANTS OwnTransactions PendingIsHeld
PROPERTIES Resolved
CHECK_DEADLOCK FALSE
