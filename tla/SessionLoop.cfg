SPECIFICATION Spec
CONSTANTS
    HANDSHAKE_LIMIT = 1
    KEEPALIVE = 1
    IDLE_LIMIT = 2
    COINBASER_BURST = 2
    COINBASER_REFILL = 3
    REJECT_FLOOD = 2
    REJECT_WINDOW = 2
    Batch = 2
    Span = 4
CHECK_DEADLOCK FALSE
INVARIANTS
    WatchdogsHold
    CostBounded
PROPERTIES
    SilentEnds
