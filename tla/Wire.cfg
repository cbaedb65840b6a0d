SPECIFICATION WireSpec
CONSTANTS
    BITS = 2
    BYTES = 4
    TOP = 1
    WORDS = 3
    WORD = 3
    HEAD = 2
    EXTRANONCE = 2
    RESERVED = 1
    SEAL = 2
    TIME = 1
    JOB = 2
    HASH = 2
    MAX_USERNAME = 2
    REQUEST = 2
    MAX_OUTPUTS = 4
    MIN_SCRIPT = 2
    MAX_SCRIPT = 3
    SATS = 2
    Malformed = Malformed
    BASE = 8
    U32 = 4
    U64 = 8
    PREVOUT = 3
    SLOT = 2
    MIN_SIG = 2
    MAX_SIG = 9
    MAX_TXOUTS = 6
    MAX_TXSCRIPT = 7
    COINBASE_WITNESS <- MCWitness
    NotCoinbase = NotCoinbase
    Shares <- MCShares
    Pads <- MCPads
    Replies <- MCReplies
    Payees = 3
    PayeeBytes = 15
    Scripts <- MCScripts
    UsualScript = 3
    Heights = {0, 1, 7, 8, 63, 64, 511}
    Txouts <- MCTxouts
    LockTimes = {0, 7}
    Varints <- MCVarints
    MaxTxs = 9
    mining = mining
    info = info
    hello = hello
    Msgs <- MCMsgs
    LenOf <- MCLenOf
    Boxed = {mining}
    Fatal = {hello}
    HDR = 2
    MaxLen = 3
    Chunk = 4
    MaxFrames = 5
    NoHeader = NoHeader
INVARIANTS
    BufferBounded
    WorkExact
    MessagesExact
    PayeesListed
    CoinbaseExact
PROPERTIES
    ImplementsFifo
CHECK_DEADLOCK FALSE
