SPECIFICATION IssueSpec
CONSTANTS
    IDS = 3
    KEPT = 2
    KEEP = 3
    JobLag = 4
    JobAge = 2
    PruneTime = 1
    RECORDS = 1
    MaxIssued = 5
    MaxBlocks = 2
    None = None
INVARIANTS
    OwnList
    SnapshotsKept
PROPERTIES
    OthersGo
