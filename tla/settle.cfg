SPECIFICATION FairSpec
CONSTANTS
    v1 = v1  v2 = v2
    Targets = {t1}
    Versions = {v1, v2}
    Spaces = {s1, s2}
    FirstSpace = s1
    Attempts = {a1}
    Jobs = {j1, j2}
    MaxChunks = 2
    ChunkCount <- TwoCounts
    MaxEdits = 2
    MaxFaults = 1
    MaxSwitches = 1
    None = None
    NotTarget = NotTarget
    Deleted = Deleted
    Unknown = Unknown
INVARIANTS TypeOK CompleteIsTruthful NoForeignRows
PROPERTIES KeepsSettling
CHECK_DEADLOCK FALSE
