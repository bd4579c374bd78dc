SPECIFICATION FairSpec
CONSTANTS
    TableCount = 3
    DirCount = 2
    DirOf <- Shared
    Spaces = {s1, s2}
    MaxAttempts = 2
    MaxEdits = 2
    MaxFaults = 2
    WriterLock = TRUE
    None = None
    Empty = Empty
INVARIANTS TypeOK ServesWhole RowsAccountedFor MarkersAccountedFor
PROPERTIES NeverStuck
