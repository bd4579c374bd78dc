SPECIFICATION FairSpec
CONSTANTS
    Shas = {a}
    Memories = {m1}
    Requests = {r1}
    Migrators = {}
    Sweepers = {g}
    GraceCovers = TRUE
    MaxRows = 2
    MaxFailures = 1
    MaxStops = 2
    MaxPuts = 0
    None = None
PROPERTIES DiscardedAreReclaimed
