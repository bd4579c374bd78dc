SPECIFICATION Spec
CONSTANTS
    Shas = {a}
    Memories = {m1}
    Requests = {r1}
    Migrators = {}
    Sweepers = {g}
    GraceCovers = TRUE
    MaxRows = 1
    MaxFailures = 0
    MaxStops = 1
    MaxPuts = 0
    None = None
SYMMETRY Symmetry
INVARIANTS BytesBehindReferences
