SPECIFICATION Spec
CONSTANTS
    Shas = {a, b}
    Memories = {m1, m2}
    Requests = {r1, r2}
    Migrators = {t}
    Sweepers = {g}
    GraceCovers = TRUE
    MaxRows = 1
    MaxFailures = 1
    MaxStops = 0
    MaxPuts = 0
    None = None
SYMMETRY Symmetry
INVARIANTS TypeOK BytesBehindReferences
