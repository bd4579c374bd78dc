SPECIFICATION Spec
CONSTANTS
    Shas = {a}
    Memories = {m1}
    Requests = {r1, r2}
    Migrators = {t}
    Sweepers = {g}
    GraceCovers = TRUE
    MaxRows = 2
    MaxFailures = 1
    MaxStops = 2
    MaxPuts = 1
    None = None
SYMMETRY Symmetry
INVARIANTS RemovalsOwned CountCovers
