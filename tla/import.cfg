SPECIFICATION FairSpec
CONSTANTS
    Runs = {r1, r2}
    MaxEntries = 3
    ChunkSize = 2
    Lineages <- LineagesMC
    FileOf <- FileOfMC
    MaxChanges = 2
    MaxActs = 1
    MaxFaults = 1
    None = None
INVARIANTS TypeOK ChosenParentsStay
PROPERTIES SuccessMeansWhole DeletionHolds Converges
