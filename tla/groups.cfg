SPECIFICATION Spec
CONSTANTS
    first = first
    spawned = spawned
    second = second
    Threads = {first, second, spawned}
    Present = {spawned, second}
    Evidence <- MCEvidence
    Batches <- MCBatches
    MaxGroups = 4
    MaxActs = 2
    AttachesAlone = TRUE
    None = None
INVARIANTS TypeOK FamiliesTogether HomesResolve NoEmptyAutomaticGroup PlaceholdersAreMarked
PROPERTIES OperatorsStay
