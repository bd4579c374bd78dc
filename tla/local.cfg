SPECIFICATION FairSpec
CONSTANTS
    Absent = Absent
    NoJournal = NoJournal
    CleanupStops = FALSE
    MaxFaults = 3
    MaxBackups = 2
INVARIANTS TypeOK PartsKept
PROPERTIES RestoresAtomically RestoresFinish
CHECK_DEADLOCK FALSE
