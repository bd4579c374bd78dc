SPECIFICATION FairSpec
CONSTANTS
    N = 3
    Threads <- MCThreads
    Indexed <- MCIndexed
    Executions = {e1, e2}
    StallsAnywhere = FALSE
    MaxClaims = 4
    MaxFaults = 2
    MaxStalls = 1
INVARIANTS TypeOK NothingLost CheckpointHolds CompletedIsWhole
PROPERTIES NeverBackwards OnlyTheHolder FinishesUnlessLost Exchanges
CHECK_DEADLOCK FALSE
