SPECIFICATION FairSpec
CONSTANTS
    Order <- MCOrder
    TableOf <- MCTableOf
    Vectors = {"memory_vector"}
    Forced = {}
    Asked <- MCAsked
    Intervals = {"compact", "prune"}
    None = None
    MaxRequests = 1
    MaxFaults = 1
    MaxChanges = 1
    MaxDrops = 1
INVARIANTS TypeOK OnePermit
PROPERTIES KeptUp
CHECK_DEADLOCK FALSE
