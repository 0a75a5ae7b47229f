SPECIFICATION FairSpec
CONSTANTS
    Writers = {w1, w2}
    Queries = {}
    Capacity = 3
    MaxAttempts = 2
    SyncMayFail = TRUE
    MaxLog = 5
    MaxGen = 2
PROPERTIES GatePasses
