SPECIFICATION FairSpec
CONSTANTS
    ann = ann
    bob = bob
    cyd = cyd
    Callers = {ann, bob, cyd}
    Workloads <- Everything
    Declared <- Columns
    Loaded <- Rows
    Dead <- Gone
    Ordinals = 5
    MaxAttempts = 2
    MaxGen = 2
INVARIANTS StreamsOneMoment SchemaRoundTrip LostToProgress
PROPERTIES ImplementsTable EveryCallEnds
CHECK_DEADLOCK FALSE
