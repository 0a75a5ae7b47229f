SPECIFICATION Spec
CONSTANTS
    Writers = {w1, w2}
    Queries = {q}
    Capacity = 4
    MaxAttempts = 2
    SyncMayFail = FALSE
    MaxLog = 5
    MaxGen = 3
SYMMETRY Symmetry
INVARIANTS RowsKept CrashSafe OrdinalsCurrent HaltedOrAgreed QueriesCoherent
