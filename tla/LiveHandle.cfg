SPECIFICATION FairSpec
CONSTANTS
    Readers = {r1, r2}
    Rows = 2
    MaxRecords = 3
    Free = Free
    Applier = Applier
    NoSet = NoSet
INVARIANTS WholeStatements
PROPERTIES Current Monotone LocksReleased
