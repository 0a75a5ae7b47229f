SPECIFICATION Spec
CONSTANTS
    Collections = {a, b}
    Keyed = {a}
    Keys = {k}
    Capacity = 3
    MaxLog = 3
    a = a
    b = b
    k = k
INVARIANTS ConvergedInStep SnapshotReadable TruncationSafe KeysUnique
PROPERTIES RowsStable
