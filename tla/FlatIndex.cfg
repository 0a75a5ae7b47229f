SPECIFICATION Spec
CONSTANTS
    Capacity = 3
    Readers = {r}
    MaxLog = 2
    MaxSeq = 4
INVARIANTS HeaderHonest Reopens ScanSound
