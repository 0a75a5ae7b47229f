SPECIFICATION FairSpec
CONSTANTS
    Calls = {a, b}
    MaxBatch = 2
    Faults = {}
    MaxFaults = 0
PROPERTIES ImplementsDurableLog AppendAnswered
