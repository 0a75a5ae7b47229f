SPECIFICATION Spec
CONSTANTS
    c1 = c1
    c2 = c2
    Callers <- MCCallers
    Wanted <- MCWanted
    Openings <- MCOpeningsGrow
    Faults = {}
    MaxLog = 3
    MaxFaults = 0
INVARIANTS
    CatalogComplete
