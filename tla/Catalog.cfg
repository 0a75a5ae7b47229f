SPECIFICATION FairSpec
CONSTANTS
    c1 = c1
    c2 = c2
    Callers <- MCCallers
    Wanted <- MCWanted
    Openings <- MCOpenings
    Faults = {"step", "flush"}
    MaxLog = 2
    MaxFaults = 1
INVARIANTS
    CatalogComplete
    OpensAgain
PROPERTIES
    CloseEnds
