SPECIFICATION Spec
CONSTANTS
    Columns <- MCColumns
    Rows <- MCRows
    Probes <- MCProbes
    MaxOrdinal = 2
    MaxLog = 3
    WordBits = 2
INVARIANTS
    LookupsExact
    Reopens
