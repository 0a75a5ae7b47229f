SPECIFICATION Spec
CONSTANTS
    Calls = {a, b}
    MaxBatch = 2
    Faults = {"torn", "short", "sync", "rename", "reopen", "replayed"}
    MaxFaults = 1
SYMMETRY Symmetry
INVARIANTS TypeOK Durable PrefixApplied ReadYourWrites FreshLsn
PROPERTIES PoisonFreezes
