SPECIFICATION TornSpec
CONSTANTS
    Ids = {k1, k2}
    Vals = {a}
    None = None
    BatchSize = 2
    MaxCalls = 3
INVARIANTS
    MemoryIsRecoverable
CHECK_DEADLOCK FALSE
