SPECIFICATION CastSpec
CONSTANTS
    Recipes = {r1}
    Proposals = {p1, p2}
    Spare = {p2}
    SignalTasks = {s1}
    Sweepers = {w1}
    Caps = {1, 2}
    Manuals = {}
    Gateways = {}
    MayThrow = FALSE
    Outside = TRUE
INVARIANT
    NoDuplicates
PROPERTY
    ProposalsAreDecided
CHECK_DEADLOCK FALSE
