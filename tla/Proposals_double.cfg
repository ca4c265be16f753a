SPECIFICATION Spec
CONSTANTS
    Recipes = {r1}
    Proposals = {p1}
    SignalTasks = {s1}
    Sweepers = {}
    Caps = {1}
    Manuals = {m1}
    Gateways = {}
    MayThrow = FALSE
    Outside = FALSE
PROPERTY
    NotRejectedByDoubleExecution
CHECK_DEADLOCK FALSE
