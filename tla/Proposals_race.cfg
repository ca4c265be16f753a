SPECIFICATION RaceSpec
CONSTANTS
    Recipes = {r1}
    Proposals = {p1}
    SignalTasks = {s1}
    Sweepers = {w1}
    Caps = {1}
    Manuals = {m1}
    Gateways = {g1}
    Spare = {}
    MayThrow = TRUE
    Outside = TRUE
INVARIANTS
    TypeOK
    ExecutedMeansDone
    NothingLeaksInFlight
PROPERTIES
    DecisionsAreFinal
    YoungUpdatesAreNotJudged
CHECK_DEADLOCK FALSE
