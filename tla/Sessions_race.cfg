SPECIFICATION TurnsSpec
CONSTANTS
    Managers = {m1, m2}
    Projects = {j1, j2}
    Dimensions = {d1, d2}
    NoSession = NoSession
    MaxSessions = 3
    MaxClock = 0
INVARIANT
    OneSessionPerProject
CHECK_DEADLOCK FALSE
