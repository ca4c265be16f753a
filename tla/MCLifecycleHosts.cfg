SPECIFICATION CastSpec
CONSTANTS
    Recipes = {r1}
    Exempt = {}
    Hosts = {h1, h2}
    Others = {h2}
    MaxTurns = 3
    MaxJobs = 0
    MayFail = TRUE
    Graces = {1}
    EvolvingTimeout = 1
    DecayTimeout = 1
    PendingTimeout = 1
    MaxAge = 2
CONSTANT UserOps <- AllUserOps
VIEW HostsView
INVARIANTS
    TypeOK
    AloneLeavesNoDivergence
PROPERTIES
    ImplementsLifecycle
    DeletedStaysDeleted
