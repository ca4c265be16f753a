SPECIFICATION FairSpec
CONSTANTS
    Recipes = {r1}
    Exempt = {}
    Graces = {1, 2}
    EvolvingTimeout = 1
    DecayTimeout = 2
    PendingTimeout = 2
    MaxAge = 3
CONSTANT UserOps <- AllUserOps
INVARIANTS
    TypeOK
    ClocksNeverBehind
    EvolvingClockIsStint
PROPERTIES
    MovesAreAdmitted
    DecayGraceHonoured
    PromotedAfterGrace
    DecayEnds
    EvolvingEnds
    StagingWithDeadlineEnds
