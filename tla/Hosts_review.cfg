SPECIFICATION Spec
CONSTANTS
    Recipes = {r1}
    Exempt = {}
    Hosts = {h1, h2}
    MaxJobs = 3
    MayFail = FALSE
    UserOps = {"publish", "deprecate", "reactivate", "stage", "evolve", "decay", "restore"}
    Graces = {1}
    EvolvingTimeout = 1
    DecayTimeout = 1
    PendingTimeout = 1
    MaxAge = 2
PROPERTY
    FailedReviewNotPublished
