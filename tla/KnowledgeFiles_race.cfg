SPECIFICATION FilesSpec
CONSTANTS
    Recipes = {r1}
    Slugs = {s1}
    MaxRevs = 2
    SyncElsewhere = TRUE
    NoFile = NoFile
PROPERTIES
    OrphansHaveNoFile
CHECK_DEADLOCK FALSE
