SPECIFICATION StoresSpec
CONSTANTS
    Ids = {k1, k2}
    Vals = {a}
    None = None
    BatchSize = 2
    MaxCalls = 3
    Procs = {q1, q2}
    Blobs = {b1}
    Bindings = {c1}
    Preps = {p1}
    Runs = {x1, x2}
    Absent = Absent
    Entries = {e1, e2}
    Versions = {v1, v2}
    Gone = Gone
    Same = Same
    MaxBatchSize = 2
    MaxChanges = 3
    Faults = {"remove", "embed", "stale", "silent", "read"}
    Racing = FALSE
    Recipes = {r1, r2}
    Slugs = {s1, s2}
    NoFile = NoFile
    MaxRevs = 3
    SyncElsewhere = FALSE
    Managers = {m1}
    Projects = {j1}
    Dimensions = {d1, d2}
    NoSession = NoSession
    MaxSessions = 2
    MaxClock = 3
    sa = sa
    sb = sb
    sc = sc
    sk = sk
    modB = modB
    modC = modC
    modAlias = modAlias
    Sources = {sa, sb, sc, sk}
    Config = sk
    Specifiers = {modB, modC, modAlias}
    Alias = modAlias
    NoSpecifier = NoSpecifier
    Candidates <- TheCandidates
    Rest = {0}
    MayHold <- TheTexts
    Hints <- TheHints
    NoSource = NoSource
    Unread = Unread
    MaxEdits = 2
INVARIANTS
    StoresTypeOK
    MemoryIsRecoverable
    ReceiptMeansStored
    PreparationOpens
    LeasesAreKept
    LastChangeWins
    NothingStranded
    OneFilePerRecipe
    AckedIsKept
    DeletedStaysDeleted
    RowsMirrorFiles
    OneSessionPerProject
    ProgressIsKept
    FreshGraphIsExact
PROPERTIES
    FlushMeansSaved
    ImplementsDurableMap
    ImplementsRunLease
    DrainEnds
    ReconcileRepairs
    SyncRepairs
CHECK_DEADLOCK FALSE
