SPECIFICATION ServicesSpec
CONSTANTS
    Projects = {p1, p2}
    Sources = {s1, s2}
    Free = Free
    MaxSpent = 2
    Owners = {p1}
    Deleters = {d1, d2}
    NoOwner = NoOwner
    MaxAttempts = 2
    MaxMishaps = 1
    Watched = {j1, j2}
    Authors = {a1, a2}
    NoSnapshot = NoSnapshot
    MaxChanges = 1
    MaxDrops = 1
    Generators = {g1, g2}
    MaxBundles = 2
    MaxDeliver = 3
    MaxTroubles = 2
    Shelf = {v1, v2, v3}
    Clients = {c1, c2}
    NoVideo = NoVideo
    MaxPosition = 2
    Ids = {f1, f2, f3, f4}
    Times <- TimesAround
    Duration = 3
    Unknown = Unknown
    MaxLength = 4
    t1 = t1
    i1 = i1
    Pieces = {v1, v2, v3}
    Shapes <- TwoOverOne
    Labels = {t1}
    Ticks = 3
    Editors = {c1}
    NoValue = NoValue
    Wishes = {i1, i2}
    NoWish = NoWish
    MaxSets = 4
    MaxUpsets = 4
    Lengths = {0, 4}
    MaxZoom = 2
    Offsets = {0, 2}
    Widths = {0, 2}
    Selectable = {f1, f2}
    Places <- SideAndWhole
    Sheets = {i1}
    Blank = Blank
    Unselected = Unselected
    MaxLoads = 2
    f1 = f1
    f2 = f2
    f3 = f3
    f4 = f4
    Segments = {f1, f2}
    NoSegment = NoSegment
    SourceLength = 2
    FirstSpans <- Touching
    MaxNudges = 1
    MaxQueue = 2
    MaxPromises = 1
    TimelineLength = 3
    SegmentIds = {1, 2, 3}
    Nothing = Nothing
    Renderers = {g1, g2}
    MaxRevisions = 2
    MaxTries = 2
    MaxFlaws = 2
    MaxArchive = 5
    ReplayBatch = 2
    NotRecorded = NotRecorded
SYMMETRY Alike
CONSTRAINT AcceptedSoFar
INVARIANTS
    StoreIsWhole
    QueueIsSound
    FeedCatchesUp
    BundlesMatchTheRow
    ActiveIsOpen
    AcceptsExactlyTheRule
    
    SetSurvives
    PreviewsAreTrue
    ReplayIsComplete
    TimelineIsTrue
    PlaybackIsTrue
    EditsFitTwoRows
PROPERTIES
    ImplementsLibrary
CHECK_DEADLOCK FALSE
