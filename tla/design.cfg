SPECIFICATION MCSpec
CONSTANTS
    None = None
    Parts = {"slots", "canvas", "viewport", "prototype"}
    i1 = i1
    i2 = i2
    Ids = {i1, i2}
    Authored = {i2}
    Plain = plain
    Crops = {plain, cut}
    MaxOps <- OpsOfEach
    Sidecars <- SidecarsToTry
    k1 = k1
    k2 = k2
    k3 = k3
    k4 = k4
    gone = gone
    Gone = gone
    Names = {typed}
    Rows <- RowsOfPage
    Files <- FilesToTry
    MaxEdits = 2
    MinScale = 1
    MaxScale = 3
    Actual = 2
    Factors = {0, 4}
    Places = {origin, away}
    Origin = origin
    Pointers = {mouse}
    MaxTurns = 2
    t1 = t1
    u1 = u1
    b1 = b1
    new = new
    Cats <- AllCats
    Slots <- SlotCats
    Outer = "OUTER"
    AnyCat = "ALL"
    CLOSET <- Clothes
    NewItems = {new}
    OUTFITS <- Worn
    Picks <- Proposed
    BuildAtStart <- Building
    Days = {1, 2}
    MaxTimers = 1
    MaxSaves = 2
INVARIANTS
    PageTypeOK
    NewestIsHeld
    SettledIsSaved
    CropOfItsPicture
    CanvasSaved
    ArrowsLeadEverywhere
    HostInSync
    SlotsFit
    RecordedIsFound
PROPERTIES
    OthersKept
    ArtboardsKept
    ViewSurvivesReload
CHECK_DEADLOCK FALSE
