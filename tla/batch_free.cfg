SPECIFICATION Spec
CONSTANTS
    u1 = u1
    k1 = k1
    b1 = b1
    b2 = b2
    h1 = h1
    h2 = h2
    None = None
    Users = {u1}
    Keys = {}
    Batches = {b1, b2}
    Handlers = {h1, h2}
    MaxBatch = 2
    MaxRetries = 1
    Discipline = "free"
    Faults = {"storage"}
CHECK_DEADLOCK FALSE
SYMMETRY Symmetric
INVARIANTS
    TypeOK
    SnapshotFresh
    PendingServed
    ItemPerPhoto
