SPECIFICATION Spec
CONSTANTS
    u1 = u1
    k1 = k1
    b1 = b1
    b2 = b2
    h1 = h1
    h2 = h2
    None = None
    Users = {u1}
    Keys = {k1}
    Batches = {b1, b2}
    Handlers = {h1}
    MaxBatch = 1
    MaxRetries = 0
    Discipline = "finished"
    Faults = {"crash"}
CHECK_DEADLOCK FALSE
PROPERTIES
    ReplayIsServed
