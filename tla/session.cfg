SPECIFICATION FairSessionSpec
CONSTANTS
    u1 = u1
    h1 = h1
    h2 = h2
    c1 = c1
    None = None
    Users = {u1}
    MaxTokens = 4
    Handlers = {h1, h2}
    Calls = {c1}
    Worlds = {{"lost"}, {"kill"}, {"eager"}, {"change"}}
CHECK_DEADLOCK FALSE
INVARIANTS
    SessionTypeOK
    SingleFlight
    SpentNotStored
PROPERTIES
    TasksEnd
