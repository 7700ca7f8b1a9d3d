SPECIFICATION Spec
CONSTANTS
    u1 = u1
    u2 = u2
    p1 = p1
    p2 = p2
    Users = {u1, u2}
    Phones = {p1, p2}
    Handlers = {h1, h2}
    MaxRows = 3
    Worlds <- TwiceWorlds
    None = None
    Ttl = 2
    Cooldown = 1
    Window = 3
    WindowLimit = 2
    AttemptLimit = 2
    LockTime = 2
    FailLimit = 2
    SessionTtl = 1
INVARIANT SessionSingleUse
CHECK_DEADLOCK FALSE
SYMMETRY Symmetric
