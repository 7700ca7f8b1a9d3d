SPECIFICATION Spec
CONSTANTS
    u1 = u1
    u2 = u2
    p1 = p1
    p2 = p2
    Users = {u1, u2}
    Phones = {p1, p2}
    Handlers = {h1, h2}
    MaxRows = 3
    Worlds <- TheWorlds
    None = None
    Ttl = 2
    Cooldown = 1
    Window = 3
    WindowLimit = 2
    AttemptLimit = 2
    LockTime = 2
    FailLimit = 2
    SessionTtl = 1
INVARIANTS
    AccountTypeOK
    SendsLimited
    AttemptsCounted
    EnteredOnce
    FailuresCounted
    PhoneProved
    ResetLocksOut
PROPERTIES
    LockHolds
CHECK_DEADLOCK FALSE
SYMMETRY Symmetric
