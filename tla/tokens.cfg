SPECIFICATION MCSpec
CONSTANTS
    u1 = u1
    u2 = u2
    h1 = h1
    h2 = h2
    h3 = h3
    None = None
    Users = {u1, u2}
    MaxTokens = 3
    Handlers = {h1, h2}
CHECK_DEADLOCK FALSE
SYMMETRY Interchangeable
INVARIANTS
    OneHeir
PROPERTIES
    RevokedIsFinal
    TokenLedgerSpec
