SPECIFICATION InTurn
CONSTANTS
    i1 = i1
    h1 = h1
    h2 = h2
    k1 = k1
    k2 = k2
    t1 = t1
    t2 = t2
    Key = {k1, k2}
    AdminOp = {"disable", "enable", "delete", "undelete", "clear"}
    KeyHealthAction = {"none", "restore", "exhaust", "quarantine"}
    Instance = {i1}
    Slot = {h1, h2}
    InstanceOf <- TwoRequests
    Token = {t1, t2}
    User = {u1}
    LateBinding = FALSE
    Interrupted = FALSE
    MaxSessions = 1
    None = None
SYMMETRY AlikeTokens
INVARIANTS
    SessionsFollowPrimary
PROPERTIES
    UnusableNeedsAdmin
