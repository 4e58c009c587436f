SPECIFICATION Spec
CONSTANTS
    i1 = i1
    h1 = h1
    h2 = h2
    k1 = k1
    k2 = k2
    t1 = t1
    t2 = t2
    Key = {k1, k2}
    AdminOp = {"disable"}
    KeyHealthAction = {"none"}
    Instance = {i1}
    Slot = {h1}
    InstanceOf <- OneRequest
    Token = {t1}
    User = {u1}
    LateBinding = TRUE
    Interrupted = FALSE
    MaxSessions = 1
    None = None
SYMMETRY AlikeKeys
INVARIANTS
    SessionsFollowPrimary
