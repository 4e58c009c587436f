SPECIFICATION Spec
CONSTANTS
    i1 = i1
    i2 = i2
    r1 = r1
    r2 = r2
    r3 = r3
    t1 = t1
    u1 = u1
    Instance = {i1, i2}
    Holder = {r1, r2}
    Subject = {u1, t1}
    InstanceOf <- MCInstanceOf2
    NoHolder = NoHolder
    Token = {t1}
    User = {u1}
    NoUser = NoUser
    TokenOf <- MCTokenOf
    Rank <- MCRank
    Reserve = {1}
    Actual = {0, 1, 2}
    WindowLimit = 2
    MonthLimit = 2
    Observer = {o1}
    LeasesKept = FALSE
    MaxLogs = 2
    MaxPeriod = 2
CHECK_DEADLOCK FALSE
INVARIANTS
    TypeOK
    BucketsExact
    MonthNeverOvercounts
    SerializedUnlessStolen
PROPERTIES
    ChargesUnderGuard
    KeepsLedger
