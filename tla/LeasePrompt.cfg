SPECIFICATION FairSpec
CONSTANTS
    i1 = i1
    i2 = i2
    r1 = r1
    r2 = r2
    r3 = r3
    Instance = {i1, i2}
    Holder = {r1, r2, r3}
    Subject = {s1}
    InstanceOf <- MCInstanceOf
    NoHolder = NoHolder
    Ttl = 6
    RefreshEvery = 2
    RetryEvery = 1
    AcquireTimeout = 7
    StatementTime = 2
    Prompt = TRUE
INVARIANTS
    StaleOnlyBriefly
PROPERTIES
    ImplementsLock
    WaitEnds
