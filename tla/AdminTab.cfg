SPECIFICATION TabSpec
CONSTANTS
    t1 = t1
    b1 = b1
    b2 = b2
    fAll = fAll
    fOne = fOne
    fNone = fNone
    ListKind = {"requests", "jobs", "keys", "users", "unbound", "tokens"}
    Filter = {fAll, fOne, fNone}
    DefaultFilter = fAll
    NoKindFilter = fNone
    PagesOf <- MCPages
    MaxPage = 2
    MaxListRequests = 4
    MaxServerVersion = 2
    MaxLoads = 2
    MaxSseDrops = 1
    NewKey = {n1, n2}
    ValidateChunk = 1
    ImportChunk = 1
    MaxRuns = 2
    MaxImports = 1
    Account = {a1, a2}
    NoAccount = none
    MaxUserRequests = 3
    Tag = {g1, g2}
    NewCard = new
    NoTag = none
    MaxTagRequests = 2
    TokenRow = {r1, r2}
    KeyRow = {r3}
    NoRow = none
    MaxRowOps = 2
    Token = {t1}
    ApiKey = {}
    Button = {b1, b2}
    SecretOf <- MCSecretOf
    CopyOp = {o1, o2}
    MaxFetches = 2
    MaxRotations = 1
    MaxCopyTimers = 1
    RouteId = {"a", "b"}
    QueryText = {"q"}
    RouteTag = {"t"}
    OverviewSort = {"ov"}
    UsageSort = {"us"}
    TokenSort = {"lu"}
    KeyFilter <- MCKeyFilter
    KeysPerPage = {20, 50}
    DefaultSort = {"ov", "lu"}
    MaxRoutePage = 2
    Tour <- MCTour
    BrokenSubject = {a1, a2}
    NoSubject = none
    MaxBroken = 5
    BrokenPageSize = 2
    MaxBrokenChanges = 1
    MaxReads = 3
    ManualUrl = {m1}
    SubscriptionUrl = {}
    NoSettings = none
    MaxJobs = 2
    Candidate = {c1, c2}
    MaxPhaseEvents = 2
    NodeKey = {1, 2, 3}
    ChartKind <- MCKind
    ReportTick <- MCTick
    ReportCount = {0, 1, 90}
    ReportWeight <- MCWeight
    BucketCount = 3
CHECK_DEADLOCK FALSE
INVARIANTS
    TabTypeOK
    ListsShowQuery
    BusyIsTrue
    EditsKeepSubject
    CopiesAreCurrent
    PagesOfAddress
    SettingsAreServers
    ChartsShowReports
PROPERTIES
    NeverGoesBack
    KeysLeaveToServer
