SPECIFICATION WebSpec
CONSTANTS
    search = search
    other = other
    fAll = fAll
    fOne = fOne
    ListKind = {"jobs", "keys"}
    Filter = {fAll, fOne}
    DefaultFilter = fAll
    NoKindFilter = fOne
    PagesOf <- MCPages
    MaxPage = 2
    MaxListRequests = 3
    MaxServerVersion = 1
    MaxLoads = 2
    MaxSseDrops = 1
    NewKey = {n1}
    ValidateChunk = 1
    ImportChunk = 1
    MaxRuns = 1
    MaxImports = 1
    BrokenSubject = {a1}
    NoSubject = none
    MaxBroken = 3
    BrokenPageSize = 2
    MaxBrokenChanges = 1
    ManualUrl = {}
    SubscriptionUrl = {s1}
    NoSettings = none
    MaxJobs = 1
    LogKind = {"api:search"}
    LogWindow = {w1}
    LogFacet = {f0, f1}
    NoFacet = f0
    LogQuick <- MCQuick
    MaxLogPage = 2
    UsagePeriod = {"month"}
    KeyWindow = {w1}
    BoundPanel = {"users"}
    KeyOperation = {"sync"}
    StickyPages = 2
    KeyLogKind = {"api:search"}
    KeyLogWindow = {w1}
    KeyLogOutcome = {f0, f1}
    NoOutcome = f0
    KeyLogQuick <- MCQuick
    MaxKeyLogPage = 2
    LogId = {l1}
    MaxBodyRequests = 2
    ProbeToken = {t1}
    NoPage = none
    Tool = {search, other}
    BillableTool = {search}
    FixtureTool = {search}
    Advertised <- MCAdvertised
    MaxProbeRuns = 1
    ConsoleToken = {t1}
    NoToken = none
    MaxReveals = 1
    MaxCopies = 0
    MaxBaseLoads = 2
CHECK_DEADLOCK FALSE
PROPERTIES
    PagesSettle
    OperationsEnd
    ListingsSettle
    RevealsSettle
