SPECIFICATION PagesSpec
CONSTANTS
    LogKind = {"api:search", "api:usage"}
    LogWindow = {w1, w2}
    LogFacet = {f0}
    NoFacet = f0
    LogQuick <- MCQuick
    MaxLogPage = 2
    UsagePeriod = {"day", "week", "month"}
    MaxSecrets = 2
    SampleDay <- MCDays
    Today = 20500
    ZoneOffset <- MCZones
    KeyWindow = {w1, w2}
    BoundPanel = {"nodes"}
    KeyOperation = {"sync", "clear"}
    StickyPages = 1
    KeyLogKind = {"api:search", "api:usage"}
    KeyLogWindow = {w1, w2}
    KeyLogOutcome = {f0}
    NoOutcome = f0
    KeyLogQuick <- MCQuick
    MaxKeyLogPage = 2
    LogId = {l1, l2, l3}
    MaxBodyRequests = 2
CHECK_DEADLOCK FALSE
INVARIANTS
    PagesTypeOK
    TablesOfFilters
    PanelsOfWindow
    ShownSecretWorks
