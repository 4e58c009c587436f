SPECIFICATION UserPagesSpec
CONSTANTS
    search = search
    other = other
    ProbeToken = {t1, t2}
    NoPage = none
    Tool = {search, other}
    BillableTool = {search}
    FixtureTool = {search}
    Advertised <- MCAdvertised
    MaxProbeRuns = 2
    ConsoleToken = {t1, t2}
    NoToken = none
    MaxReveals = 2
    MaxCopies = 1
    MaxBaseLoads = 1
    t1 = t1
    t2 = t2
    ida = ida
    idb = idb
    padded = padded
    HomeToken = {t1, t2}
    HomeId = {ida, idb}
    OtherText = {}
    NoText = none
    TokenIdOf <- MCTokenId
    AccountToken = t2
    MaxSameRequests = 1
    AccessToken = {t1, t2}
    OtherDraft = {padded}
    NoDraft = none
    TrimDraft <- MCTrim
    MaxHomeCopies = 1
CHECK_DEADLOCK FALSE
INVARIANTS
    UserPagesTypeOK
    ShowsItsToken
    SecretsAreHeld
