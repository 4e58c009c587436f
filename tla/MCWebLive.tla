------------------------------ MODULE MCWebLive ------------------------------
(***************************************************************************)
(* What the parts of the web front end eventually do, on instances smaller  *)
(* than those of MCAdminTab and MCDetailPages.  As there, a behaviour is    *)
(* about one part; its fairness is the fairness of that part.               *)
(***************************************************************************)
EXTENDS AdminLists, AdminFeed, KeysImport, BrokenKeys, ProxySettings, TokenLogs, TokenUsage,
        KeyDetails, KeyLogs, LogBodies, ConsoleProbe, ConsoleTokens, TLC

CONSTANTS search, other, fAll, fOne

VARIABLE focus   \* the part this behaviour is about

WebPart == {"lists", "feed", "import", "broken", "proxy", "token logs", "usage", "key",
            "key logs", "bodies", "probe", "console"}
webVars == <<focus, listVars, feedVars, importVars, brokenVars, proxyVars, tokenLogVars, usageVars,
             keyVars, keyLogVars, bodyVars, probeVars, consoleVars>>

-----------------------------------------------------------------------------
(* Values of constants.                                                       *)

MCPages == fAll :> 2 @@ fOne :> 0
MCQuick == {DefaultQuickFilters, [billing |-> "billable", protocol |-> "all"]}
MCAdvertised == {<<>>, <<search, other>>}

-----------------------------------------------------------------------------
\* A part the behaviour is not about has one initial state.
Waits(part, state) == focus = part \/ state

WebInit ==
    /\ focus \in WebPart
    /\ ListInit /\ Waits("lists", list = "jobs")
    /\ FeedInit /\ Waits("feed", ~dashboard)
    /\ ImportInit /\ ProxyInit /\ UsageInit
    /\ BrokenInit /\ Waits("broken", brokenOnServer = [s \in BrokenSubject |-> 0])
    /\ TokenLogInit /\ Waits("token logs", loggedKinds = {} /\ logView.window = CHOOSE w \in LogWindow : TRUE)
    /\ KeyInit /\ Waits("key", ~quarantined /\ keyView.window = CHOOSE w \in KeyWindow : TRUE)
    /\ KeyLogInit /\ Waits("key logs", keyLogKinds = {} /\ keyLogView.window = CHOOSE w \in KeyLogWindow : TRUE)
    /\ BodyInit /\ Waits("bodies", listedLogs = {})
    /\ ProbeInit /\ Waits("probe", quotaSpent = {})
    /\ ConsoleInit /\ Waits("console", consolePage = CHOOSE p \in ConsolePage : TRUE)

\* The server answers within the 30 s of an interval, and before the next click on refresh.
LiveFeedNext ==
    FeedStream \/ FeedUser \/ BaseProgress \/ FeedProgress
    \/ (loads = {} /\ baseLoad = "none" /\ (RefreshAll \/ Feed30s))

WebNext ==
    /\ UNCHANGED focus
    /\ IF focus = "lists" THEN ListNext ELSE UNCHANGED listVars
    /\ IF focus = "feed" THEN LiveFeedNext ELSE UNCHANGED feedVars
    /\ IF focus = "import" THEN ImportNext ELSE UNCHANGED importVars
    /\ IF focus = "broken" THEN BrokenNext ELSE UNCHANGED brokenVars
    /\ IF focus = "proxy" THEN ProxyNext ELSE UNCHANGED proxyVars
    /\ IF focus = "token logs" THEN TokenLogNext ELSE UNCHANGED tokenLogVars
    /\ IF focus = "usage" THEN UsageNext ELSE UNCHANGED usageVars
    /\ IF focus = "key" THEN KeyNext ELSE UNCHANGED keyVars
    /\ IF focus = "key logs" THEN KeyLogNext ELSE UNCHANGED keyLogVars
    /\ IF focus = "bodies" THEN BodyNext ELSE UNCHANGED bodyVars
    /\ IF focus = "probe" THEN ProbeNext ELSE UNCHANGED probeVars
    /\ IF focus = "console" THEN ConsoleNext ELSE UNCHANGED consoleVars

\* A browser settles every request it sends: the server answers, or the request breaks off.
\* What the code does with the answer is part of the same step.  Timers, clicks, the stream and
\* the server's own changes are left to chance.
Fair(part, step) == focus = part /\ step

WebFairness ==
    /\ WF_listVars(Fair("lists", \E r \in flight : Settle(r)))
    /\ WF_feedVars(Fair("feed", BaseProgress)) /\ WF_feedVars(Fair("feed", FeedProgress))
    /\ WF_importVars(Fair("import", ImportProgress))
    /\ WF_brokenVars(Fair("broken", FirstBrokenPageAnswered))
    /\ \A p \in BrokenPages : WF_brokenVars(Fair("broken", PageAnswered(p)))
    /\ WF_proxyVars(Fair("proxy", JobSteps)) /\ WF_proxyVars(Fair("proxy", StatsAnswered))
    /\ WF_tokenLogVars(Fair("token logs", LogsAnswered \/ LogsFail))
    /\ WF_usageVars(Fair("usage", DetailSettles))
    /\ \A p \in Panel : WF_keyVars(Fair("key", PanelSettles(p)))
    /\ \A o \in KeyOperation : WF_keyVars(Fair("key", RunAdvances(o)))
    /\ WF_keyLogVars(Fair("key logs", KeyLogsSettle))
    /\ \A l \in LogId : WF_bodyVars(Fair("bodies", BodiesSettle(l)))
    /\ WF_probeVars(Fair("probe", RunProgress)) /\ WF_probeVars(Fair("probe", LoadProgress))
    /\ WF_consoleVars(Fair("console", FieldProgress))
    /\ \A t \in ConsoleToken : WF_consoleVars(Fair("console", RequestProgress(t)))

WebSpec == WebInit /\ [][WebNext]_webVars /\ WebFairness

-----------------------------------------------------------------------------
\* A page that blocks its controls: the skeleton of a list, the dashboard that says "loading", the
\* summary of a token or of a key.
PageBlocks ==
    \/ onRoute /\ IsBlocking
    \/ dashboard /\ OverviewPanel = "loading"
    \/ focus = "usage" /\ SummaryBlocking
    \/ focus = "key" /\ PanelBlocking("summary")

\* A page that loads comes to show what it loaded, its empty text or an error, if requests are
\* answered or fail (and the dashboard's within the 30 s interval): no order of clicks,
\* navigation, polls, stream events, debounces and aborted requests leaves it loading for ever.
PagesSettle == PageBlocks ~> ~PageBlocks

\* An operation whose button is disabled until it is over: a validation or an import of keys, a
\* save or a revalidation of the proxy settings, a sync of a key, a probe of the console.
OperationRuns ==
    \/ validation.open /\ IsBusy
    \/ job # NoJob
    \/ \E o \in KeyOperation : keyRun[o].step # "idle"
    \/ AnyProbeRunning

\* Every such operation comes to an end, through failed chunks and failed reloads, and the button
\* comes back.
OperationsEnd == OperationRuns ~> ~OperationRuns

\* Once no other count is clicked, a drawer ends loading: it shows its list or an error.
DrawerSettles ==
    <>[][\A s \in BrokenSubject : ~OpenMonthlyBrokenDrawer(s)]_brokenVars =>
        <>[](brokenDrawer = NoSubject \/ brokenState # "initial_loading")

\* The table that blocks its controls stops blocking them, once the kinds on record stay the same
\* (each change of them may ask for the first page again).
LogsSettle ==
    <>[][loggedKinds' = loggedKinds]_loggedKinds =>
        (focus = "token logs" /\ LogsBlocking ~> ~LogsBlocking)

\* The table does not go on loading, once the kinds on record stay the same.
KeyLogsEnd ==
    <>[][keyLogKinds' = keyLogKinds]_keyLogKinds =>
        (focus = "key logs" /\ keyLogTable.state \notin {"ready", "error"}
            ~> keyLogTable.state \in {"ready", "error"})

\* A row does not say "loading" for ever.
BodiesArrive == \A l \in LogId : BodyText(l) = "loading" ~> BodyText(l) # "loading"

\* The spinners of the field and of the guide stop.
RevealsSettle == (secretField.loading ~> ~secretField.loading) /\ (guide.loading ~> ~guide.loading)

\* None of the listings goes on loading: the drawer of broken keys, the tables of a token and of a
\* key, and the bodies of a record come to show rows, an empty text or an error.
ListingsSettle == DrawerSettles /\ LogsSettle /\ KeyLogsEnd /\ BodiesArrive
=============================================================================
