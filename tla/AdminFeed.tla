----------------------------- MODULE AdminFeed ------------------------------
(***************************************************************************)
(* How the admin dashboard keeps its overview up to date                    *)
(* (web/src/AdminDashboard.tsx): a server-sent event stream brings whole    *)
(* snapshots; while it is down, the tab polls; entering the dashboard, a    *)
(* manual refresh and an edit load too.  Requests of all these overlap, and *)
(* version counters decide which answer may be applied.                     *)
(*                                                                          *)
(* The overview and the signals (tokens and jobs) are the version of the    *)
(* server's data they show, 0 for none.  A load whose counter was passed by *)
(* a later one is marked, instead of comparing numbers.                     *)
(***************************************************************************)
EXTENDS Integers, FiniteSets

CONSTANTS
    MaxServerVersion,  \* bound: changes of the server's data
    MaxLoads,          \* bound: dashboard loads on their way at once
    MaxSseDrops        \* bound: times the stream is lost or degraded

ASSUME FeedConstants ==
    MaxServerVersion \in Nat \ {0} /\ MaxLoads \in Nat /\ MaxSseDrops \in Nat

VARIABLES
    serverVersion,   \* the server's data
    stream,          \* the EventSource: connecting, open, closed
    streamSent,      \* server: version in the last snapshot of this stream
    onWire,          \* snapshot on its way, 0 if none
    sseConnected,    \* state of the tab
    reconnectTimer,  \* the one second timer after a degraded event
    sseDrops,
    dashboard,       \* the route is the dashboard
    loading,         \* the global loading flag, which turns the refresh buttons off
    baseLoaded,      \* baseDataLoadedRef
    baseLoad,        \* the base load on its way: none, quiet, or with showGlobalLoading
    loads,           \* overview and signals loads on their way
    overview,        \* version of the overview in state, 0 if null
    overviewLoaded,  \* dashboardOverviewLoaded
    signals          \* version of the tokens and jobs in state

feedVars == <<serverVersion, stream, streamSent, onWire, sseConnected, reconnectTimer,
              sseDrops, dashboard, loading, baseLoaded, baseLoad, loads, overview,
              overviewLoaded, signals>>
sseVars == <<serverVersion, stream, streamSent, onWire, sseConnected, reconnectTimer, sseDrops>>

FeedVersion == 0 .. MaxServerVersion
DashboardLoad == [kind : {"overview", "signals"}, ofRoute : BOOLEAN, overviewStale : BOOLEAN,
                  signalsStale : BOOLEAN, read : FeedVersion]

FeedTypeOK ==
    /\ serverVersion \in 1 .. MaxServerVersion
    /\ stream \in {"connecting", "open", "closed"}
    /\ streamSent \in FeedVersion /\ onWire \in FeedVersion
    /\ sseConnected \in BOOLEAN /\ reconnectTimer \in BOOLEAN
    /\ sseDrops \in 0 .. MaxSseDrops
    /\ dashboard \in BOOLEAN /\ loading \in BOOLEAN /\ baseLoaded \in BOOLEAN
    /\ baseLoad \in {"none", "quiet", "global"}
    /\ loads \subseteq DashboardLoad
    /\ overview \in FeedVersion /\ overviewLoaded \in BOOLEAN /\ signals \in FeedVersion

-----------------------------------------------------------------------------
\* Mutant: the counter does not move.
PassNothing(ls) == ls

\* ++dashboardOverviewVersionRef: every load on its way has been passed.
PassOverview(ls) == {[l EXCEPT !.overviewStale = TRUE] : l \in ls}
\* ++dashboardSignalsVersionRef.
PassSignals(ls) == {[l EXCEPT !.signalsStale = TRUE] : l \in ls}

NewLoad(kind, ofRoute) ==
    [kind |-> kind, ofRoute |-> ofRoute, overviewStale |-> FALSE, signalsStale |-> FALSE,
     read |-> 0]

\* loadDashboardOverview passes both counters; "ofRoute" is the load of the route's effect.
WithOverviewLoad(ls, ofRoute) == PassOverview(PassSignals(ls)) \cup {NewLoad("overview", ofRoute)}

\* refreshDashboardSignals passes the signals' counter only.
WithSignalsLoad(ls) == PassSignals(ls) \cup {NewLoad("signals", FALSE)}

\* refreshFallback: a quiet base load, which aborts the one before, and an overview load
\* on the dashboard.
Fallback(ls, onDashboard) == IF onDashboard THEN WithOverviewLoad(ls, FALSE) ELSE ls

Room(n) == Cardinality(loads) + n <= MaxLoads

\* The page is opened.  The effects run in the order of the code: the base load with
\* showGlobalLoading, the overview load on the dashboard, and then, since the stream is
\* not connected yet, the polling fallback with a base load of its own.
FeedInit ==
    /\ serverVersion = 1
    /\ stream = "connecting" /\ streamSent = 0 /\ onWire = 0
    /\ sseConnected = FALSE /\ reconnectTimer = FALSE /\ sseDrops = 0
    /\ dashboard \in BOOLEAN
    /\ loading = TRUE
    /\ baseLoaded = FALSE
    /\ baseLoad = "quiet"
    /\ loads = IF dashboard THEN Fallback({[NewLoad("overview", TRUE) EXCEPT !.overviewStale = TRUE,
                                                                            !.signalsStale = TRUE]}, TRUE)
               ELSE {}
    /\ overview = 0 /\ overviewLoaded = FALSE /\ signals = 0

-----------------------------------------------------------------------------
(* The stream.                                                                *)

ServerChanges ==
    /\ serverVersion < MaxServerVersion
    /\ serverVersion' = serverVersion + 1
    /\ UNCHANGED <<stream, streamSent, onWire, sseConnected, reconnectTimer, sseDrops, dashboard,
                   loading, baseLoaded, baseLoad, loads, overview, overviewLoaded, signals>>

\* The stream opens: es.onopen stops the polling.
StreamOpens ==
    /\ stream = "connecting"
    /\ stream' = "open" /\ streamSent' = 0 /\ onWire' = 0
    /\ sseConnected' = TRUE
    /\ UNCHANGED <<serverVersion, reconnectTimer, sseDrops, dashboard, loading, baseLoaded,
                   baseLoad, loads, overview, overviewLoaded, signals>>

\* Losing the connection starts the polling fallback at once; if the tab was already
\* polling, nothing changes.
StartPolling ==
    /\ sseConnected' = FALSE
    /\ IF sseConnected
       THEN /\ baseLoad' = "quiet"
            /\ loads' = Fallback(loads, dashboard)
       ELSE UNCHANGED <<baseLoad, loads>>

\* es.onerror: the browser reconnects, or gives the stream up after an HTTP error.
StreamFails(giveUp) ==
    /\ stream # "closed" /\ sseDrops < MaxSseDrops
    /\ sseConnected => Room(1)
    /\ sseDrops' = sseDrops + 1
    /\ stream' = IF giveUp THEN "closed" ELSE "connecting"
    /\ onWire' = 0
    /\ StartPolling
    /\ UNCHANGED <<serverVersion, streamSent, reconnectTimer, dashboard, loading, baseLoaded,
                   overview, overviewLoaded, signals>>

\* The server could not build a snapshot.  Off the dashboard the event is ignored; on it
\* the stream is closed, and opened again a second later.
Degraded ==
    /\ stream = "open" /\ dashboard /\ sseDrops < MaxSseDrops
    /\ sseConnected => Room(1)
    /\ sseDrops' = sseDrops + 1
    /\ stream' = "closed" /\ onWire' = 0
    /\ reconnectTimer' = TRUE
    /\ StartPolling
    /\ UNCHANGED <<serverVersion, streamSent, dashboard, loading, baseLoaded, overview,
                   overviewLoaded, signals>>

Reconnect ==
    /\ reconnectTimer
    /\ reconnectTimer' = FALSE
    /\ stream' = "connecting"
    /\ UNCHANGED <<serverVersion, streamSent, onWire, sseConnected, sseDrops, dashboard, loading,
                   baseLoaded, baseLoad, loads, overview, overviewLoaded, signals>>

\* sse_dashboard: a snapshot when the data changed since the last one of this stream, a
\* ping otherwise.
SendSnapshot ==
    /\ stream = "open" /\ onWire = 0 /\ streamSent # serverVersion
    /\ onWire' = serverVersion /\ streamSent' = serverVersion
    /\ UNCHANGED <<serverVersion, stream, sseConnected, reconnectTimer, sseDrops, dashboard,
                   loading, baseLoaded, baseLoad, loads, overview, overviewLoaded, signals>>

\* The snapshot handler.  On the dashboard it passes the overview loads on their way.
SnapshotArrives ==
    /\ stream = "open" /\ onWire # 0
    /\ onWire' = 0
    /\ sseConnected' = TRUE
    /\ loading' = FALSE
    /\ IF dashboard
       THEN /\ loads' = PassOverview(loads)
            /\ overview' = onWire
            /\ overviewLoaded' = TRUE
       ELSE UNCHANGED <<loads, overview, overviewLoaded>>
    /\ UNCHANGED <<serverVersion, stream, streamSent, reconnectTimer, sseDrops, dashboard,
                   baseLoaded, baseLoad, signals>>

-----------------------------------------------------------------------------
(* Navigation, timers and buttons.                                            *)

\* The route becomes the dashboard: the overview is emptied and its counter passed before
\* the effects send a load; a tab that polls polls at once.
OpenDashboard ==
    LET entered == WithOverviewLoad(PassOverview(loads), TRUE)
    IN /\ ~dashboard /\ Room(2)
       /\ dashboard' = TRUE
       /\ overview' = 0 /\ overviewLoaded' = FALSE
       /\ IF sseConnected THEN loads' = entered /\ UNCHANGED baseLoad
          ELSE loads' = Fallback(entered, TRUE) /\ baseLoad' = "quiet"
       /\ UNCHANGED <<sseVars, loading, baseLoaded, signals>>

\* The route becomes another page: the load of the dashboard's effect is aborted, and an
\* aborted load returns without a trace.
OpenOther ==
    /\ dashboard' = FALSE
    /\ loads' = {l \in loads : ~l.ofRoute}
    /\ baseLoad' = IF sseConnected THEN baseLoad ELSE "quiet"
    /\ UNCHANGED <<sseVars, loading, baseLoaded, overview, overviewLoaded, signals>>

\* The page or group of the token list changes: loadData is rebuilt, and its effect loads,
\* aborting whatever base load was on its way; the polling effect depends on it too.
SwitchTokens ==
    /\ ~dashboard
    /\ baseLoad' = IF sseConnected /\ ~baseLoaded THEN "global" ELSE "quiet"
    /\ loading' = (loading \/ ~baseLoaded)
    /\ UNCHANGED <<sseVars, dashboard, baseLoaded, loads, overview, overviewLoaded, signals>>

\* The 30 s interval of the polling fallback.
PollTick ==
    /\ ~sseConnected /\ (dashboard => Room(1))
    /\ baseLoad' = "quiet"
    /\ loads' = Fallback(loads, dashboard)
    /\ UNCHANGED <<sseVars, dashboard, loading, baseLoaded, overview, overviewLoaded, signals>>

\* The 30 s interval that refreshes tokens and jobs while the stream is up.
SignalsTick ==
    /\ sseConnected /\ dashboard /\ Room(1)
    /\ loads' = WithSignalsLoad(loads)
    /\ UNCHANGED <<sseVars, dashboard, loading, baseLoaded, baseLoad, overview, overviewLoaded,
                   signals>>

\* The refresh buttons of the sidebar and of the panel header.
RefreshButton == ~loading

\* handleManualRefresh on the dashboard and elsewhere.
RefreshAll ==
    /\ RefreshButton /\ (dashboard => Room(1))
    /\ loading' = TRUE
    /\ baseLoad' = "global"
    /\ loads' = Fallback(loads, dashboard)
    /\ UNCHANGED <<sseVars, dashboard, baseLoaded, overview, overviewLoaded, signals>>

\* refreshBaseData, at the end of every edit on the other pages.
RefreshBaseData ==
    /\ ~dashboard
    /\ loading' = TRUE
    /\ baseLoad' = "global"
    /\ UNCHANGED <<sseVars, dashboard, baseLoaded, loads, overview, overviewLoaded, signals>>

-----------------------------------------------------------------------------
(* Answers.                                                                   *)

\* The base load on its way is answered, or fails: only its own showGlobalLoading ends
\* the global loading.  Aborted ones return without touching it.
BaseAnswered(ok) ==
    /\ baseLoad # "none"
    /\ baseLoad' = "none"
    /\ baseLoaded' = (baseLoaded \/ ok)
    /\ loading' = IF baseLoad = "global" THEN FALSE ELSE loading
    /\ UNCHANGED <<sseVars, dashboard, loads, overview, overviewLoaded, signals>>

\* The server reads the data for load l.
ServeLoad(l) ==
    /\ l \in loads /\ l.read = 0
    /\ loads' = (loads \ {l}) \cup {[l EXCEPT !.read = serverVersion]}
    /\ UNCHANGED <<sseVars, dashboard, loading, baseLoaded, baseLoad, overview, overviewLoaded,
                   signals>>

\* applyDashboardSignalsSnapshot, unless a later load of the signals has begun.
ApplySignals(l, ok) ==
    signals' = IF ok /\ ~l.signalsStale THEN l.read ELSE signals

\* loadDashboardOverview's answer: each part only if its counter has not been passed; a
\* failed part empties the summary.
OverviewAnswered(l, ok, signalsOk) ==
    /\ l \in loads /\ l.kind = "overview" /\ l.read # 0
    /\ loads' = loads \ {l}
    /\ IF l.overviewStale THEN UNCHANGED <<overview, overviewLoaded>>
       ELSE /\ overview' = IF ok THEN l.read ELSE 0
            /\ overviewLoaded' = TRUE
    /\ ApplySignals(l, signalsOk)
    /\ UNCHANGED <<sseVars, dashboard, loading, baseLoaded, baseLoad>>

\* refreshDashboardSignals' answer.
SignalsAnswered(l, ok) ==
    /\ l \in loads /\ l.kind = "signals" /\ l.read # 0
    /\ loads' = loads \ {l}
    /\ ApplySignals(l, ok)
    /\ UNCHANGED <<sseVars, dashboard, loading, baseLoaded, baseLoad, overview, overviewLoaded>>

BaseProgress == \E ok \in BOOLEAN : BaseAnswered(ok)
FeedProgress ==
    \E l \in loads : \/ ServeLoad(l)
                     \/ \E ok, signalsOk \in BOOLEAN : OverviewAnswered(l, ok, signalsOk)
                     \/ \E ok \in BOOLEAN : SignalsAnswered(l, ok)

FeedStream ==
    \/ ServerChanges \/ StreamOpens \/ Degraded \/ Reconnect \/ SendSnapshot \/ SnapshotArrives
    \/ \E giveUp \in BOOLEAN : StreamFails(giveUp)

FeedUser == OpenDashboard \/ OpenOther \/ SwitchTokens \/ RefreshBaseData

Feed30s == PollTick \/ SignalsTick

FeedNext == FeedStream \/ FeedUser \/ RefreshAll \/ Feed30s \/ BaseProgress \/ FeedProgress

FeedSpec == FeedInit /\ [][FeedNext]_feedVars

-----------------------------------------------------------------------------
\* What the dashboard shows: loading, a summary, or the "unavailable" texts.
OverviewPanel ==
    CASE ~overviewLoaded -> "loading"
      [] overviewLoaded /\ overview # 0 -> "summary"
      [] OTHER -> "unavailable"

\* A load never takes the page back: while the dashboard is open, an answer replaces what a
\* snapshot or an earlier load has put into the overview only by data at least as new
\* (the dashboardOverviewVersionRef comparisons), and tokens and jobs come from the latest
\* load that was started (dashboardSignalsVersionRef).
NeverGoesBack ==
    [][/\ (\E l \in loads, sok \in BOOLEAN : OverviewAnswered(l, TRUE, sok)) => overview' >= overview
       /\ signals' >= signals]_feedVars
=============================================================================
