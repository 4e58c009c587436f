---------------------------- MODULE TokenUsage -----------------------------
(***************************************************************************)
(* The usage part of the page of one token (web/src/pages/TokenDetail.tsx): *)
(* the window (period and start, the start behind a debounce), the summary  *)
(* of that window, which a live snapshot of the current month may replace,  *)
(* and the two charts.  A start is "now" (the current period) or "past";    *)
(* an input keeps the period it was written for, because it is read again   *)
(* under another one.                                                       *)
(***************************************************************************)
EXTENDS Integers

CONSTANT UsagePeriod   \* periods in use, of "day", "week" and "month"
ASSUME UsagePeriods == "month" \in UsagePeriod /\ UsagePeriod \subseteq {"day", "week", "month"}

VARIABLES
    usagePeriod,      \* period
    startInput,       \* sinceInput
    startApplied,     \* debouncedSinceInput
    startTimer,       \* sinceDebounceRef
    startWarning,     \* warning
    summaryShown,     \* summary: the window it is of
    summaryLoad,      \* summaryLoadState, summaryQueryKeyRef # null, the request's window
    infoShown,        \* info # null
    infoRefreshes,    \* requests of refreshDetail on their way
    charts,           \* the charts: the window shown, the loading flag, the request's window
    usageStream       \* sseConnected

usageVars == <<usagePeriod, startInput, startApplied, startTimer, startWarning, summaryShown,
               summaryLoad, infoShown, infoRefreshes, charts, usageStream>>
inputVars == <<startInput, startTimer, startWarning>>

NoInput == [period |-> "none", start |-> "now"]
StartInput == [period : UsagePeriod, start : {"now", "past"}] \cup {NoInput}
UsageWindow == [period : UsagePeriod, start : {"now", "past"}]
NoWindow == [period |-> "none", start |-> "none"]
LastDay == [period |-> "hours", start |-> "now"]
ChartWindow == UsageWindow \cup {NoWindow, LastDay}
Chart == {"quick", "snapshot"}

UsageTypeOK ==
    /\ usagePeriod \in UsagePeriod
    /\ startInput \in StartInput /\ startApplied \in StartInput
    /\ startTimer \in BOOLEAN /\ startWarning \in BOOLEAN
    /\ summaryShown \in UsageWindow \cup {NoWindow}
    /\ summaryLoad \in [state : {"initial_loading", "switch_loading", "ready", "error"},
                        loaded : BOOLEAN, asked : UsageWindow \cup {NoWindow}]
    /\ infoShown \in BOOLEAN /\ infoRefreshes \in 0 .. 1
    /\ charts \in [Chart -> [shown : ChartWindow, loading : BOOLEAN, asked : ChartWindow]]
    /\ usageStream \in BOOLEAN

\* computeStartDate: an input of another period counts as no input, but a day can be read as a
\* month.
ComputeStart(p, input) ==
    IF input.period = p \/ (p = "month" /\ input.period = "day") THEN input.start ELSE "now"
WindowOf(p, input) == [period |-> p, start |-> ComputeStart(p, input)]
ShownWindow == WindowOf(usagePeriod, startApplied)

\* sanitizeInput: an input in the future becomes the current period.
DefaultInputValue(p) == [period |-> p, start |-> "now"]
SanitizeInput(p, start) == [period |-> p, start |-> IF start = "past" THEN "past" ELSE "now"]

SummaryBlocking == summaryLoad.state \in {"initial_loading", "switch_loading"}

\* The regions of the page.
InfoRegion == IF infoShown THEN "ready" ELSE summaryLoad.state
SummaryCards == IF SummaryBlocking THEN NoWindow ELSE summaryShown
ChartRegion(c) == IF charts[c].loading THEN NoWindow ELSE charts[c].shown
\* (While the log table below is blocked they are disabled too: left out, so that the window
\* changes at more moments than on the page.)
PeriodControls == ~SummaryBlocking

-----------------------------------------------------------------------------
(* Effects.                                                                   *)

\* refreshQuickUsage, refreshSnapshotUsage: the request before is aborted.
RefreshChart(c, w) == [charts[c] EXCEPT !.loading = TRUE, !.asked = w]
RefreshQuickUsage == RefreshChart("quick", LastDay)
RefreshSnapshotUsage(w) == RefreshChart("snapshot", w)

\* The effects of a new window: summary and details are asked for, the chart refreshed.
WindowEffects(w) ==
    /\ summaryLoad' = [summaryLoad EXCEPT !.asked = w,
                          !.state = IF summaryLoad.loaded THEN "switch_loading" ELSE "initial_loading"]
    /\ summaryShown' = NoWindow
    /\ charts' = [charts EXCEPT !["snapshot"] = RefreshSnapshotUsage(w)]

\* A window that reads the same start and end runs no effect.
Rewindow(p, input) ==
    IF WindowOf(p, input) = ShownWindow THEN UNCHANGED <<summaryLoad, summaryShown, charts>>
    ELSE WindowEffects(WindowOf(p, input))

UsageInit ==
    /\ usagePeriod = "month" /\ startApplied = NoInput
    /\ startInput = DefaultInputValue("month") /\ startTimer = TRUE /\ startWarning = FALSE
    /\ summaryShown = NoWindow
    /\ summaryLoad = [state |-> "initial_loading", loaded |-> FALSE,
                      asked |-> WindowOf("month", NoInput)]
    /\ infoShown = FALSE /\ infoRefreshes = 0
    /\ charts = [c \in Chart |-> [shown |-> NoWindow, loading |-> TRUE,
                                  asked |-> IF c = "quick" THEN LastDay ELSE WindowOf("month", NoInput)]]
    /\ usageStream = FALSE

-----------------------------------------------------------------------------
(* The controls.                                                              *)

\* setSinceInput, and the debounce effect when it changes.
SetStartInput(input) ==
    /\ startInput' = input
    /\ startTimer' = (startTimer \/ input # startInput)

\* handleStartChange: a date input.
HandleStartChange(start) ==
    /\ PeriodControls
    /\ SetStartInput(SanitizeInput(usagePeriod, start))
    /\ startWarning' = (start = "future")
    /\ UNCHANGED <<usagePeriod, startApplied, summaryShown, summaryLoad, infoShown,
                   infoRefreshes, charts, usageStream>>

\* The period select: the new period at once, with the start of the old one until the debounce.
SetPeriod(p) ==
    /\ PeriodControls /\ p # usagePeriod
    /\ usagePeriod' = p
    /\ SetStartInput(DefaultInputValue(p)) /\ startWarning' = FALSE
    /\ Rewindow(p, startApplied)
    /\ UNCHANGED <<startApplied, infoShown, infoRefreshes, usageStream>>

\* The debounce fires.
ApplyStart ==
    /\ startTimer /\ startTimer' = FALSE
    /\ startApplied' = startInput
    /\ Rewindow(usagePeriod, startInput)
    /\ UNCHANGED <<usagePeriod, startInput, startWarning, infoShown, infoRefreshes, usageStream>>

WarningExpires ==
    /\ startWarning /\ startWarning' = FALSE
    /\ UNCHANGED <<usagePeriod, startInput, startApplied, startTimer, summaryShown, summaryLoad,
                   infoShown, infoRefreshes, charts, usageStream>>

-----------------------------------------------------------------------------
(* Answers.                                                                   *)

\* Details and summary, both or neither.
DetailAnswered(ok) ==
    /\ summaryLoad.asked # NoWindow
    /\ summaryShown' = IF ok THEN summaryLoad.asked ELSE summaryShown
    /\ infoShown' = (infoShown \/ ok)
    /\ summaryLoad' = [state |-> IF ok THEN "ready" ELSE "error",
                       loaded |-> summaryLoad.loaded \/ ok, asked |-> NoWindow]
    /\ UNCHANGED <<usagePeriod, startApplied, inputVars, infoRefreshes, charts, usageStream>>

ChartAnswered(c, ok) ==
    /\ charts[c].asked # NoWindow
    /\ charts' = [charts EXCEPT ![c] = [shown |-> IF ok THEN charts[c].asked ELSE NoWindow,
                                        loading |-> FALSE, asked |-> NoWindow]]
    /\ UNCHANGED <<usagePeriod, startApplied, inputVars, summaryShown, summaryLoad, infoShown,
                   infoRefreshes, usageStream>>

\* refreshDetail is not aborted and its failure is ignored.
InfoRefreshed(ok) ==
    /\ infoRefreshes > 0 /\ infoRefreshes' = 0
    /\ infoShown' = (infoShown \/ ok)
    /\ UNCHANGED <<usagePeriod, startApplied, inputVars, summaryShown, summaryLoad, charts,
                   usageStream>>

-----------------------------------------------------------------------------
(* The event stream.                                                          *)

\* Mutant: the snapshot's summary is shown under any period.
AnyView == TRUE

\* isMonthView: the snapshot's summary is of the current month.
IsMonthView == usagePeriod = "month" /\ startApplied \in {NoInput, DefaultInputValue("month")}

\* A snapshot: the summary of the month, and everything else again.
UsageSnapshot ==
    /\ IF IsMonthView
       THEN /\ summaryShown' = WindowOf("month", NoInput)
            /\ summaryLoad' = [summaryLoad EXCEPT !.state = "ready"]
       ELSE UNCHANGED <<summaryShown, summaryLoad>>
    /\ infoRefreshes' = 1
    /\ charts' = [c \in Chart |-> IF c = "quick" THEN RefreshQuickUsage
                                  ELSE RefreshSnapshotUsage(ShownWindow)]
    /\ usageStream' = TRUE
    /\ UNCHANGED <<usagePeriod, startApplied, inputVars, infoShown>>

\* es.onopen, es.onerror, and the effect that opens the stream anew.
StreamChanges ==
    /\ usageStream' = ~usageStream
    /\ UNCHANGED <<usagePeriod, startApplied, inputVars, summaryShown, summaryLoad, infoShown,
                   infoRefreshes, charts>>

DetailSettles == \E ok \in BOOLEAN : DetailAnswered(ok)
ChartSettles == \E c \in Chart, ok \in BOOLEAN : ChartAnswered(c, ok)

UsageNext ==
    \/ \E start \in {"past", "now", "future"} : HandleStartChange(start)
    \/ \E p \in UsagePeriod : SetPeriod(p)
    \/ ApplyStart \/ WarningExpires
    \/ DetailSettles \/ ChartSettles
    \/ \E ok \in BOOLEAN : InfoRefreshed(ok)
    \/ UsageSnapshot \/ StreamChanges

UsageSpec == UsageInit /\ [][UsageNext]_usageVars

-----------------------------------------------------------------------------
(* Properties.                                                                *)

\* The cards and the chart below them are of the window in force: an answer or a snapshot of
\* another window never shows, in whatever order answers, snapshots and the debounce come.
UsageOfWindow ==
    /\ SummaryCards \in {ShownWindow, NoWindow}
    /\ ChartRegion("snapshot") \in {ShownWindow, NoWindow}
=============================================================================
