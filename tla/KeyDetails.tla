----------------------------- MODULE KeyDetails -----------------------------
(***************************************************************************)
(* The page of one upstream key (web/src/AdminDashboard.tsx, KeyDetails):   *)
(* the usage summary of a window with the key's own record, the users and   *)
(* the forward proxy nodes bound to the key, and the two operations that    *)
(* change the key and then load everything again: synchronising its usage   *)
(* and clearing its quarantine.                                             *)
(*                                                                          *)
(* load, loadStickyUsers and loadStickyNodes are one operator over three    *)
(* panels.  A load aborts the one before it in its panel, so a panel has    *)
(* one request.  syncUsage and clearQuarantine are closures: what they load *)
(* in the end is the window and the page of the click.  The request list of *)
(* the page is KeyLogs.                                                     *)
(***************************************************************************)
EXTENDS Integers

CONSTANTS
    KeyWindow,       \* usage windows (period and start date)
    BoundPanel,      \* the lists of what is bound to the key: "users" and "nodes"
    KeyOperation,    \* the operations in use, of "sync" and "clear"
    StickyPages      \* pages of bound users
ASSUME KeyDetailsConstants ==
    /\ KeyWindow # {} /\ BoundPanel \subseteq {"users", "nodes"}
    /\ KeyOperation \subseteq {"sync", "clear"} /\ StickyPages \in Nat \ {0}

VARIABLES
    keyView,         \* window, stickyUsersPage
    panel,           \* the three panels: rows, load state, last loaded query, request
    keyRecord,       \* detail: the key's record on the page, and what its request may still read
    keyRun,          \* syncUsage and clearQuarantine: step, query at the click, loads awaited
    syncFeedback,    \* syncState and its timer
    keyError,        \* error # null
    quarantined      \* external: the key is quarantined

keyVars == <<keyView, panel, keyRecord, keyRun, syncFeedback, keyError, quarantined>>

Panel == {"summary"} \cup BoundPanel
PanelQuery == ({"summary"} \X KeyWindow) \cup ({"users"} \X (1 .. StickyPages))
                \cup {<<"nodes", "id">>}
NoLoad == <<"none">>
Nothing == [query |-> NoLoad, by |-> "none"]
IdleRun == [step |-> "idle", asks |-> [p \in Panel |-> NoLoad], awaits |-> {}]
RecordOf(q) == IF q THEN "quarantined" ELSE "clear"

KeyTypeOK ==
    /\ keyView \in [window : KeyWindow, page : 1 .. StickyPages]
    /\ \A p \in Panel :
         /\ panel[p].rows = Nothing \/ panel[p].rows.query \in PanelQuery
         /\ panel[p].state \in {"initial_loading", "switch_loading", "refreshing", "ready", "error"}
         /\ panel[p].last = NoLoad \/ panel[p].last \in PanelQuery
         /\ panel[p].request = Nothing \/ panel[p].request.query \in PanelQuery
    /\ keyRecord \in [shown : {"none", "quarantined", "clear"},
                      maybe : SUBSET {"quarantined", "clear"}]
    /\ \A o \in KeyOperation : keyRun[o].step \in {"idle", "server", "reload"}
    /\ syncFeedback \in [state : {"idle", "syncing", "success"}, timer : BOOLEAN]
    /\ keyError \in BOOLEAN /\ quarantined \in BOOLEAN

-----------------------------------------------------------------------------
(* Loading a panel.                                                           *)

\* queryKey, stickyUsersQueryKey and the id.
QueryOf(v, p) == <<p, CASE p = "summary" -> v.window [] p = "users" -> v.page [] p = "nodes" -> "id">>

PanelBlocking(p) == panel[p].state \in {"initial_loading", "switch_loading"}
BlockingPanelState(last) == IF last = NoLoad THEN "initial_loading" ELSE "switch_loading"
RefreshingPanelState(last) == IF last = NoLoad THEN "initial_loading" ELSE "refreshing"

\* The reason the effects give: what was loaded last against what is wanted now.
LoadReason(last, q) == IF last = NoLoad THEN "initial" ELSE IF last = q THEN "refresh" ELSE "switch"

\* load, loadStickyUsers, loadStickyNodes: the panel after the call.
Load(c, q, reason, by) ==
    [c EXCEPT !.request = [query |-> q, by |-> by],
              !.state = IF reason = "refresh" THEN RefreshingPanelState(c.last)
                        ELSE BlockingPanelState(c.last),
              !.rows = IF reason = "refresh" THEN @ ELSE Nothing]

LoadRecord(reason) ==
    [shown |-> IF reason = "refresh" THEN keyRecord.shown ELSE "none",
     maybe |-> {RecordOf(quarantined)}]

\* The loads of panels S that an operation waits for are over, by an answer, an error or an abort.
Awaited(o, S) == [keyRun[o] EXCEPT !.awaits = @ \ S]
LoadsOver(S) == [o \in KeyOperation |-> Awaited(o, S)]

KeyInit ==
    /\ \E w \in KeyWindow : keyView = [window |-> w, page |-> 1]
    /\ quarantined \in BOOLEAN
    /\ panel = [p \in Panel |-> [rows |-> Nothing, state |-> "initial_loading", last |-> NoLoad,
                                 request |-> [query |-> QueryOf(keyView, p), by |-> "page"]]]
    /\ keyRecord = [shown |-> "none", maybe |-> {RecordOf(quarantined)}]
    /\ keyRun = [o \in KeyOperation |-> IdleRun]
    /\ syncFeedback = [state |-> "idle", timer |-> FALSE]
    /\ keyError = FALSE

-----------------------------------------------------------------------------
(* The window, the pager and the panels.                                      *)

\* The select of the period and the start date, disabled while the summary is blocked.
ChangeKeyWindow(w) ==
    /\ ~PanelBlocking("summary") /\ w # keyView.window
    /\ keyView' = [keyView EXCEPT !.window = w]
    /\ LET q == QueryOf(keyView', "summary")
           reason == LoadReason(panel["summary"].last, q)
       IN  /\ panel' = [panel EXCEPT !["summary"] = Load(@, q, reason, "page")]
           /\ keyRecord' = LoadRecord(reason)
    /\ keyRun' = LoadsOver({"summary"}) /\ keyError' = FALSE
    /\ UNCHANGED <<syncFeedback, quarantined>>

\* The button that loads the summary again.
ApplyWindow ==
    /\ ~PanelBlocking("summary")
    /\ panel' = [panel EXCEPT !["summary"] = Load(@, QueryOf(keyView, "summary"), "refresh", "page")]
    /\ keyRecord' = LoadRecord("refresh")
    /\ keyRun' = LoadsOver({"summary"}) /\ keyError' = FALSE
    /\ UNCHANGED <<keyView, syncFeedback, quarantined>>

\* The pager of the bound users, there when they fill more than a page.
PagerOffers(p) ==
    /\ "users" \in Panel /\ panel["users"].rows # Nothing /\ ~PanelBlocking("users")
    /\ p \in {keyView.page - 1, keyView.page + 1} /\ p \in 1 .. StickyPages
TurnStickyPage(p) ==
    /\ PagerOffers(p)
    /\ keyView' = [keyView EXCEPT !.page = p]
    /\ LET q == QueryOf(keyView', "users")
       IN  panel' = [panel EXCEPT !["users"] = Load(@, q, LoadReason(@.last, q), "page")]
    /\ keyRun' = LoadsOver({"users"})
    /\ UNCHANGED <<keyRecord, syncFeedback, keyError, quarantined>>

\* What the page shows of the record: the registration data and the quota when there is one,
\* and the quarantine with its button and its detail text.
QuarantinePanel == keyRecord.shown = "quarantined"
QuotaCards == IF PanelBlocking("summary") THEN "none" ELSE keyRecord.shown
MetricCards == IF PanelBlocking("summary") THEN Nothing ELSE panel["summary"].rows

\* The tables and card lists of the bound users and nodes: a failed load covers them too.
Covered(p) == PanelBlocking(p) \/ panel[p].state = "error"
StickyUsersTable == IF Covered("users") THEN Nothing ELSE panel["users"].rows
StickyNodesTable == IF Covered("nodes") THEN Nothing ELSE panel["nodes"].rows
ShownRows(p) ==
    CASE p = "summary" -> MetricCards [] p = "users" -> StickyUsersTable [] p = "nodes" -> StickyNodesTable

\* The answer of a panel's request.
PanelAnswered(p) ==
    /\ panel[p].request # Nothing
    /\ panel' = [panel EXCEPT ![p] = [rows |-> panel[p].request, state |-> "ready",
                                      last |-> panel[p].request.query, request |-> Nothing]]
    /\ keyRun' = LoadsOver({p})
    /\ UNCHANGED <<keyView, syncFeedback, keyError, quarantined>>

\* The summary comes with the record; a record that cannot be read counts as none.
SummaryAnswered ==
    /\ PanelAnswered("summary")
    /\ \E r \in keyRecord.maybe \cup {"none"} : keyRecord' = [shown |-> r, maybe |-> {}]
BoundAnswered(p) == p # "summary" /\ PanelAnswered(p) /\ UNCHANGED keyRecord

PanelFails(p) ==
    /\ panel[p].request # Nothing
    /\ panel' = [panel EXCEPT ![p].state = "error", ![p].request = Nothing]
    /\ keyRun' = LoadsOver({p})
    /\ keyError' = (keyError \/ p = "summary")
    /\ UNCHANGED <<keyView, keyRecord, syncFeedback, quarantined>>

-----------------------------------------------------------------------------
(* syncUsage and clearQuarantine.                                             *)

RunOffered(o) == IF o = "sync" THEN syncFeedback.state # "syncing" ELSE QuarantinePanel

\* The click: its closure holds the queries of this render.
StartRun(o) ==
    /\ RunOffered(o) /\ keyRun[o].step = "idle"
    /\ keyRun' = [keyRun EXCEPT ![o] = [step |-> "server", awaits |-> {},
                                        asks |-> [p \in Panel |-> QueryOf(keyView, p)]]]
    /\ syncFeedback' = IF o = "sync" THEN [syncFeedback EXCEPT !.state = "syncing"] ELSE syncFeedback
    /\ keyError' = FALSE
    /\ UNCHANGED <<keyView, panel, keyRecord, quarantined>>

\* External: the server clears the quarantine; the request may still fail on its way back.
ServerClears ==
    /\ "clear" \in KeyOperation /\ keyRun["clear"].step = "server" /\ quarantined
    /\ quarantined' = FALSE
    /\ keyRecord' = [keyRecord EXCEPT !.maybe = IF @ = {} THEN @ ELSE @ \cup {"clear"}]
    /\ UNCHANGED <<keyView, panel, keyRun, syncFeedback, keyError>>

\* Whose query q is, when an operation loads panel p: the page's, or that of the click alone
\* because the window or the page was changed since.
QueryFrom(q, p) == IF q = QueryOf(keyView, p) THEN "page" ELSE "click"

\* The server has answered: everything is loaded again with the queries of the click.
RunReloads(o) ==
    /\ keyRun[o].step = "server" /\ (o = "clear" => ~quarantined)
    /\ panel' = [p \in Panel |-> Load(panel[p], keyRun[o].asks[p], "refresh",
                                    QueryFrom(keyRun[o].asks[p], p))]
    /\ keyRecord' = LoadRecord("refresh")
    /\ keyRun' = [LoadsOver(Panel) EXCEPT ![o].step = "reload", ![o].awaits = Panel]
    /\ keyError' = FALSE
    /\ UNCHANGED <<keyView, syncFeedback, quarantined>>

\* The loads are over: the request list is told (KeyLogs), success stays for 2.5 seconds.
RunEnds(o) ==
    /\ keyRun[o].step = "reload" /\ keyRun[o].awaits = {}
    /\ keyRun' = [keyRun EXCEPT ![o] = IdleRun]
    /\ syncFeedback' = IF o = "sync" THEN [state |-> "success", timer |-> TRUE] ELSE syncFeedback
    /\ UNCHANGED <<keyView, panel, keyRecord, keyError, quarantined>>

RunFails(o) ==
    /\ keyRun[o].step = "server"
    /\ keyRun' = [keyRun EXCEPT ![o] = IdleRun]
    /\ syncFeedback' = IF o = "sync" THEN [syncFeedback EXCEPT !.state = "idle"] ELSE syncFeedback
    /\ keyError' = TRUE
    /\ UNCHANGED <<keyView, panel, keyRecord, quarantined>>

\* The timer of the success message; it fires during the next synchronisation too.
FeedbackExpires ==
    /\ syncFeedback.timer /\ syncFeedback' = [state |-> "idle", timer |-> FALSE]
    /\ UNCHANGED <<keyView, panel, keyRecord, keyRun, keyError, quarantined>>

\* External: an upstream answer quarantines the key.
ServerQuarantines ==
    /\ ~quarantined /\ quarantined' = TRUE
    /\ keyRecord' = [keyRecord EXCEPT !.maybe = IF @ = {} THEN @ ELSE @ \cup {"quarantined"}]
    /\ UNCHANGED <<keyView, panel, keyRun, syncFeedback, keyError>>

PanelSettles(p) == (IF p = "summary" THEN SummaryAnswered ELSE BoundAnswered(p)) \/ PanelFails(p)
RunAdvances(o) == RunReloads(o) \/ RunEnds(o) \/ RunFails(o)

KeyNext ==
    \/ \E w \in KeyWindow : ChangeKeyWindow(w)
    \/ ApplyWindow
    \/ \E p \in 1 .. StickyPages : TurnStickyPage(p)
    \/ \E p \in Panel : PanelSettles(p)
    \/ \E o \in KeyOperation : StartRun(o) \/ RunAdvances(o)
    \/ ServerClears \/ ServerQuarantines \/ FeedbackExpires

KeySpec == KeyInit /\ [][KeyNext]_keyVars

-----------------------------------------------------------------------------
(* Properties.                                                                *)

\* What a panel shows answers the window and the page now selected, whichever loads were aborted
\* and whatever an operation loaded, but for one case: an operation clicked under another window
\* or page, and answered by the server under this one, loads what was selected at the click.  The
\* quota cards come and go with the usage cards.
PanelsOfQuery ==
    /\ QuotaCards # "none" => MetricCards # Nothing
    /\ \A p \in Panel : ShownRows(p) # Nothing =>
         \/ ShownRows(p).query = QueryOf(keyView, p)
         \/ ShownRows(p).by = "click"

\* The page does not go on showing a quarantine this page has cleared: there is an error
\* message, a load or an operation on its way, or the key is quarantined (again).
ClearedIsSeen ==
    QuarantinePanel => \/ quarantined \/ keyError
                       \/ panel["summary"].state # "ready"
                       \/ \E o \in KeyOperation : keyRun[o].step # "idle"
=============================================================================
