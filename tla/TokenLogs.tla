----------------------------- MODULE TokenLogs -----------------------------
(***************************************************************************)
(* The request records on the page of one token (web/src/pages/             *)
(* TokenDetail.tsx): the first page that follows the filters and the live   *)
(* snapshots, the later pages that do not, and the quick filters, whose     *)
(* kinds are worked out anew from the options every answer brings.          *)
(*                                                                          *)
(* A handler and the effects of the render it causes are one action.  An    *)
(* aborted request has no effect, so only the request of each controller    *)
(* (logsAbortRef, requestKindOptionsAbortRef) is kept.                      *)
(***************************************************************************)
EXTENDS RequestKinds

CONSTANTS
    LogKind,       \* kinds this token's requests may be of
    LogWindow,     \* time windows (period and start)
    LogFacet,      \* values of the outcome and key filters
    NoFacet,       \* no such filter
    LogQuick,      \* quick filters the menu is used with
    MaxLogPage     \* bound: pages of a list

ASSUME TokenLogsConstants ==
    /\ LogKind \subseteq CanonicalKind /\ LogQuick \subseteq QuickFilter
    /\ DefaultQuickFilters \in LogQuick /\ NoFacet \in LogFacet
    /\ MaxLogPage \in Nat \ {0}

VARIABLES
    logView,        \* window, quick filter, ticked kinds, facet filter, page, options
    logTable,       \* rows, load state, pages, whether a list was ever loaded
    logsRequest,    \* the request of logsAbortRef
    optionsRequest, \* the page that showed when the request of requestKindOptionsAbortRef was
                    \* sent; 0: none is on its way
    loggedKinds     \* external: the kinds the server has records of

tokenLogVars == <<logView, logTable, logsRequest, optionsRequest, loggedKinds>>

EmptySelection == "__token_request_kind_empty_selection__"
Asked == [window : LogWindow, facet : LogFacet,
          kinds : SUBSET (CanonicalKind \cup {EmptySelection})]
NoRows == [page |-> 0]
NoRequest == [by |-> "none"]
NoOptions == 0

TokenLogTypeOK ==
    /\ logView \in [window : LogWindow, quick : QuickFilter, selected : SUBSET LogKind,
                    facet : LogFacet, page : 1 .. MaxLogPage, options : SUBSET LogKind]
    /\ logTable.state \in {"initial_loading", "switch_loading", "refreshing", "ready", "error"}
    /\ logTable.pages \in 1 .. MaxLogPage /\ logTable.loaded \in BOOLEAN
    /\ logTable.rows.page \in 0 .. MaxLogPage
    /\ logsRequest.by \in {"first", "refresh", "perPage", "goto", "resync", "none"}
    /\ optionsRequest \in 0 .. MaxLogPage
    /\ loggedKinds \subseteq LogKind

-----------------------------------------------------------------------------
(* What the view asks for.                                                    *)

QuickSelection(v) == BuildQuickFilterSelection(v.options, v.quick)
Effective(v) == ResolveEffectiveSelection(v.selected, v.quick, QuickSelection(v))
EmptyMatch(v) == HasActiveQuickFilters(v.quick) /\ QuickSelection(v) = {}
KindsAsked(effective, emptyMatch) == IF emptyMatch THEN {EmptySelection} ELSE effective

\* loadLogsPage, loadLogsPageForSelection: the context of the latest render.
LoadLogsPage(v) ==
    [window |-> v.window, facet |-> v.facet, kinds |-> KindsAsked(Effective(v), EmptyMatch(v))]
LoadLogsPageForSelection(v, refreshed) ==
    [window |-> v.window, facet |-> v.facet,
     kinds |-> KindsAsked(refreshed.effective, refreshed.emptyMatch)]

LogsQueryBaseKey(v) == <<v.window, v.quick, v.selected, v.facet>>

BlockingState == IF logTable.loaded THEN "switch_loading" ELSE "initial_loading"
RefreshingState == IF logTable.loaded THEN "refreshing" ELSE "initial_loading"
LogsBlocking == logTable.state \in {"initial_loading", "switch_loading"}

\* A page of the kinds on the screen, or of those that new options gave (under).
PageRequest(by, asked, p) == [by |-> by, step |-> "page", asked |-> asked, page |-> p, under |-> {}]
SelectionRequest(by, options, asked, p) ==
    [by |-> by, step |-> "selection", asked |-> asked, page |-> p, under |-> options]

\* Mutant: ticked kinds are not brought in line with the options.
KeepTicked(v) == v

\* The effect that keeps an active quick filter's kinds on page 1.
PresetResync(v) ==
    IF v.page = 1 /\ HasActiveQuickFilters(v.quick) /\ v.selected # QuickSelection(v)
    THEN [v EXCEPT !.selected = QuickSelection(v)] ELSE v

\* The effect that loads the first page of a new query.
FirstPageEffect(v) ==
    LET w == PresetResync([v EXCEPT !.page = 1])
    IN  /\ logView' = w
        /\ logTable' = [logTable EXCEPT !.rows = NoRows, !.state = BlockingState, !.pages = 1]
        /\ logsRequest' = PageRequest("first", LoadLogsPage(w), 1)
        /\ optionsRequest' = NoOptions

\* A render with view v, table t and requests r and o.
Render(v, t, r, o) ==
    LET w == PresetResync(v)
    IN  IF LogsQueryBaseKey(w) # LogsQueryBaseKey(logView)
        THEN FirstPageEffect(w)
        ELSE logView' = w /\ logTable' = t /\ logsRequest' = r /\ optionsRequest' = o

TokenLogInit ==
    /\ \E w \in LogWindow :
         logView = [window |-> w, quick |-> DefaultQuickFilters, selected |-> {},
                    facet |-> NoFacet, page |-> 1, options |-> {}]
    /\ logTable = [rows |-> NoRows, state |-> "initial_loading", pages |-> 1, loaded |-> FALSE]
    /\ logsRequest = PageRequest("first", LoadLogsPage(logView), 1)
    /\ optionsRequest = NoOptions
    /\ loggedKinds \in SUBSET LogKind

-----------------------------------------------------------------------------
(* The filters and the pager.                                                 *)

\* The window changes under the logs: its controls, or the debounced start.
ChangeWindow(w) ==
    /\ w # logView.window
    /\ Render([logView EXCEPT !.window = w], logTable, logsRequest, optionsRequest)
    /\ UNCHANGED loggedKinds

\* A segment of the quick filters; the active one may be picked again.
ApplyRequestKindQuickFilters(q) ==
    /\ Render([logView EXCEPT !.quick = q, !.page = 1,
                              !.selected = BuildQuickFilterSelection(logView.options, q)],
              logTable, logsRequest, optionsRequest)
    /\ UNCHANGED loggedKinds

AfterToggle(v, k) ==
    LET next == ToggleRequestKindSelection(Effective(v), k)
    IN  [v EXCEPT !.page = 1, !.selected = next,
                  !.quick = ResolveManualQuickFilters(next, v.quick, QuickSelection(v), v.options)]

HandleToggleRequestKind(k) ==
    /\ k \in BuildVisibleRequestKindOptions(Effective(logView), logView.options)
    /\ Render(AfterToggle(logView, k), logTable, logsRequest, optionsRequest)
    /\ UNCHANGED loggedKinds

HandleClearRequestKinds ==
    /\ Effective(logView) # {} \/ HasActiveQuickFilters(logView.quick)
    /\ Render([logView EXCEPT !.selected = {}, !.quick = DefaultQuickFilters, !.page = 1],
              logTable, logsRequest, optionsRequest)
    /\ UNCHANGED loggedKinds

\* handleOutcomeFilterChange and handleKeyFilterChange.  The key menu offers the chosen key too.
HandleFacetChange(f) ==
    /\ Render([logView EXCEPT !.facet = f, !.page = 1], logTable, logsRequest, optionsRequest)
    /\ UNCHANGED loggedKinds

Clamp(p, pages) == IF p > pages THEN pages ELSE p

\* The pager, disabled while the table is blocked.
GoToPage(p) ==
    /\ ~LogsBlocking /\ p \in 1 .. logTable.pages
    /\ p \in {logView.page - 1, logView.page + 1}
    /\ LET v == [logView EXCEPT !.page = p]
       IN  Render(v, [logTable EXCEPT !.rows = NoRows, !.state = BlockingState],
                  PageRequest("goto", LoadLogsPage(v), p), NoOptions)
    /\ UNCHANGED loggedKinds

ChangePerPage ==
    /\ ~LogsBlocking
    /\ LET v == [logView EXCEPT !.page = 1]
       IN  Render(v, [logTable EXCEPT !.rows = NoRows, !.state = BlockingState],
                  PageRequest("perPage", LoadLogsPage(v), 1), NoOptions)
    /\ UNCHANGED loggedKinds

-----------------------------------------------------------------------------
(* Answers.                                                                   *)

\* What an answer with n pages brings; moved: with other options than the kinds were asked under.
Rows(r, n) == [asked |-> r.asked, page |-> r.page, beyond |-> r.page > n, under |-> r.under,
               moved |-> r.step # "page" /\ r.under # loggedKinds]
Loaded(rows, n) == [rows |-> rows, state |-> "ready", pages |-> n, loaded |-> TRUE]

\* The first page: by the effect, a snapshot or a new page size.
FirstPageAnswered(n) ==
    /\ logsRequest.by \in {"first", "refresh", "perPage"}
    /\ Render([logView EXCEPT !.page = 1, !.options = loggedKinds],
              Loaded(Rows(logsRequest, n), n), NoRequest, optionsRequest)
    /\ UNCHANGED loggedKinds

Refreshed(options) ==
    ResolveOptionsRefresh(options, logView.selected, logView.quick,
                          Effective(logView), EmptyMatch(logView))

\* A later page: shown, unless its options change what the quick filter stands for; then the
\* same page of the new kinds is asked for first.
LaterPageAnswered(n) ==
    /\ logsRequest.by = "goto" /\ logsRequest.step = "page"
    /\ IF Refreshed(loggedKinds).changed
       THEN /\ logsRequest' = SelectionRequest("goto", loggedKinds,
                   LoadLogsPageForSelection(logView, Refreshed(loggedKinds)), logsRequest.page)
            /\ UNCHANGED <<logView, logTable, optionsRequest>>
       ELSE Render([logView EXCEPT !.page = logsRequest.page, !.options = loggedKinds],
                   Loaded(Rows(logsRequest, n), n), NoRequest, optionsRequest)
    /\ UNCHANGED loggedKinds

\* The page of the new kinds, or the last one there is.
SelectionAnswered(n) ==
    /\ logsRequest.by \in {"goto", "resync"} /\ logsRequest.step \in {"selection", "clamped"}
    /\ IF logsRequest.step = "selection" /\ n < logsRequest.page
       THEN /\ logsRequest' = [logsRequest EXCEPT !.step = "clamped", !.page = n]
            /\ UNCHANGED <<logView, logTable, optionsRequest>>
       ELSE Render([logView EXCEPT !.page = Clamp(logsRequest.page, n), !.options = loggedKinds],
                   Loaded(Rows(logsRequest, n), n), NoRequest, optionsRequest)
    /\ UNCHANGED loggedKinds

\* Mutant: a failed page is dropped like a failed refresh of the options.
LogsFailQuietly ==
    /\ logsRequest.by # "none" /\ logsRequest' = NoRequest
    /\ UNCHANGED <<logView, logTable, optionsRequest, loggedKinds>>

\* A request fails; only the one that follows new options says nothing.
LogsFail ==
    /\ logsRequest.by # "none" /\ logsRequest' = NoRequest
    /\ logTable' = [logTable EXCEPT !.state = IF logsRequest.by = "resync" THEN @ ELSE "error"]
    /\ UNCHANGED <<logView, optionsRequest, loggedKinds>>

-----------------------------------------------------------------------------
(* The event stream.                                                          *)

\* refreshLogs on a snapshot, on page 1.
RefreshLogs ==
    /\ logView.page = 1
    /\ logsRequest' = PageRequest("refresh", LoadLogsPage(logView), 1)
    /\ logTable' = [logTable EXCEPT !.state = RefreshingState]
    /\ optionsRequest' = NoOptions
    /\ UNCHANGED <<logView, loggedKinds>>

\* refreshRequestKindOptions on a snapshot, on a later page.
RefreshRequestKindOptions ==
    /\ logView.page # 1
    /\ optionsRequest' = logView.page
    /\ UNCHANGED <<logView, logTable, logsRequest, loggedKinds>>

\* Its answer: new totals and options, and the page again when they change the kinds; not the page
\* that shows now, but the one the effect was rendered with.
OptionsAnswered(n) ==
    /\ optionsRequest # NoOptions /\ optionsRequest' = NoOptions
    /\ IF Refreshed(loggedKinds).changed
       THEN /\ logsRequest' = SelectionRequest("resync", loggedKinds,
                   LoadLogsPageForSelection(logView, Refreshed(loggedKinds)), optionsRequest)
            /\ logTable' = [logTable EXCEPT !.state = RefreshingState]
            /\ UNCHANGED logView
       ELSE /\ logView' = [logView EXCEPT !.options = loggedKinds]
            /\ logTable' = [logTable EXCEPT !.pages = n]
            /\ UNCHANGED logsRequest
    /\ UNCHANGED loggedKinds

OptionsFail ==
    /\ optionsRequest # NoOptions /\ optionsRequest' = NoOptions
    /\ UNCHANGED <<logView, logTable, logsRequest, loggedKinds>>

\* External: requests of new kinds are recorded, old ones leave the log.
ServerLogs ==
    /\ \E kinds \in SUBSET LogKind : kinds # loggedKinds /\ loggedKinds' = kinds
    /\ UNCHANGED <<logView, logTable, logsRequest, optionsRequest>>

LogsAnswered == \E n \in 1 .. MaxLogPage :
                    FirstPageAnswered(n) \/ LaterPageAnswered(n) \/ SelectionAnswered(n)

TokenLogNext ==
    \/ \E w \in LogWindow : ChangeWindow(w)
    \/ \E q \in LogQuick : ApplyRequestKindQuickFilters(q)
    \/ \E k \in LogKind : HandleToggleRequestKind(k)
    \/ HandleClearRequestKinds
    \/ \E f \in LogFacet : HandleFacetChange(f)
    \/ \E p \in 1 .. MaxLogPage : GoToPage(p)
    \/ ChangePerPage
    \/ LogsAnswered \/ LogsFail
    \/ RefreshLogs \/ RefreshRequestKindOptions
    \/ \E n \in 1 .. MaxLogPage : OptionsAnswered(n)
    \/ OptionsFail
    \/ ServerLogs

TokenLogSpec == TokenLogInit /\ [][TokenLogNext]_tokenLogVars

-----------------------------------------------------------------------------
(* Properties.                                                                *)

KindsUnder(v, options) == LoadLogsPage([v EXCEPT !.options = options]).kinds

\* Rows on the page are of its window and filters, and of exactly the kinds that are ticked or that
\* the quick filter stands for under the options on the page.  Of other kinds are only rows that a
\* change of the options made the page ask for again, when the options changed once more before
\* they came: these are what the quick filter stood for when they were asked for.
\* The page number is theirs unless it has been set to 1 (a filter picked again) or the list has
\* shrunk.
LogsOfFilters ==
    LET rows == logTable.rows
    IN  rows # NoRows =>
          /\ rows.asked.window = logView.window /\ rows.asked.facet = logView.facet
          /\ \/ rows.asked.kinds = LoadLogsPage(logView).kinds
             \/ rows.moved /\ rows.asked.kinds = KindsUnder(logView, rows.under)
          /\ rows.page = logView.page \/ logView.page = 1 \/ rows.beyond

\* Ticking a kind changes that kind alone in what is asked for, whatever quick filter is active
\* and whatever the render makes of the ticked kinds.
TickedIsAsked ==
    \A k \in LogKind : Effective(PresetResync(AfterToggle(logView, k))) =
                          ToggleRequestKindSelection(Effective(logView), k)
=============================================================================
