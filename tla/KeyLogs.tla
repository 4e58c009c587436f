------------------------------ MODULE KeyLogs ------------------------------
(***************************************************************************)
(* The request records on the page of one upstream key                      *)
(* (web/src/AdminDashboard.tsx, KeyDetails).  Unlike the page of a token,   *)
(* one effect loads them: it depends on everything the request is made of,  *)
(* gives up the request before it and empties the table, and asks nothing   *)
(* when the quick filter matches none of the kinds the page knows of.       *)
(***************************************************************************)
EXTENDS RequestKinds

CONSTANTS
    KeyLogKind,      \* kinds this key's requests may be of
    KeyLogWindow,    \* usage windows of the page
    KeyLogOutcome,   \* values of the outcome filter
    NoOutcome,       \* no such filter
    KeyLogQuick,     \* quick filters the menu is used with
    MaxKeyLogPage    \* bound: pages of the list

ASSUME KeyLogsConstants ==
    /\ KeyLogKind \subseteq CanonicalKind /\ KeyLogQuick \subseteq QuickFilter
    /\ DefaultQuickFilters \in KeyLogQuick /\ NoOutcome \in KeyLogOutcome
    /\ MaxKeyLogPage \in Nat \ {0}

VARIABLES
    keyLogView,      \* window, quick filters, ticked kinds, outcome, page, known options
    keyLogTable,     \* rows, load state, pages, logsQueryKeyRef
    keyLogRequest,   \* the request of logsAbortRef
    keyLogKinds      \* external: the kinds the server has records of for this key

keyLogVars == <<keyLogView, keyLogTable, keyLogRequest, keyLogKinds>>

NoKeyRequest == [page |-> 0]
NeverLoaded == <<"none">>    \* logsQueryKeyRef at first
OtherKey == <<"other">>      \* a key with another counter or page size than the one at hand

KeyLogTypeOK ==
    /\ keyLogView \in [window : KeyLogWindow, quick : QuickFilter, selected : SUBSET KeyLogKind,
                       outcome : KeyLogOutcome, page : 1 .. MaxKeyLogPage,
                       options : SUBSET KeyLogKind]
    /\ keyLogTable.state \in {"initial_loading", "switch_loading", "refreshing", "ready", "error"}
    /\ keyLogTable.pages \in 1 .. MaxKeyLogPage
    /\ keyLogTable.rows.page \in 0 .. MaxKeyLogPage /\ keyLogRequest.page \in 0 .. MaxKeyLogPage
    /\ keyLogKinds \subseteq KeyLogKind

-----------------------------------------------------------------------------
(* The effect.                                                                *)

KeyLogQuickSelection(v) == BuildQuickFilterSelection(v.options, v.quick)
KeyLogEffectiveKinds(v) == ResolveEffectiveSelection(v.selected, v.quick, KeyLogQuickSelection(v))
KeyLogHasEmptyMatch(v) == HasActiveQuickFilters(v.quick) /\ KeyLogQuickSelection(v) = {}

\* The parameters of fetchKeyLogsPage.
KeyLogRequestOf(v) == [window |-> v.window, kinds |-> KeyLogEffectiveKinds(v),
                       outcome |-> v.outcome, page |-> v.page]

\* logsQueryKey, and the dependencies of the effect: the key and the kinds that follow from it
\* and the options.
LogsQueryKey(v) == <<v.window, v.page, v.selected, v.quick, v.outcome>>

EffectDependencies(v) == <<LogsQueryKey(v), KeyLogEffectiveKinds(v), KeyLogHasEmptyMatch(v)>>

\* The state of the table when the effect starts; last is the query loaded last.
EffectState(v, last) ==
    CASE last = NeverLoaded -> "initial_loading"
      [] last = LogsQueryKey(v) -> "refreshing"
      [] OTHER -> "switch_loading"

KeyLogsEffect(v, last) ==
    /\ keyLogView' = v
    /\ IF KeyLogHasEmptyMatch(v)
       THEN /\ keyLogTable' = [rows |-> NoKeyRequest, state |-> "ready", pages |-> 1,
                               last |-> LogsQueryKey(v)]
            /\ keyLogRequest' = NoKeyRequest
       ELSE /\ keyLogTable' = [rows |-> NoKeyRequest, state |-> EffectState(v, last), pages |-> 1,
                               last |-> last]
            /\ keyLogRequest' = KeyLogRequestOf(v)

WithNewKey(last) == IF last = NeverLoaded THEN last ELSE OtherKey

\* A render with view v and table t: the effect runs when something it depends on has changed.
KeyLogsRender(v, t, request) ==
    IF EffectDependencies(v) = EffectDependencies(keyLogView)
    THEN keyLogView' = v /\ keyLogTable' = t /\ keyLogRequest' = request
    ELSE KeyLogsEffect(v, t.last)

\* The view changes by a control of the page.
Control(v) == KeyLogsRender(v, keyLogTable, keyLogRequest) /\ UNCHANGED keyLogKinds

KeyLogInit ==
    /\ \E w \in KeyLogWindow :
         keyLogView = [window |-> w, quick |-> DefaultQuickFilters, selected |-> {},
                       outcome |-> NoOutcome, page |-> 1, options |-> {}]
    /\ keyLogTable = [rows |-> NoKeyRequest, state |-> "initial_loading", pages |-> 1,
                      last |-> NeverLoaded]
    /\ keyLogRequest = KeyLogRequestOf(keyLogView)
    /\ keyLogKinds \in SUBSET KeyLogKind

-----------------------------------------------------------------------------
(* The controls.                                                              *)

\* The window of the page changes (KeyDetails); the page number of the list stays.
KeyLogsWindow(w) == w # keyLogView.window /\ Control([keyLogView EXCEPT !.window = w])

HandleKeyLogQuickFilters(q) ==
    Control([keyLogView EXCEPT !.quick = q, !.page = 1,
                               !.selected = BuildQuickFilterSelection(keyLogView.options, q)])

HandleToggleKeyLogKind(k) ==
    /\ k \in BuildVisibleRequestKindOptions(keyLogView.selected, keyLogView.options)
    /\ LET next == ToggleRequestKindSelection(KeyLogEffectiveKinds(keyLogView), k)
       IN  Control([keyLogView EXCEPT
               !.selected = next, !.page = 1,
               !.quick = ResolveManualQuickFilters(next, keyLogView.quick,
                             KeyLogQuickSelection(keyLogView), keyLogView.options)])

HandleClearKeyLogKinds ==
    /\ keyLogView.selected # {} \/ HasActiveQuickFilters(keyLogView.quick)
    /\ Control([keyLogView EXCEPT !.selected = {}, !.quick = DefaultQuickFilters, !.page = 1])

HandleKeyLogOutcomeFilter(o) == Control([keyLogView EXCEPT !.outcome = o, !.page = 1])

\* The pager works on a table that is ready or has failed.
PagerEnabled == keyLogTable.state \in {"ready", "error"}
GoKeyLogsPage(p) ==
    /\ PagerEnabled /\ p \in {keyLogView.page - 1, keyLogView.page + 1}
    /\ p \in 1 .. keyLogTable.pages
    /\ Control([keyLogView EXCEPT !.page = p])

\* A new page size, or the counter that an operation on the key increases (KeyDetails): the
\* query is another one although the rest of the view stays.
ChangeKeyLogsPerPage ==
    /\ PagerEnabled
    /\ KeyLogsEffect([keyLogView EXCEPT !.page = 1], WithNewKey(keyLogTable.last))
    /\ UNCHANGED keyLogKinds
LogsNonceGrows ==
    /\ KeyLogsEffect(keyLogView, WithNewKey(keyLogTable.last)) /\ UNCHANGED keyLogKinds

-----------------------------------------------------------------------------
(* Answers.                                                                   *)

\* The rows, and the options of this moment: they may change what the quick filter stands for,
\* and the effect runs again.
KeyLogsAnswered(n) ==
    /\ keyLogRequest # NoKeyRequest
    /\ KeyLogsRender([keyLogView EXCEPT !.options = keyLogKinds],
                     [rows |-> keyLogRequest, state |-> "ready", pages |-> n,
                      last |-> LogsQueryKey(keyLogView)],
                     NoKeyRequest)
    /\ UNCHANGED keyLogKinds

KeyLogsFail ==
    /\ keyLogRequest # NoKeyRequest /\ keyLogRequest' = NoKeyRequest
    /\ keyLogTable' = [keyLogTable EXCEPT !.state = "error"]
    /\ UNCHANGED <<keyLogView, keyLogKinds>>

\* External: requests of new kinds are recorded, old ones leave the log.
ServerLogsKey ==
    /\ \E kinds \in SUBSET KeyLogKind : kinds # keyLogKinds /\ keyLogKinds' = kinds
    /\ UNCHANGED <<keyLogView, keyLogTable, keyLogRequest>>

KeyLogsSettle == (\E n \in 1 .. MaxKeyLogPage : KeyLogsAnswered(n)) \/ KeyLogsFail

KeyLogNext ==
    \/ \E w \in KeyLogWindow : KeyLogsWindow(w)
    \/ \E q \in KeyLogQuick : HandleKeyLogQuickFilters(q)
    \/ \E k \in KeyLogKind : HandleToggleKeyLogKind(k)
    \/ HandleClearKeyLogKinds
    \/ \E o \in KeyLogOutcome : HandleKeyLogOutcomeFilter(o)
    \/ \E p \in 1 .. MaxKeyLogPage : GoKeyLogsPage(p)
    \/ ChangeKeyLogsPerPage \/ LogsNonceGrows
    \/ KeyLogsSettle \/ ServerLogsKey

KeyLogSpec == KeyLogInit /\ [][KeyLogNext]_keyLogVars

-----------------------------------------------------------------------------
(* Properties.                                                                *)

\* The rows on the page are exactly of its window, its outcome filter, the kinds its filters
\* stand for under the options it knows, and its page number.
KeyLogsOfFilters ==
    keyLogTable.rows # NoKeyRequest => keyLogTable.rows = KeyLogRequestOf(keyLogView)
=============================================================================
