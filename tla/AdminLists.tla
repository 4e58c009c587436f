----------------------------- MODULE AdminLists -----------------------------
(***************************************************************************)
(* The paged lists of the admin dashboard (web/src/AdminDashboard.tsx):     *)
(* requests, jobs, keys, users, unbound token usage and tokens.  A list has *)
(* a query (filter and page), the rows it shows, a load state and requests  *)
(* on their way.  A change of query starts a request from a React effect    *)
(* and clears the rows; a refresh keeps them; an edit of a key or a user    *)
(* ends with a reload that no AbortController manages.                      *)
(*                                                                          *)
(* The lists share no state and behave alike up to the differences named    *)
(* below, so a behaviour is about one of them.  What the server has under a *)
(* filter does not change.                                                  *)
(***************************************************************************)
EXTENDS Integers, FiniteSets

CONSTANTS
    ListKind,         \* the lists a behaviour may be about
    Filter,           \* filters, searches, sort orders and groups
    DefaultFilter,    \* no filter
    NoKindFilter,     \* a quick filter of request kinds that matches no known kind
    PagesOf,          \* PagesOf[f]: pages the server has under f, 0 when nothing matches
    MaxPage,          \* bound: pages a link can name
    MaxListRequests   \* bound: requests sent in a behaviour

ASSUME ListConstants ==
    /\ ListKind \subseteq {"requests", "jobs", "keys", "users", "unbound", "tokens"}
    /\ DefaultFilter \in Filter
    /\ PagesOf \in [Filter -> 0 .. MaxPage]
    /\ NoKindFilter \in Filter => PagesOf[NoKindFilter] = 0
    /\ MaxPage \in Nat \ {0} /\ MaxListRequests \in Nat \ {0}

VARIABLES
    list,        \* the list this behaviour is about
    onRoute,     \* the route shows the list
    query,       \* page, filter, search, group and sort state
    rows,        \* the rows in state, with the query they answer and what asked for them
    loadState,   \* QueryLoadState
    loadedOnce,  \* the ...LoadedRef flag
    loadedKey,   \* the ...QueryKeyRef: the query of the last successful load
    flight,      \* requests on their way
    sentCount    \* requests sent so far

listVars == <<list, onRoute, query, rows, loadState, loadedOnce, loadedKey, flight, sentCount>>

Query == [filter : Filter, page : 1 .. MaxPage]
FirstPage(f) == [filter |-> f, page |-> 1]
NoQuery == [filter |-> DefaultFilter, page |-> 0]
\* No rows, and a total of 0: what setX([]) and setXTotal(0) leave.
Cleared == [query |-> NoQuery, by |-> "none", pages |-> 0, empty |-> TRUE]

\* What the server answers to query q: rows and the number of pages.  Only the keys
\* endpoint clamps the page to the last one there is.
Answer(q) ==
    LET pages == PagesOf[q.filter]
        page == IF list = "keys" /\ q.page > pages THEN IF pages = 0 THEN 1 ELSE pages
                ELSE q.page
    IN [query |-> [q EXCEPT !.page = page], pages |-> pages, empty |-> page > pages]

ListTypeOK ==
    /\ list \in ListKind
    /\ onRoute \in BOOLEAN
    /\ query \in Query
    /\ rows.query \in Query \cup {NoQuery}
    /\ rows.by \in {"effect", "refresh", "edit", "none"}
    /\ loadState \in {"initial_loading", "switch_loading", "refreshing", "ready", "error"}
    /\ loadedOnce \in BOOLEAN
    /\ loadedKey \in Query \cup {NoQuery}
    /\ \A r \in flight : /\ r.id \in 1 .. sentCount /\ r.query \in Query
                         /\ r.by \in {"effect", "refresh", "edit"} /\ r.aborted \in BOOLEAN
    /\ sentCount \in 0 .. MaxListRequests

-----------------------------------------------------------------------------
GetBlockingLoadState(once) == IF once THEN "switch_loading" ELSE "initial_loading"
GetRefreshingLoadState(once) == IF once THEN "refreshing" ELSE "initial_loading"
IsBlocking == loadState \in {"initial_loading", "switch_loading"}

\* The effect that loads requests, jobs or tokens runs on every route; the effects of
\* keys, users and unbound usage run on their own routes.
AlwaysLoaded == list \in {"requests", "jobs", "tokens"}
\* Mutant: the request before is not aborted.
BeginUnmanaged(q, by) ==
    /\ sentCount < MaxListRequests
    /\ sentCount' = sentCount + 1
    /\ flight' = flight \cup {[id |-> sentCount + 1, query |-> q, by |-> by, aborted |-> FALSE]}

\* beginManagedRequest: abort the request that is on its way, send a new one.
BeginManaged(q, by) ==
    /\ sentCount < MaxListRequests
    /\ sentCount' = sentCount + 1
    /\ flight' = {[r EXCEPT !.aborted = @ \/ r.by # "edit"] : r \in flight}
                 \cup {[id |-> sentCount + 1, query |-> q, by |-> by, aborted |-> FALSE]}

\* A list starts to load q: "kept" rows stay if q is what was loaded last ("same").
LoadList(q, same, kept) ==
    /\ BeginManaged(q, "effect")
    /\ rows' = IF same THEN kept ELSE Cleared
    /\ loadState' = IF same THEN GetRefreshingLoadState(TRUE) ELSE GetBlockingLoadState(loadedOnce)
    /\ UNCHANGED <<loadedOnce, loadedKey>>

\* The quick filters of the requests page match none of the known kinds: the effect
\* empties the list without asking the server.
NoKinds(q) == list = "requests" /\ q.filter = NoKindFilter

RequestsEffect(q) ==
    \/ ~NoKinds(q) /\ LoadList(q, FALSE, Cleared)
    \/ /\ NoKinds(q)
       /\ rows' = Cleared
       /\ loadState' = "ready"
       /\ loadedOnce' = TRUE
       /\ flight' = {[r EXCEPT !.aborted = TRUE] : r \in flight}
       /\ UNCHANGED <<loadedKey, sentCount>>

JobsEffect(q) == LoadList(q, FALSE, Cleared)
TokensEffect(q) == LoadList(q, FALSE, Cleared)

\* The effects of keys, users and unbound usage tell a change of query from a re-run by
\* the query they last loaded.
SameQuery(q) == loadedOnce /\ loadedKey = q
KeysEffect(q, kept) == LoadList(q, SameQuery(q), kept)
UsersEffect(q, kept) == LoadList(q, SameQuery(q), kept)
UnboundUsageEffect(q, kept) == LoadList(q, SameQuery(q), kept)

RunEffect(q, kept) ==
    CASE list = "requests" -> RequestsEffect(q)
      [] list = "jobs" -> JobsEffect(q)
      [] list = "tokens" -> TokensEffect(q)
      [] list = "keys" -> KeysEffect(q, kept)
      [] list = "users" -> UsersEffect(q, kept)
      [] OTHER -> UnboundUsageEffect(q, kept)

ListInit ==
    /\ list \in ListKind
    /\ onRoute = FALSE
    /\ query = FirstPage(DefaultFilter)
    /\ rows = Cleared
    /\ loadState = "initial_loading"
    /\ loadedOnce = FALSE
    /\ loadedKey = NoQuery
    /\ sentCount = IF AlwaysLoaded THEN 1 ELSE 0
    /\ flight = IF AlwaysLoaded
                THEN {[id |-> 1, query |-> query, by |-> "effect", aborted |-> FALSE]}
                ELSE {}

-----------------------------------------------------------------------------
(* The panels: the region a list shows and the controls it offers.            *)

\* AdminLoadingRegion, around every table and card list: a skeleton while the list blocks,
\* the error if the panel has a label for it, and the panel's content otherwise.
Region(hasErrorLabel) ==
    CASE IsBlocking -> "skeleton"
      [] loadState = "error" /\ hasErrorLabel -> "error"
      [] OTHER -> IF rows.empty THEN "empty" ELSE "rows"

\* AdminTablePagination: previous and next, both off while the list blocks.
Pager(q) ==
    /\ ~IsBlocking
    /\ q.filter = query.filter
    /\ q.page \in {query.page - 1, query.page + 1} \cap 1 .. rows.pages

\* The tables and card lists of the panels.  The tokens panel has no error label: after a
\* failed load it goes on showing what it has.
TokensTable == Region(FALSE)
TokenCards == Region(FALSE)
KeysTable == Region(TRUE)
KeyCards == Region(TRUE)
RequestsTable == Region(TRUE)
RequestCards == Region(TRUE)
JobsTable == Region(TRUE)
JobCards == Region(TRUE)
UsersTable == Region(TRUE)
UserCards == Region(TRUE)
UserUsageTable == Region(TRUE)
UserUsageCards == Region(TRUE)
UnboundUsageTable == Region(TRUE)
UnboundUsageCards == Region(TRUE)

\* What the route of the list shows, in its table and in its cards alike.
Shown ==
    CASE list = "tokens" -> {TokensTable, TokenCards}
      [] list = "keys" -> {KeysTable, KeyCards}
      [] list = "requests" -> {RequestsTable, RequestCards}
      [] list = "jobs" -> {JobsTable, JobCards}
      [] list = "users" -> {UsersTable, UserCards, UserUsageTable, UserUsageCards}
      [] OTHER -> {UnboundUsageTable, UnboundUsageCards}

\* The pagers.  All but that of the requests panel are left out when everything fits on
\* one page; the requests panel shows its page clamped to the last one.
TokensPager(q) == rows.pages > 1 /\ Pager(q)
KeysPager(q) == rows.pages > 1 /\ Pager(q)
JobsPager(q) == rows.pages > 1 /\ Pager(q)
UsersPager(q) == rows.pages > 1 /\ Pager(q)
UnboundUsagePager(q) == rows.pages > 1 /\ Pager(q)
RequestsPager(q) == Pager(q)

PageOffered(q) ==
    CASE list = "tokens" -> TokensPager(q)
      [] list = "keys" -> KeysPager(q)
      [] list = "jobs" -> JobsPager(q)
      [] list = "users" -> UsersPager(q)
      [] list = "unbound" -> UnboundUsagePager(q)
      [] OTHER -> RequestsPager(q)

\* The filters: group chips, job tabs, search fields and sort headers are off while their
\* list blocks; the filters of keys and of requests are not.
TokenGroupChips == ~IsBlocking
JobFilterTabs == ~IsBlocking
UserSearchControls == ~IsBlocking
UsageSearchControls == ~IsBlocking
UnboundSearchControls == ~IsBlocking
KeyFilters == TRUE
RequestFilters == TRUE

FilterOffered ==
    CASE list = "tokens" -> TokenGroupChips
      [] list = "jobs" -> JobFilterTabs
      [] list = "users" -> UserSearchControls \/ UsageSearchControls
      [] list = "unbound" -> UnboundSearchControls
      [] list = "keys" -> KeyFilters
      [] OTHER -> RequestFilters

\* The refresh button: activeModuleBlocking leaves keys out.
RefreshOffered == onRoute /\ (list = "keys" \/ ~IsBlocking)

-----------------------------------------------------------------------------
(* Navigation and controls.                                                   *)

\* The route comes to show the list, or is re-entered by the Back button: the effects run
\* for the old query, then (keys, users, unbound) the location's query is taken over.  A
\* link names a page that exists; a link to the keys may be older than the last deletion.
Arrive(q) ==
    /\ AlwaysLoaded => q = query /\ ~onRoute
    /\ list = "keys" \/ q.page <= PagesOf[q.filter] \/ q.page = 1 \/ AlwaysLoaded
    /\ q.filter = NoKindFilter => list = "requests"
    /\ onRoute' = TRUE
    /\ query' = q
    /\ IF AlwaysLoaded THEN UNCHANGED <<rows, loadState, loadedOnce, loadedKey, flight, sentCount>>
       ELSE RunEffect(q, IF SameQuery(query) THEN rows ELSE Cleared)
    /\ UNCHANGED list

\* The route shows something else: the effect's cleanup aborts its request, not a refresh.
Leave ==
    /\ onRoute
    /\ onRoute' = FALSE
    /\ flight' = IF AlwaysLoaded THEN flight
                 ELSE {[r EXCEPT !.aborted = @ \/ r.by = "effect"] : r \in flight}
    /\ UNCHANGED <<list, query, rows, loadState, loadedOnce, loadedKey, sentCount>>

SetQuery(q) ==
    /\ q # query
    /\ query' = q
    /\ RunEffect(q, rows)
    /\ UNCHANGED <<list, onRoute>>

\* goPrevPage, goNextPage and their namesakes.
GoPage(q) == onRoute /\ PageOffered(q) /\ SetQuery(q)

\* The filter, search, sort and group handlers go to the first page, except that the tabs
\* of the jobs panel only set the filter.
AfterFilter(f) == IF list = "jobs" THEN [query EXCEPT !.filter = f] ELSE FirstPage(f)

ChangeFilter(f) ==
    /\ onRoute /\ FilterOffered
    /\ f = NoKindFilter => list = "requests"
    /\ SetQuery(AfterFilter(f))

\* A refresh that asks for q: the rows stay until the answer is there.
Reload(q) ==
    /\ BeginManaged(q, "refresh")
    /\ loadState' = GetRefreshingLoadState(loadedOnce)
    /\ UNCHANGED <<list, onRoute, query, rows, loadedOnce, loadedKey>>

\* With no matching kind the requests page asks for requestKinds: [], that is, for all.
RefreshRequests ==
    /\ list = "requests"
    /\ Reload(IF NoKinds(query) THEN [query EXCEPT !.filter = DefaultFilter] ELSE query)
RefreshJobs == list = "jobs" /\ Reload(query)
RefreshUsers == list = "users" /\ Reload(query)
RefreshKeys == list = "keys" /\ Reload(query)
LoadUnboundTokenUsage == list = "unbound" /\ onRoute /\ Reload(query)
LoadData == list = "tokens" /\ Reload(query)

\* handleManualRefresh.
ManualRefresh ==
    /\ RefreshOffered
    /\ \/ RefreshRequests \/ RefreshJobs \/ RefreshUsers \/ RefreshKeys
       \/ LoadUnboundTokenUsage \/ LoadData

\* The polling fallback reloads the tokens, and the unbound usage on its route.
PollRefresh == LoadUnboundTokenUsage \/ LoadData

\* An edit of a key or of a user ends with refreshKeysList or refreshUsersList for the
\* query of the click, with no controller.
EditRefresh ==
    /\ list \in {"keys", "users"} /\ onRoute
    /\ sentCount < MaxListRequests
    /\ sentCount' = sentCount + 1
    /\ flight' = flight \cup {[id |-> sentCount + 1, query |-> query, by |-> "edit",
                               aborted |-> FALSE]}
    /\ UNCHANGED <<list, onRoute, query, rows, loadState, loadedOnce, loadedKey>>

-----------------------------------------------------------------------------
(* Answers.                                                                   *)

\* The answer of r becomes the rows.
ShowAnswer(r) ==
    LET a == Answer(r.query)
    IN rows' = [query |-> a.query, by |-> r.by, pages |-> a.pages, empty |-> a.empty]

\* The answer names another page than the one in state: the keys list takes it over, and
\* its effect runs for the new query.
PageMoved(r) == list = "keys" /\ Answer(r.query).query.page # query.page

\* A success of the effect records what was loaded; of the manual refreshes, those of keys,
\* tokens and unbound usage do, those of requests, jobs and users do not.
RecordsLoad(r) == r.by = "effect" \/ list \in {"keys", "tokens", "unbound"}

\* A request that was not aborted succeeds.
Succeed(r) ==
    /\ r \in flight /\ ~r.aborted /\ r.by # "edit"
    /\ ShowAnswer(r)
    /\ loadState' = "ready"
    /\ loadedOnce' = (loadedOnce \/ RecordsLoad(r))
    /\ loadedKey' = IF RecordsLoad(r) THEN r.query ELSE loadedKey
    /\ flight' = flight \ {r}
    /\ UNCHANGED <<list, onRoute, query, sentCount>>

\* A keys load lands on another page than asked: the state follows the server and, on the
\* keys route, the effect runs at once for the page the server named.
SucceedElsewhere(r) ==
    LET q == [query EXCEPT !.page = Answer(r.query).query.page]
    IN /\ r \in flight /\ ~r.aborted
       /\ PageMoved(r)
       /\ query' = q
       /\ loadedOnce' = (loadedOnce \/ r.by # "edit")
       /\ loadedKey' = IF r.by # "edit" THEN r.query ELSE loadedKey
       /\ IF onRoute
          THEN /\ sentCount < MaxListRequests
               /\ sentCount' = sentCount + 1
               /\ flight' = {[s EXCEPT !.aborted = @ \/ s.by # "edit"] : s \in flight \ {r}}
                            \cup {[id |-> sentCount + 1, query |-> q, by |-> "effect",
                                   aborted |-> FALSE]}
               /\ IF loadedOnce' /\ loadedKey' = q
                  THEN ShowAnswer(r) /\ loadState' = "refreshing"
                  ELSE rows' = Cleared /\ loadState' = GetBlockingLoadState(loadedOnce')
          ELSE /\ flight' = flight \ {r}
               /\ ShowAnswer(r)
               /\ loadState' = "ready"
               /\ UNCHANGED sentCount
       /\ UNCHANGED <<list, onRoute>>

\* The unmanaged reload after an edit succeeds: it only sets the rows.
EditAnswered(r) ==
    /\ r \in flight /\ r.by = "edit"
    /\ ShowAnswer(r)
    /\ flight' = flight \ {r}
    /\ UNCHANGED <<list, onRoute, query, loadState, loadedOnce, loadedKey, sentCount>>

\* Mutant: a failure is only logged.
FailSilently(r) ==
    /\ r \in flight /\ ~r.aborted
    /\ flight' = flight \ {r}
    /\ UNCHANGED <<list, onRoute, query, rows, loadState, loadedOnce, loadedKey, sentCount>>

\* An effect's failure clears the rows, except that tokens keep what they have; a failed
\* manual refresh keeps them, except for unbound usage, whose loads are all one function.
KeepsRows(r) == list = "tokens" \/ (r.by = "refresh" /\ list # "unbound")

Fail(r) ==
    /\ r \in flight /\ ~r.aborted
    /\ flight' = flight \ {r}
    /\ IF r.by = "edit" THEN UNCHANGED <<rows, loadState>>
       ELSE /\ rows' = IF KeepsRows(r) THEN rows ELSE Cleared
            /\ loadState' = "error"
    /\ UNCHANGED <<list, onRoute, query, loadedOnce, loadedKey, sentCount>>

\* loadData turns a failed fetchTokens into an empty page.
TokensFail(r) ==
    /\ list = "tokens" /\ r \in flight /\ ~r.aborted
    /\ flight' = flight \ {r}
    /\ rows' = Cleared
    /\ loadState' = "ready"
    /\ loadedOnce' = TRUE
    /\ loadedKey' = r.query
    /\ UNCHANGED <<list, onRoute, query, sentCount>>

\* An aborted request settles: every handler returns at once.
SettleAborted(r) ==
    /\ r \in flight /\ r.aborted
    /\ flight' = flight \ {r}
    /\ UNCHANGED <<list, onRoute, query, rows, loadState, loadedOnce, loadedKey, sentCount>>

Settle(r) ==
    \/ ~PageMoved(r) /\ (Succeed(r) \/ EditAnswered(r))
    \/ SucceedElsewhere(r)
    \/ Fail(r) \/ TokensFail(r) \/ SettleAborted(r)

ListNext ==
    \/ \E q \in Query : Arrive(q) \/ GoPage(q)
    \/ \E f \in Filter : ChangeFilter(f)
    \/ Leave \/ ManualRefresh \/ PollRefresh \/ EditRefresh
    \/ \E r \in flight : Settle(r)

ListSpec == ListInit /\ [][ListNext]_listVars

-----------------------------------------------------------------------------
\* Where the code shows rows of another query.  A refresh without a matching kind asks for all
\* kinds; and a refresh of the users leaves usersQueryKeyRef behind, so that a later change back
\* to the query it names keeps the rows refreshed meanwhile until its own answer is there.
RefreshedForAllKinds ==
    NoKinds(query) /\ rows.by = "refresh" /\ rows.query = [query EXCEPT !.filter = DefaultFilter]
RefreshedBehindKey ==
    /\ list = "users" /\ rows.by = "refresh"
    /\ loadedKey = query /\ loadState \in {"refreshing", "error"}

\* The rows of an effect or a refresh were asked of the server with the query on the screen, but
\* for the two cases above: a late answer never overwrites a later query's rows, and a change of
\* query never keeps the rows of the one before (beginManagedRequest, the cleanups of the
\* effects, the signal.aborted checks and the query keys).  The reload after an edit, which
\* nothing aborts, may show rows of the query of its click.
RowsAskedByQuery ==
    rows.by \in {"effect", "refresh"} =>
        rows.query = query \/ RefreshedForAllKinds \/ RefreshedBehindKey

\* A list that is ready and shows its empty text has nothing on its page, and unless it is that
\* of the jobs, whose tabs keep the page of the filter before, or of the users, whose pager the
\* reload of an edit may mislead, nothing under its filter at all.  (Not so where the reload of
\* an edit brought the rows, nor where a failed fetchTokens reads as none.)
ReadyEmptyIsEmpty ==
    /\ loadState = "ready" /\ "empty" \in Shown
    /\ rows.by # "edit" /\ ~(list = "tokens" /\ rows.by = "none")
    => /\ query.page > PagesOf[query.filter]
       /\ list \notin {"jobs", "users"} => PagesOf[query.filter] = 0
=============================================================================
