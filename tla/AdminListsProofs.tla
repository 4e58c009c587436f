-------------------------- MODULE AdminListsProofs --------------------------
(***************************************************************************)
(* Proofs about the lists of the admin dashboard, the drawer of the broken  *)
(* keys, the addresses the lists are kept in, and the rows and charts of    *)
(* the proxy nodes, for every value of the constants.  AdminTabProofs draws *)
(* the conclusions for the whole tab.                                       *)
(***************************************************************************)
EXTENDS AdminLists, BrokenKeys, AdminRoutes, ProxyCharts, FiniteSetTheorems, SequenceTheorems,
        WellFoundedInduction, TLAPS

------------------------------------------------------------------------------
(* The paged lists.                                                           *)

Managed == {"effect", "refresh"}
LoadStates == {"initial_loading", "switch_loading", "refreshing", "ready", "error"}
Requests == [id : 1 .. MaxListRequests, query : Query, by : {"effect", "refresh", "edit"},
             aborted : BOOLEAN]
ListTypes ==
    /\ list \in ListKind /\ onRoute \in BOOLEAN /\ query \in Query
    /\ loadState \in LoadStates /\ loadedOnce \in BOOLEAN
    /\ loadedKey \in Query \cup {NoQuery}
    /\ flight \subseteq Requests /\ (\A r \in flight : r.id <= sentCount)
    /\ sentCount \in 0 .. MaxListRequests
AllKinds(q) == [q EXCEPT !.filter = DefaultFilter]
\* A request that is still wanted asks for the query on the screen, but for the page of the keys
\* and for the refresh of a list without kinds.
RequestIsOf(r) ==
    /\ r.by = "edit" => list \in {"keys", "users"}
    /\ ~r.aborted /\ r.by # "edit" =>
         IF list = "keys" THEN r.query.filter = query.filter
         ELSE r.query = query \/ (NoKinds(query) /\ r.by = "refresh" /\ r.query = AllKinds(query))
\* The key of the last load tells the query of the rows apart from every query that can be gone
\* to, a page the server has clamped included.
LoadedKeyOf ==
    /\ loadedOnce /\ loadedKey.filter = rows.query.filter
    /\ loadedKey.page # rows.query.page =>
         list = "keys" /\ loadedKey.page > rows.pages /\ loadedKey.page > 1
\* The rows of a managed request are what the server has.
RowsAreAnswer ==
    /\ rows.query \in Query /\ rows.pages = PagesOf[rows.query.filter]
    /\ rows.empty <=> rows.query.page > rows.pages
    /\ list = "keys" /\ rows.empty => rows.pages = 0
\* The refresh of the users alone leaves the key of the last load behind.
KeysOfLoads ==
    /\ loadedKey \in Query => loadedOnce
    /\ rows.by \in Managed /\ list \in {"keys", "unbound"} => LoadedKeyOf
    /\ rows.by = "effect" /\ list = "users" => loadedKey = rows.query
RowsInv ==
    /\ rows.query \in Query \cup {NoQuery} /\ rows.by \in Managed \cup {"none", "edit"}
    /\ rows.pages \in 0 .. MaxPage /\ rows.empty \in BOOLEAN
    /\ rows.by = "edit" => list \in {"keys", "users"}
    /\ rows.by = "none" => rows.pages = 0
    /\ rows.by \in Managed => RowsAreAnswer
    /\ rows.by \in Managed => rows.query = query \/ RefreshedForAllKinds \/ RefreshedBehindKey
    /\ KeysOfLoads
    /\ loadState = "ready" /\ rows.by = "none" => list = "tokens" \/ NoKinds(query)
\* The page is one the server has, or the first.
PageInv ==
    list \in {"requests", "unbound", "tokens"} =>
        query.page = 1 \/ query.page <= PagesOf[query.filter] \/ NoKinds(query)
ListInv == ListTypes /\ (\A r \in flight : RequestIsOf(r)) /\ RowsInv /\ PageInv

LEMMA ListInvImplies == ListInv => ListTypeOK /\ RowsAskedByQuery /\ ReadyEmptyIsEmpty
<1> SUFFICES ASSUME ListInv PROVE ListTypeOK /\ RowsAskedByQuery /\ ReadyEmptyIsEmpty
  OBVIOUS
<1>1. ListTypeOK
  <2>1. ASSUME NEW r \in flight
        PROVE  /\ r.id \in 1 .. sentCount /\ r.query \in Query
               /\ r.by \in {"effect", "refresh", "edit"} /\ r.aborted \in BOOLEAN
    <3>1. r \in Requests /\ r.id <= sentCount /\ sentCount \in 0 .. MaxListRequests
      BY DEF ListInv, ListTypes
    <3> QED
      BY <3>1, ListConstants DEF Requests
  <2> QED
    BY <2>1 DEF ListInv, ListTypes, LoadStates, RowsInv, Managed, ListTypeOK
<1>2. RowsAskedByQuery
  BY DEF ListInv, RowsInv, Managed, RowsAskedByQuery
<1>3. ReadyEmptyIsEmpty
  <2> SUFFICES ASSUME loadState = "ready", "empty" \in Shown, rows.by # "edit",
                      ~(list = "tokens" /\ rows.by = "none")
               PROVE  /\ query.page > PagesOf[query.filter]
                      /\ list \notin {"jobs", "users"} => PagesOf[query.filter] = 0
    BY DEF ReadyEmptyIsEmpty
  <2>1. rows.empty
    <3>1. /\ Region(TRUE) = IF rows.empty THEN "empty" ELSE "rows"
          /\ Region(FALSE) = IF rows.empty THEN "empty" ELSE "rows"
      BY DEF Region, IsBlocking
    <3>2. Shown \subseteq {Region(TRUE), Region(FALSE)}
      BY DEF Shown, RequestsTable, RequestCards, KeysTable, KeyCards, UnboundUsageTable, UnboundUsageCards,
             TokensTable, TokenCards, JobsTable, JobCards, UsersTable, UserCards, UserUsageTable, UserUsageCards
    <3> QED
      BY <3>1, <3>2
  <2>2. query.filter \in Filter /\ query.page \in 1 .. MaxPage /\ PagesOf[query.filter] \in 0 .. MaxPage
    BY ListConstants DEF ListInv, ListTypes, Query
  <2>3. NoKinds(query) => PagesOf[query.filter] = 0
    BY <2>2, ListConstants DEF NoKinds
  <2>4. CASE rows.by = "none"
    BY <2>2, <2>3, <2>4, ListConstants DEF ListInv, RowsInv
  <2>5. CASE rows.by \in Managed /\ RefreshedForAllKinds
    BY <2>2, <2>3, <2>5, ListConstants DEF RefreshedForAllKinds
  <2>6. CASE rows.by \in Managed /\ rows.query = query
    <3>1. /\ rows.pages = PagesOf[query.filter] /\ query.page > PagesOf[query.filter]
          /\ list = "keys" => rows.pages = 0
      BY <2>1, <2>6 DEF ListInv, RowsInv, RowsAreAnswer
    <3>2. list \in {"requests", "unbound", "tokens"} => PagesOf[query.filter] = 0
      BY <2>2, <2>3, <3>1, ListConstants DEF ListInv, PageInv
    <3>3. list \in {"requests", "jobs", "keys", "users", "unbound", "tokens"}
      BY ListConstants DEF ListInv, ListTypes
    <3> QED
      BY <3>1, <3>2, <3>3
  <2> QED
    BY <2>4, <2>5, <2>6 DEF ListInv, RowsInv, Managed, RefreshedBehindKey
<1> QED
  BY <1>1, <1>2, <1>3

LEMMA ClearedRows ==
    /\ Cleared.query = NoQuery /\ Cleared.by = "none" /\ Cleared.pages = 0 /\ Cleared.empty \in BOOLEAN
    /\ NoQuery \notin Query /\ FirstPage(DefaultFilter) \in Query
<1>1. TRUE \in BOOLEAN
  BY Zenon
<1> QED
  BY <1>1, ListConstants DEF Cleared, NoQuery, Query, FirstPage

LEMMA ListInitInv == ListInit => ListInv
<1> SUFFICES ASSUME ListInit PROVE ListInv
  OBVIOUS
<1>1. /\ list \in ListKind /\ query = FirstPage(DefaultFilter) /\ rows = Cleared
      /\ loadState = "initial_loading" /\ loadedKey = NoQuery
      /\ sentCount = (IF AlwaysLoaded THEN 1 ELSE 0)
  BY DEF ListInit
<1>2. onRoute \in BOOLEAN /\ loadedOnce \in BOOLEAN /\ FALSE \in BOOLEAN
  BY Zenon DEF ListInit
<1> DEFINE r0 == [id |-> 1, query |-> query, by |-> "effect", aborted |-> FALSE]
<1>3. flight = IF AlwaysLoaded THEN {r0} ELSE {}
  BY DEF ListInit
<1>4. query \in Query /\ query.page = 1
  BY <1>1, ClearedRows DEF FirstPage
<1>5. r0 \in Requests /\ r0.id = 1 /\ r0.query = query /\ r0.by = "effect"
  BY <1>2, <1>4, ListConstants DEF Requests
<1> HIDE DEF r0
<1>6. ListTypes
  BY <1>1, <1>2, <1>3, <1>4, <1>5, ListConstants DEF ListTypes, LoadStates
<1>7. \A r \in flight : RequestIsOf(r)
  BY <1>3, <1>5 DEF RequestIsOf
<1>8. RowsInv /\ PageInv
  BY <1>1, <1>4, ClearedRows, ListConstants DEF RowsInv, KeysOfLoads, PageInv, Managed
<1> QED
  BY <1>6, <1>7, <1>8 DEF ListInv

\* Aborting a request changes nothing else of it.
LEMMA AbortedRequest ==
    ASSUME NEW r \in Requests, NEW b \in BOOLEAN
    PROVE  LET q == [r EXCEPT !.aborted = b] IN
           /\ q \in Requests /\ q.id = r.id /\ q.query = r.query /\ q.by = r.by
           /\ q.aborted = b
  BY DEF Requests

\* External: what the server answers.  Only the keys are clamped, and then to a page there is.
LEMMA AnswerFacts ==
    ASSUME NEW q \in Query
    PROVE  /\ Answer(q).query \in Query /\ Answer(q).query.filter = q.filter
           /\ Answer(q).pages = PagesOf[q.filter] /\ Answer(q).pages \in 0 .. MaxPage
           /\ Answer(q).query.page \in 1 .. MaxPage
           /\ Answer(q).empty \in BOOLEAN /\ (Answer(q).empty <=> Answer(q).query.page > Answer(q).pages)
           /\ list # "keys" => Answer(q).query = q
           /\ list = "keys" /\ Answer(q).query.page # q.page => q.page > Answer(q).pages /\ q.page > 1
           /\ list = "keys" /\ Answer(q).empty => Answer(q).pages = 0
<1> DEFINE pages == PagesOf[q.filter]
           clamped == IF list = "keys" /\ q.page > pages THEN IF pages = 0 THEN 1 ELSE pages ELSE q.page
<1>1. q.filter \in Filter /\ q.page \in 1 .. MaxPage /\ pages \in 0 .. MaxPage
  BY ListConstants DEF Query
<1>2. clamped \in 1 .. MaxPage
  BY <1>1, ListConstants
<1>3. /\ Answer(q).query = [q EXCEPT !.page = clamped] /\ Answer(q).pages = pages
      /\ Answer(q).empty = (clamped > pages)
  BY DEF Answer
<1>4. /\ list # "keys" => clamped = q.page
      /\ list = "keys" /\ clamped # q.page => q.page > pages /\ q.page > 1
      /\ list = "keys" /\ clamped > pages => pages = 0
  BY <1>1
<1> HIDE DEF pages, clamped
<1>5. (clamped > pages) \in BOOLEAN
  BY <1>1, <1>2
<1>6. /\ Answer(q).query \in Query /\ Answer(q).query.filter = q.filter /\ Answer(q).query.page = clamped
      /\ clamped = q.page => Answer(q).query = q
  BY <1>1, <1>2, <1>3 DEF Query
<1>7. Answer(q).empty \in BOOLEAN /\ (Answer(q).empty <=> Answer(q).query.page > Answer(q).pages)
  BY <1>3, <1>5, <1>6
<1> QED
  BY <1>1, <1>2, <1>3, <1>4, <1>6, <1>7 DEF pages

LEMMA ShownRows ==
    ASSUME ListInv, NEW r \in flight, ShowAnswer(r)
    PROVE  /\ r \in Requests /\ RequestIsOf(r) /\ r.query \in Query
           /\ rows'.query = Answer(r.query).query /\ rows'.query.filter = r.query.filter
           /\ rows'.by = r.by /\ rows'.pages = Answer(r.query).pages /\ rows'.empty = Answer(r.query).empty
           /\ rows'.pages \in 0 .. MaxPage /\ rows'.empty \in BOOLEAN
           /\ list' = list => RowsAreAnswer'
<1>1. r \in Requests /\ RequestIsOf(r) /\ r.query \in Query
  BY DEF ListInv, ListTypes, Requests
<1>2. /\ rows'.query = Answer(r.query).query /\ rows'.by = r.by
      /\ rows'.pages = Answer(r.query).pages /\ rows'.empty = Answer(r.query).empty
  BY DEF ShowAnswer
<1>3. list' = list => RowsAreAnswer'
  BY <1>1, <1>2, AnswerFacts DEF RowsAreAnswer
<1> QED
  BY <1>1, <1>2, <1>3, AnswerFacts

\* A managed request of the query that is on the screen from now on.
LEMMA BeginManagedKeeps ==
    ASSUME ListInv, NEW q \in Query, NEW by \in Managed, query' \in Query, list' = list,
           IF list = "keys" THEN q.filter = query'.filter
           ELSE q = query' \/ (NoKinds(query') /\ by = "refresh" /\ q = AllKinds(query')),
           BeginManaged(q, by)
    PROVE  /\ flight' \subseteq Requests /\ sentCount' \in 0 .. MaxListRequests
           /\ \A r \in flight' : r.id <= sentCount' /\ RequestIsOf(r)'
<1> DEFINE new == [id |-> sentCount + 1, query |-> q, by |-> by, aborted |-> FALSE]
<1>1. /\ sentCount < MaxListRequests /\ sentCount' = sentCount + 1
      /\ flight' = {[r EXCEPT !.aborted = @ \/ r.by # "edit"] : r \in flight} \cup {new}
  BY DEF BeginManaged
<1>2. sentCount \in 0 .. MaxListRequests /\ flight \subseteq Requests
  BY DEF ListInv, ListTypes
<1>3. FALSE \in BOOLEAN
  BY Zenon
<1>4. new \in Requests /\ new.id = sentCount' /\ new.query = q /\ new.by = by
  BY <1>1, <1>2, <1>3, ListConstants DEF Requests, Managed
<1> HIDE DEF new
<1>5. ASSUME NEW s, s = new PROVE s.id <= sentCount' /\ RequestIsOf(s)'
  BY <1>1, <1>2, <1>4, <1>5 DEF RequestIsOf, Managed, NoKinds, AllKinds
<1>6. ASSUME NEW s \in flight', s # new
      PROVE  s \in Requests /\ s.id <= sentCount' /\ RequestIsOf(s)'
  <2>1. PICK r \in flight : s = [r EXCEPT !.aborted = r.aborted \/ r.by # "edit"]
    BY <1>1, <1>6
  <2>2. r \in Requests /\ r.id <= sentCount /\ RequestIsOf(r)
    BY DEF ListInv, ListTypes
  <2>3. /\ s \in Requests /\ s.id = r.id /\ s.query = r.query /\ s.by = r.by
        /\ (s.aborted <=> r.aborted \/ r.by # "edit")
    <3> DEFINE off == r.aborted \/ r.by # "edit"
    <3>1. off \in BOOLEAN
      BY Zenon
    <3>2. s = [r EXCEPT !.aborted = off]
      BY <2>1, Zenon
    <3>3. off <=> r.aborted \/ r.by # "edit"
      OBVIOUS
    <3> HIDE DEF off
    <3>4. /\ s \in Requests /\ s.id = r.id /\ s.query = r.query /\ s.by = r.by
          /\ s.aborted = off
      BY <2>2, <3>1, <3>2, AbortedRequest
    <3> QED
      BY <3>1, <3>3, <3>4
  <2>4. s.id <= sentCount'
    BY <1>1, <1>2, <2>2, <2>3 DEF Requests
  <2> QED
    BY <2>2, <2>3, <2>4 DEF RequestIsOf
<1>7. ASSUME NEW s \in flight' PROVE s \in Requests /\ s.id <= sentCount' /\ RequestIsOf(s)'
  <2>1. CASE s = new
    BY <1>4, <1>5, <2>1
  <2>2. CASE s # new
    BY <1>6, <2>2
  <2> QED
    BY <2>1, <2>2
<1>8. sentCount' \in 0 .. MaxListRequests
  BY <1>1, <1>2, ListConstants
<1> QED
  BY <1>7, <1>8

\* A request that is aborted, or stays wanted by the same query.
LEMMA AbortOf ==
    ASSUME NEW r \in Requests, NEW b \in BOOLEAN, NEW s, s = [r EXCEPT !.aborted = b],
           RequestIsOf(r), r.aborted => b, query' = query \/ b \/ r.by = "edit", list' = list
    PROVE  s \in Requests /\ s.id = r.id /\ RequestIsOf(s)'
<1>1. /\ s \in Requests /\ s.id = r.id /\ s.query = r.query /\ s.by = r.by
      /\ s.aborted = b
  BY AbortedRequest
<1> QED
  BY <1>1 DEF RequestIsOf, NoKinds, AllKinds

\* The rows of an effect: those kept must be of its query, but for those of the users.
UsersOf(q) == list = "users" /\ loadedKey = q /\ loadedOnce
LEMMA LoadListKeeps ==
    ASSUME ListInv, NEW q \in Query, NEW same \in BOOLEAN, NEW kept, LoadList(q, same, kept),
           query' = q, list' = list, onRoute' \in BOOLEAN, PageInv',
           same => kept = Cleared \/ (kept = rows /\ (UsersOf(q) \/ rows.by \notin Managed \/ q = query))
    PROVE  ListInv'
<1>1. /\ BeginManaged(q, "effect") /\ rows' = (IF same THEN kept ELSE Cleared)
      /\ loadState' = (IF same THEN GetRefreshingLoadState(TRUE) ELSE GetBlockingLoadState(loadedOnce))
      /\ UNCHANGED <<loadedOnce, loadedKey>>
  BY DEF LoadList
<1>2. /\ flight' \subseteq Requests /\ sentCount' \in 0 .. MaxListRequests
      /\ \A r \in flight' : r.id <= sentCount' /\ RequestIsOf(r)'
  BY <1>1, BeginManagedKeeps DEF Managed
<1>3. loadState' \in LoadStates /\ loadState' # "ready"
  BY <1>1 DEF GetRefreshingLoadState, GetBlockingLoadState, LoadStates
<1>4. ListTypes'
  BY <1>1, <1>2, <1>3 DEF ListInv, ListTypes
<1>5. \/ rows' = Cleared
      \/ /\ rows' = rows /\ (UsersOf(q) \/ rows.by \notin Managed \/ q = query)
         /\ loadState' = "refreshing"
  BY <1>1 DEF GetRefreshingLoadState
<1>6. RowsInv'
  <2>0. /\ rows.query \in Query \cup {NoQuery} /\ rows.by \in Managed \cup {"none", "edit"}
        /\ rows.pages \in 0 .. MaxPage /\ rows.empty \in BOOLEAN
        /\ rows.by = "edit" => list \in {"keys", "users"}
        /\ rows.by = "none" => rows.pages = 0
        /\ rows.by \in Managed => RowsAreAnswer
        /\ rows.by \in Managed => rows.query = query \/ RefreshedForAllKinds \/ RefreshedBehindKey
        /\ KeysOfLoads
    BY DEF ListInv, RowsInv
  <2>1. CASE rows' = Cleared
    <3>1. rows'.query = NoQuery /\ rows'.by = "none" /\ rows'.pages = 0 /\ rows'.empty \in BOOLEAN
      BY <2>1, ClearedRows
    <3>2. KeysOfLoads'
      BY <1>1, <2>0, <3>1 DEF KeysOfLoads, Managed
    <3> QED
      BY <1>3, <3>1, <3>2, ListConstants DEF RowsInv, Managed
  <2>2. ASSUME rows' = rows PROVE (rows.by \in Managed => RowsAreAnswer') /\ KeysOfLoads'
    BY <1>1, <2>0, <2>2 DEF RowsAreAnswer, KeysOfLoads, LoadedKeyOf
  <2>3. CASE rows' = rows /\ loadState' = "refreshing" /\ UsersOf(q)
    <3>1. rows.by \in Managed => rows.query = q \/ rows.by = "refresh"
      BY <2>0, <2>3 DEF UsersOf, KeysOfLoads, Managed
    <3> QED
      BY <1>1, <1>3, <2>0, <2>2, <2>3, <3>1 DEF RowsInv, UsersOf, RefreshedBehindKey
  <2>4. CASE rows' = rows /\ rows.by \notin Managed
    BY <1>3, <2>0, <2>2, <2>4 DEF RowsInv
  <2>5. CASE rows' = rows /\ q = query /\ loadState' = "refreshing"
    BY <1>1, <1>3, <2>0, <2>2, <2>5
       DEF RowsInv, RefreshedForAllKinds, RefreshedBehindKey, NoKinds
  <2> QED
    BY <1>5, <2>1, <2>3, <2>4, <2>5
<1> QED
  BY <1>2, <1>4, <1>6 DEF ListInv

LEMMA NoKindsKeeps ==
    ASSUME ListInv, NEW q \in Query, NoKinds(q), query' = q, list' = list, onRoute' \in BOOLEAN, PageInv',
           rows' = Cleared, loadState' = "ready", loadedOnce' = TRUE,
           flight' = {[r EXCEPT !.aborted = TRUE] : r \in flight}, UNCHANGED <<loadedKey, sentCount>>
    PROVE  ListInv'
<1>1. TRUE \in BOOLEAN
  BY Zenon
<1>2. ASSUME NEW s \in flight' PROVE s \in Requests /\ s.id <= sentCount /\ RequestIsOf(s)'
  <2>1. PICK r \in flight : s = [r EXCEPT !.aborted = TRUE]
    OBVIOUS
  <2>2. r \in Requests /\ RequestIsOf(r) /\ r.id <= sentCount
    BY DEF ListInv, ListTypes
  <2> QED
    BY <1>1, <2>1, <2>2, AbortOf
<1>3. ListTypes'
  BY <1>1, <1>2 DEF ListInv, ListTypes, LoadStates
<1>5. NoKinds(query)'
  BY DEF NoKinds
<1>6. RowsInv'
  BY <1>5, ClearedRows, ListConstants DEF RowsInv, KeysOfLoads, Managed
<1> QED
  BY <1>2, <1>3, <1>6 DEF ListInv

LEMMA RunEffectKeeps ==
    ASSUME ListInv, NEW q \in Query, NEW kept, RunEffect(q, kept),
           query' = q, list' = list, onRoute' \in BOOLEAN, PageInv',
           ~AlwaysLoaded /\ SameQuery(q) =>
             kept = Cleared \/ (kept = rows /\ (UsersOf(q) \/ rows.by \notin Managed \/ q = query))
    PROVE  ListInv'
<1>b. SameQuery(q) \in BOOLEAN /\ FALSE \in BOOLEAN
  BY Zenon DEF SameQuery
<1>l. list \in {"requests", "jobs", "keys", "users", "unbound", "tokens"}
  BY ListConstants DEF ListInv, ListTypes
<1>1. CASE list = "requests"
  <2>1. RequestsEffect(q)
    BY <1>1 DEF RunEffect
  <2>2. CASE LoadList(q, FALSE, Cleared)
    BY <1>b, <2>2, LoadListKeeps
  <2>3. CASE ~LoadList(q, FALSE, Cleared)
    BY <2>1, <2>3, NoKindsKeeps DEF RequestsEffect
  <2> QED
    BY <2>2, <2>3
<1>2. CASE list \in {"jobs", "tokens"}
  <2>1. LoadList(q, FALSE, Cleared)
    BY <1>2 DEF RunEffect, JobsEffect, TokensEffect
  <2> QED
    BY <1>b, <2>1, LoadListKeeps
<1>3. CASE list \in {"keys", "users", "unbound"}
  <2>1. LoadList(q, SameQuery(q), kept)
    BY <1>3 DEF RunEffect, KeysEffect, UsersEffect, UnboundUsageEffect
  <2>2. ~AlwaysLoaded
    BY <1>3 DEF AlwaysLoaded
  <2> DEFINE same == SameQuery(q)
  <2>3. same \in BOOLEAN /\ LoadList(q, same, kept)
        /\ (same => kept = Cleared \/ (kept = rows /\ (UsersOf(q) \/ rows.by \notin Managed \/ q = query)))
    BY <1>b, <2>1, <2>2
  <2> HIDE DEF same
  <2> QED
    BY <2>3, LoadListKeeps
<1> QED
  BY <1>l, <1>1, <1>2, <1>3

\* The key of the last load is not the key of a query that is gone to, unless the rows are of it.
LEMMA SetQueryKeeps ==
    ASSUME ListInv, NEW q \in Query, SetQuery(q), PageInv',
           list = "keys" => q.page = 1 \/ (q.page <= rows.pages /\ q.filter = query.filter)
    PROVE  ListInv'
<1>1. q # query /\ query' = q /\ RunEffect(q, rows) /\ UNCHANGED <<list, onRoute>>
  BY DEF SetQuery
<1>2. onRoute' \in BOOLEAN
  BY <1>1 DEF ListInv, ListTypes
<1>3. ASSUME ~AlwaysLoaded, SameQuery(q) PROVE UsersOf(q) \/ rows.by \notin Managed
  <2> SUFFICES ASSUME list # "users", rows.by \in Managed PROVE FALSE
    BY <1>3 DEF UsersOf, SameQuery
  <2>1. list \in {"keys", "unbound"}
    BY <1>3, ListConstants DEF ListInv, ListTypes, AlwaysLoaded
  <2>2. loadedKey = q /\ rows.query = query /\ LoadedKeyOf
    BY <1>3, <2>1 DEF SameQuery, ListInv, RowsInv, KeysOfLoads, RefreshedForAllKinds, RefreshedBehindKey, NoKinds
  <2>3. query \in Query /\ rows.pages \in 0 .. MaxPage
    BY DEF ListInv, ListTypes, RowsInv
  <2>4. q.filter = query.filter /\ q.page # query.page
    BY <1>1, <2>2, <2>3 DEF LoadedKeyOf, Query
  <2>5. list = "keys" /\ q.page > rows.pages /\ q.page > 1
    BY <2>2, <2>4 DEF LoadedKeyOf
  <2> QED
    BY <2>3, <2>5, ListConstants DEF Query
<1> QED
  BY <1>1, <1>2, <1>3, RunEffectKeeps

LEMMA ArriveInv == ASSUME ListInv, NEW q \in Query, Arrive(q) PROVE ListInv'
<1>1. /\ list = "keys" \/ q.page <= PagesOf[q.filter] \/ q.page = 1 \/ AlwaysLoaded
      /\ AlwaysLoaded => q = query
      /\ query' = q /\ UNCHANGED list
  BY DEF Arrive
<1>2. onRoute' \in BOOLEAN
  BY Zenon DEF Arrive
<1>3. PageInv'
  BY <1>1 DEF ListInv, PageInv, AlwaysLoaded, NoKinds
<1>4. CASE AlwaysLoaded
  <2>1. UNCHANGED <<list, query, rows, loadState, loadedOnce, loadedKey, flight, sentCount>>
    BY <1>1, <1>4 DEF Arrive
  <2> QED
    BY <1>2, <1>3, <2>1 DEF ListInv, ListTypes, RequestIsOf, AllKinds, RowsInv, RowsAreAnswer, KeysOfLoads,
                            LoadedKeyOf, RefreshedForAllKinds, RefreshedBehindKey, NoKinds
<1>5. CASE ~AlwaysLoaded
  <2> DEFINE kept == IF SameQuery(query) THEN rows ELSE Cleared
  <2>1. RunEffect(q, kept)
    BY <1>5 DEF Arrive
  <2>2. SameQuery(q) => kept = Cleared \/ (kept = rows /\ q = query)
    BY DEF SameQuery
  <2> HIDE DEF kept
  <2> QED
    BY <1>1, <1>2, <1>3, <2>1, <2>2, RunEffectKeeps
<1> QED
  BY <1>4, <1>5

LEMMA GoPageInv == ASSUME ListInv, NEW q \in Query, GoPage(q) PROVE ListInv'
<1>1. PageOffered(q) /\ SetQuery(q)
  BY DEF GoPage
<1>2. Pager(q)
  BY <1>1 DEF PageOffered, TokensPager, KeysPager, JobsPager, UsersPager, UnboundUsagePager, RequestsPager
<1>3. q.filter = query.filter /\ q.page \in 1 .. rows.pages /\ rows.pages \in 0 .. MaxPage
  BY <1>2 DEF Pager, ListInv, RowsInv
<1>4. q.page <= rows.pages /\ rows.pages # 0
  BY <1>3, ListConstants
<1>5. query' = q /\ list' = list
  BY <1>1 DEF SetQuery
<1>6. list \in {"requests", "unbound", "tokens"} => rows.pages = PagesOf[query.filter] \/ NoKinds(query)
  <2>1. list \in {"requests", "unbound", "tokens"} => rows.by \in Managed
    BY <1>4 DEF ListInv, RowsInv
  <2> QED
    BY <2>1 DEF ListInv, RowsInv, RowsAreAnswer, RefreshedForAllKinds, RefreshedBehindKey
<1>7. PageInv'
  BY <1>3, <1>4, <1>5, <1>6 DEF PageInv, NoKinds
<1> QED
  BY <1>1, <1>3, <1>4, <1>7, SetQueryKeeps

LEMMA ChangeFilterInv == ASSUME ListInv, NEW f \in Filter, ChangeFilter(f) PROVE ListInv'
<1> DEFINE q == AfterFilter(f)
<1>1. SetQuery(q)
  BY DEF ChangeFilter
<1>2. q \in Query /\ (list # "jobs" => q.page = 1)
  BY ListConstants DEF AfterFilter, FirstPage, Query, ListInv, ListTypes
<1> HIDE DEF q
<1>3. query' = q /\ list' = list
  BY <1>1 DEF SetQuery
<1>4. PageInv'
  BY <1>2, <1>3 DEF PageInv
<1> QED
  BY <1>1, <1>2, <1>4, SetQueryKeeps

LEMMA LeaveInv == ASSUME ListInv, Leave PROVE ListInv'
<1>1. /\ UNCHANGED <<list, query, rows, loadState, loadedOnce, loadedKey, sentCount>>
      /\ flight' = IF AlwaysLoaded THEN flight
                   ELSE {[r EXCEPT !.aborted = @ \/ r.by = "effect"] : r \in flight}
  BY DEF Leave
<1>2. onRoute' \in BOOLEAN
  BY Zenon DEF Leave
<1>3. ASSUME NEW s \in flight' PROVE s \in Requests /\ s.id <= sentCount /\ RequestIsOf(s)'
  <2>1. \A r \in flight : r \in Requests /\ RequestIsOf(r) /\ r.id <= sentCount
    BY DEF ListInv, ListTypes
  <2>2. CASE s \in flight
    BY <1>1, <2>1, <2>2 DEF RequestIsOf, NoKinds, AllKinds
  <2>3. CASE s \notin flight
    <3>1. PICK r \in flight : s = [r EXCEPT !.aborted = r.aborted \/ r.by = "effect"]
      BY <1>1, <2>3
    <3> DEFINE off == r.aborted \/ r.by = "effect"
    <3>2. off \in BOOLEAN
      BY Zenon
    <3>3. s = [r EXCEPT !.aborted = off] /\ (r.aborted => off)
      BY <3>1, Zenon
    <3> HIDE DEF off
    <3> QED
      BY <1>1, <2>1, <3>2, <3>3, AbortOf
  <2> QED
    BY <2>2, <2>3
<1>4. ListTypes'
  BY <1>1, <1>2, <1>3 DEF ListInv, ListTypes
<1> QED
  BY <1>1, <1>3, <1>4 DEF ListInv, RowsInv, PageInv, RowsAreAnswer, KeysOfLoads, LoadedKeyOf,
                          RefreshedForAllKinds, RefreshedBehindKey, NoKinds

LEMMA ReloadInv ==
    ASSUME ListInv, NEW q \in Query, Reload(q),
           q = query \/ (NoKinds(query) /\ q = AllKinds(query))
    PROVE  ListInv'
<1>1. /\ BeginManaged(q, "refresh") /\ loadState' = GetRefreshingLoadState(loadedOnce)
      /\ UNCHANGED <<list, onRoute, query, rows, loadedOnce, loadedKey>>
  BY DEF Reload
<1>2. /\ flight' \subseteq Requests /\ sentCount' \in 0 .. MaxListRequests
      /\ \A r \in flight' : r.id <= sentCount' /\ RequestIsOf(r)'
  <2>1. query' = query /\ query \in Query /\ list' = list
    BY <1>1 DEF ListInv, ListTypes
  <2>2. IF list = "keys" THEN q.filter = query'.filter
        ELSE q = query' \/ (NoKinds(query') /\ q = AllKinds(query'))
    BY <2>1 DEF NoKinds
  <2> QED
    BY <1>1, <2>1, <2>2, BeginManagedKeeps DEF Managed
<1>3. /\ loadState' \in LoadStates /\ loadState' # "ready" /\ (loadedOnce => loadState' = "refreshing")
  BY <1>1 DEF GetRefreshingLoadState, LoadStates
<1>4. ListTypes'
  BY <1>1, <1>2, <1>3 DEF ListInv, ListTypes
<1>5. RowsInv'
  BY <1>1, <1>3 DEF ListInv, ListTypes, RowsInv, RowsAreAnswer, KeysOfLoads, LoadedKeyOf,
                    RefreshedForAllKinds, RefreshedBehindKey, NoKinds
<1> QED
  BY <1>1, <1>2, <1>4, <1>5 DEF ListInv, PageInv, NoKinds

LEMMA RefreshesInv == ASSUME ListInv, ManualRefresh \/ PollRefresh PROVE ListInv'
<1>1. query \in Query
  BY DEF ListInv, ListTypes
<1>2. AllKinds(query) \in Query
  BY <1>1, ListConstants DEF Query, AllKinds
<1>3. CASE RefreshRequests
  <2>1. \/ NoKinds(query) /\ Reload(AllKinds(query))
        \/ Reload(query)
    BY <1>3 DEF RefreshRequests, AllKinds
  <2> QED
    BY <1>1, <1>2, <2>1, ReloadInv
<1> QED
  BY <1>1, <1>3, ReloadInv
     DEF ManualRefresh, PollRefresh, RefreshJobs, RefreshUsers, RefreshKeys, LoadUnboundTokenUsage, LoadData

LEMMA EditRefreshInv == ASSUME ListInv, EditRefresh PROVE ListInv'
<1> DEFINE new == [id |-> sentCount + 1, query |-> query, by |-> "edit", aborted |-> FALSE]
<1>1. /\ list \in {"keys", "users"} /\ sentCount < MaxListRequests /\ sentCount' = sentCount + 1
      /\ flight' = flight \cup {new}
      /\ UNCHANGED <<list, onRoute, query, rows, loadState, loadedOnce, loadedKey>>
  BY DEF EditRefresh
<1>2. sentCount \in 0 .. MaxListRequests /\ flight \subseteq Requests /\ query \in Query
  BY DEF ListInv, ListTypes
<1>3. FALSE \in BOOLEAN
  BY Zenon
<1>4. new \in Requests /\ new.id = sentCount' /\ new.by = "edit"
  BY <1>1, <1>2, <1>3, ListConstants DEF Requests
<1> HIDE DEF new
<1>5. sentCount' \in 0 .. MaxListRequests
  BY <1>1, <1>2, ListConstants
<1>6. ASSUME NEW s \in flight' PROVE s \in Requests /\ s.id <= sentCount' /\ RequestIsOf(s)'
  <2>1. CASE s = new
    BY <1>1, <1>4, <1>5, <2>1 DEF RequestIsOf
  <2>2. CASE s \in flight
    <3>1. s \in Requests /\ s.id <= sentCount /\ RequestIsOf(s)
      BY <2>2 DEF ListInv, ListTypes
    <3> QED
      BY <1>1, <1>2, <3>1 DEF RequestIsOf, Requests, NoKinds, AllKinds
  <2> QED
    BY <1>1, <2>1, <2>2
<1>7. ListTypes'
  BY <1>1, <1>5, <1>6 DEF ListInv, ListTypes
<1> QED
  BY <1>1, <1>6, <1>7 DEF ListInv, RowsInv, PageInv, RowsAreAnswer, KeysOfLoads, LoadedKeyOf,
                          RefreshedForAllKinds, RefreshedBehindKey, NoKinds

\* A request leaves; the query and the list stay.
LEMMA FlightLess ==
    ASSUME ListInv, NEW r \in flight, flight' = flight \ {r}, UNCHANGED <<list, query, sentCount>>
    PROVE  /\ flight' \subseteq Requests /\ \A s \in flight' : s.id <= sentCount' /\ RequestIsOf(s)'
           /\ PageInv'
<1>1. ASSUME NEW s \in flight' PROVE s \in Requests /\ s.id <= sentCount' /\ RequestIsOf(s)'
  <2>1. s \in Requests /\ s.id <= sentCount /\ RequestIsOf(s)
    BY DEF ListInv, ListTypes
  <2> QED
    BY <2>1 DEF RequestIsOf, NoKinds, AllKinds
<1> QED
  BY <1>1 DEF ListInv, PageInv, NoKinds

LEMMA SucceedInv == ASSUME ListInv, NEW r \in flight, ~PageMoved(r), Succeed(r) PROVE ListInv'
<1> DEFINE a == Answer(r.query)
<1>1. /\ ~r.aborted /\ r.by # "edit" /\ ShowAnswer(r) /\ loadState' = "ready"
      /\ loadedKey' = (IF RecordsLoad(r) THEN r.query ELSE loadedKey)
      /\ flight' = flight \ {r} /\ UNCHANGED <<list, onRoute, query, sentCount>>
  BY DEF Succeed
<1>2. loadedOnce' = (loadedOnce \/ RecordsLoad(r))
  BY DEF Succeed
<1>3. loadedOnce' \in BOOLEAN
  BY <1>2, Zenon
<1>4. /\ flight' \subseteq Requests /\ (\A s \in flight' : s.id <= sentCount' /\ RequestIsOf(s)') /\ PageInv'
  BY <1>1, FlightLess
<1>5. /\ r \in Requests /\ RequestIsOf(r) /\ r.query \in Query
      /\ rows'.query = a.query /\ rows'.query.filter = r.query.filter
      /\ rows'.by = r.by /\ rows'.pages = a.pages
      /\ rows'.pages \in 0 .. MaxPage /\ rows'.empty \in BOOLEAN /\ RowsAreAnswer'
  BY <1>1, ShownRows
<1>6. query \in Query /\ r.by \in Managed
  BY <1>1, <1>5 DEF Requests, ListInv, ListTypes, Managed
<1>7. /\ a.query \in Query
      /\ list # "keys" => a.query = r.query
      /\ list = "keys" /\ a.query.page # r.query.page => r.query.page > a.pages /\ r.query.page > 1
      /\ list = "keys" => a.query.page = query.page
  BY <1>5, AnswerFacts DEF PageMoved
<1> HIDE DEF a
<1>8. ListTypes'
  BY <1>1, <1>3, <1>4, <1>5 DEF ListInv, ListTypes, LoadStates
<1>9. rows'.query = query \/ RefreshedForAllKinds'
  <2>1. CASE list = "keys"
    <3>1. a.query.filter = query.filter /\ a.query.page = query.page
      BY <1>1, <1>5, <1>7, <2>1 DEF RequestIsOf
    <3> QED
      BY <1>5, <1>6, <1>7, <3>1 DEF Query
  <2>2. CASE list # "keys"
    BY <1>1, <1>5, <1>7, <2>2 DEF RequestIsOf, RefreshedForAllKinds, NoKinds, AllKinds
  <2> QED
    BY <2>1, <2>2
<1>10. KeysOfLoads'
  <2>1. loadedKey' \in Query => loadedOnce'
    BY <1>1, <1>2 DEF ListInv, RowsInv, KeysOfLoads
  <2>2. RecordsLoad(r) => loadedKey' = r.query /\ loadedOnce'
    BY <1>1, <1>2
  <2>3. ASSUME list \in {"keys", "unbound"} PROVE LoadedKeyOf'
    BY <1>1, <1>5, <1>7, <2>2, <2>3 DEF LoadedKeyOf, RecordsLoad
  <2>4. r.by = "effect" /\ list = "users" => loadedKey' = rows'.query
    BY <1>5, <1>7, <2>2 DEF RecordsLoad
  <2> QED
    BY <1>1, <1>5, <2>1, <2>3, <2>4 DEF KeysOfLoads
<1>11. RowsInv'
  BY <1>1, <1>5, <1>6, <1>7, <1>9, <1>10 DEF RowsInv, Managed
<1> QED
  BY <1>4, <1>8, <1>11 DEF ListInv

LEMMA SucceedElsewhereInv == ASSUME ListInv, NEW r \in flight, SucceedElsewhere(r) PROVE ListInv'
<1> DEFINE a == Answer(r.query)
           q == [query EXCEPT !.page = Answer(r.query).query.page]
           new == [id |-> sentCount + 1, query |-> q, by |-> "effect", aborted |-> FALSE]
<1>1. /\ ~r.aborted /\ PageMoved(r) /\ query' = q /\ UNCHANGED <<list, onRoute>>
      /\ loadedKey' = (IF r.by # "edit" THEN r.query ELSE loadedKey)
      /\ loadedOnce' = (loadedOnce \/ r.by # "edit")
  BY DEF SucceedElsewhere
<1>2. loadedOnce' \in BOOLEAN /\ FALSE \in BOOLEAN
  BY <1>1, Zenon
<1>3. list = "keys" /\ r \in Requests /\ RequestIsOf(r)
  BY <1>1 DEF ListInv, ListTypes, RequestIsOf, PageMoved
<1>4. r.query \in Query /\ query \in Query /\ r.by \in {"effect", "refresh", "edit"}
  BY <1>3 DEF ListInv, ListTypes, Requests
<1>5. /\ a.query \in Query /\ a.query.filter = r.query.filter /\ a.query.page \in 1 .. MaxPage
      /\ a.query.page # r.query.page => r.query.page > a.pages /\ r.query.page > 1
  BY <1>3, <1>4, AnswerFacts
<1>6. q \in Query /\ q.filter = query.filter /\ q.page = a.query.page
  BY <1>4, <1>5 DEF Query
<1>7. r.by # "edit" => r.query.filter = query.filter
  BY <1>1, <1>3 DEF RequestIsOf
<1>8. \/ /\ onRoute /\ sentCount < MaxListRequests /\ sentCount' = sentCount + 1
         /\ flight' = {[s EXCEPT !.aborted = @ \/ s.by # "edit"] : s \in flight \ {r}} \cup {new}
         /\ \/ ShowAnswer(r) /\ loadState' = "refreshing"
            \/ rows' = Cleared /\ loadState' = GetBlockingLoadState(loadedOnce')
      \/ ~onRoute /\ flight' = flight \ {r} /\ ShowAnswer(r) /\ loadState' = "ready" /\ UNCHANGED sentCount
  BY DEF SucceedElsewhere
<1> HIDE DEF a, q
<1>9. ASSUME ShowAnswer(r) PROVE RowsInv'
  <2>1. /\ rows'.query = a.query /\ rows'.by = r.by /\ rows'.pages = a.pages
        /\ rows'.pages \in 0 .. MaxPage /\ rows'.empty \in BOOLEAN /\ RowsAreAnswer'
    BY <1>1, <1>9, ShownRows DEF a
  <2>0. loadedKey' \in Query => loadedOnce'
    BY <1>1 DEF ListInv, RowsInv, KeysOfLoads
  <2>2. CASE r.by = "edit"
    BY <1>1, <1>3, <1>5, <2>0, <2>1, <2>2 DEF RowsInv, KeysOfLoads, Managed
  <2>3. CASE r.by # "edit"
    <3>1. rows'.query = q
      BY <1>5, <1>6, <1>7, <2>1, <2>3 DEF Query
    <3>2. LoadedKeyOf'
      BY <1>1, <1>3, <1>5, <2>1, <2>3 DEF LoadedKeyOf
    <3> QED
      BY <1>1, <1>3, <1>4, <1>5, <2>0, <2>1, <2>3, <3>1, <3>2 DEF RowsInv, KeysOfLoads, Managed
  <2> QED
    BY <2>2, <2>3
<1>10. PageInv'
  BY <1>1, <1>3 DEF PageInv
<1>11. sentCount \in 0 .. MaxListRequests /\ \A s \in flight : s \in Requests /\ s.id <= sentCount /\ RequestIsOf(s)
  BY DEF ListInv, ListTypes
<1>12. loadedKey' \in Query \cup {NoQuery} /\ query' \in Query /\ onRoute' \in BOOLEAN /\ list' \in ListKind
  BY <1>1, <1>4, <1>6 DEF ListInv, ListTypes
<1>13. CASE onRoute
  <2>1. /\ sentCount < MaxListRequests /\ sentCount' = sentCount + 1
        /\ flight' = {[s EXCEPT !.aborted = @ \/ s.by # "edit"] : s \in flight \ {r}} \cup {new}
        /\ \/ ShowAnswer(r) /\ loadState' = "refreshing"
           \/ rows' = Cleared /\ loadState' = GetBlockingLoadState(loadedOnce')
    BY <1>8, <1>13
  <2>2. sentCount' \in 0 .. MaxListRequests
    BY <1>11, <2>1, ListConstants
  <2>3. new \in Requests /\ new.id = sentCount' /\ new.query = q /\ new.by = "effect"
    BY <1>2, <1>6, <2>1, <2>2, <1>11, ListConstants DEF Requests
  <2> HIDE DEF new
  <2>4. ASSUME NEW s \in flight' PROVE s \in Requests /\ s.id <= sentCount' /\ RequestIsOf(s)'
    <3>1. CASE s = new
      BY <1>1, <1>3, <2>2, <2>3, <3>1 DEF RequestIsOf
    <3>2. CASE s # new
      <4>1. PICK o \in flight : s = [o EXCEPT !.aborted = o.aborted \/ o.by # "edit"]
        BY <2>1, <3>2
      <4> DEFINE off == o.aborted \/ o.by # "edit"
      <4>2. off \in BOOLEAN
        BY Zenon
      <4>3. s = [o EXCEPT !.aborted = off] /\ (o.aborted => off) /\ (off \/ o.by = "edit")
        BY <4>1, Zenon
      <4> HIDE DEF off
      <4>4. s \in Requests /\ s.id = o.id /\ RequestIsOf(s)'
        BY <1>1, <1>11, <4>2, <4>3, AbortOf
      <4> QED
        BY <1>11, <2>1, <4>4 DEF Requests
    <3> QED
      BY <3>1, <3>2
  <2>5. loadState' \in LoadStates /\ (rows' = Cleared => loadState' # "ready" \/ ShowAnswer(r))
    BY <2>1 DEF LoadStates, GetBlockingLoadState
  <2>6. RowsInv'
    <3>1. CASE rows' = Cleared /\ loadState' = GetBlockingLoadState(loadedOnce')
      <4>1. loadedKey' \in Query => loadedOnce'
        BY <1>1 DEF ListInv, RowsInv, KeysOfLoads
      <4> QED
        BY <3>1, <4>1, ClearedRows, ListConstants DEF RowsInv, KeysOfLoads, Managed, GetBlockingLoadState
    <3> QED
      BY <1>9, <2>1, <3>1
  <2>7. ListTypes'
    BY <1>2, <1>12, <2>2, <2>4, <2>5 DEF ListTypes
  <2> QED
    BY <1>10, <2>4, <2>6, <2>7 DEF ListInv
<1>14. CASE ~onRoute
  <2>1. flight' = flight \ {r} /\ ShowAnswer(r) /\ loadState' = "ready" /\ UNCHANGED sentCount
    BY <1>8, <1>14
  <2>2. ASSUME NEW s \in flight' PROVE s \in Requests /\ s.id <= sentCount' /\ RequestIsOf(s)'
    <3>1. s \in Requests /\ s.id <= sentCount /\ RequestIsOf(s)
      BY <1>11, <2>1
    <3> QED
      BY <1>1, <1>3, <1>6, <2>1, <3>1 DEF RequestIsOf
  <2>3. ListTypes'
    BY <1>2, <1>11, <1>12, <2>1, <2>2 DEF ListTypes, LoadStates
  <2> QED
    BY <1>9, <1>10, <2>1, <2>2, <2>3 DEF ListInv
<1> QED
  BY <1>13, <1>14

LEMMA EditAnsweredInv == ASSUME ListInv, NEW r \in flight, EditAnswered(r) PROVE ListInv'
<1>1. /\ r.by = "edit" /\ ShowAnswer(r) /\ flight' = flight \ {r}
      /\ UNCHANGED <<list, onRoute, query, loadState, loadedOnce, loadedKey, sentCount>>
  BY DEF EditAnswered
<1>2. /\ flight' \subseteq Requests /\ (\A s \in flight' : s.id <= sentCount' /\ RequestIsOf(s)') /\ PageInv'
  BY <1>1, FlightLess
<1>3. RowsInv'
  <2>1. rows'.query \in Query
    BY <1>1, ShownRows, AnswerFacts
  <2> QED
    BY <1>1, <2>1, ShownRows DEF ListInv, RowsInv, KeysOfLoads, Managed, RequestIsOf
<1> QED
  BY <1>1, <1>2, <1>3 DEF ListInv, ListTypes

LEMMA FailureInv ==
    ASSUME ListInv, NEW r \in flight, Fail(r) \/ TokensFail(r) \/ SettleAborted(r)
    PROVE  ListInv'
<1>1. flight' = flight \ {r} /\ UNCHANGED <<list, onRoute, query, sentCount>>
  BY DEF Fail, TokensFail, SettleAborted
<1>2. /\ flight' \subseteq Requests /\ (\A s \in flight' : s.id <= sentCount' /\ RequestIsOf(s)') /\ PageInv'
  BY <1>1, FlightLess
<1>3. CASE SettleAborted(r)
  BY <1>1, <1>2, <1>3 DEF SettleAborted, ListInv, ListTypes, RowsInv, RowsAreAnswer, KeysOfLoads, LoadedKeyOf,
                          RefreshedForAllKinds, RefreshedBehindKey, NoKinds
<1>4. CASE Fail(r)
  <2>1. /\ \/ rows' = rows /\ loadState' \in {loadState, "error"}
           \/ rows' = Cleared /\ loadState' = "error"
        /\ UNCHANGED <<loadedOnce, loadedKey>>
    BY <1>4 DEF Fail
  <2>2. ListTypes'
    BY <1>1, <1>2, <2>1 DEF ListInv, ListTypes, LoadStates
  <2>3. RowsInv'
    <3>1. CASE rows' = rows
      BY <1>1, <2>1, <3>1 DEF ListInv, RowsInv, RowsAreAnswer, KeysOfLoads, LoadedKeyOf,
                              RefreshedForAllKinds, RefreshedBehindKey, NoKinds
    <3>2. CASE rows' = Cleared /\ loadState' = "error"
      BY <2>1, <3>2, ClearedRows, ListConstants DEF ListInv, RowsInv, KeysOfLoads, Managed
    <3> QED
      BY <2>1, <3>1, <3>2
  <2> QED
    BY <1>2, <2>2, <2>3 DEF ListInv
<1>5. CASE TokensFail(r)
  <2>1. /\ list = "tokens" /\ rows' = Cleared
        /\ loadState' = "ready" /\ loadedOnce' = TRUE /\ loadedKey' = r.query
    BY <1>5 DEF TokensFail
  <2>2. r.query \in Query /\ loadedOnce' \in BOOLEAN
    <3>1. TRUE \in BOOLEAN
      BY Zenon
    <3> QED
      BY <2>1, <3>1 DEF ListInv, ListTypes, Requests
  <2>3. ListTypes'
    BY <1>1, <1>2, <2>1, <2>2 DEF ListInv, ListTypes, LoadStates
  <2>5. RowsInv'
    BY <1>1, <2>1, <2>2, ClearedRows, ListConstants DEF RowsInv, KeysOfLoads, Managed
  <2> QED
    BY <1>2, <2>3, <2>5 DEF ListInv
<1> QED
  BY <1>3, <1>4, <1>5

LEMMA ListStepInv == ListInv /\ [ListNext]_listVars => ListInv'
<1> SUFFICES ASSUME ListInv, [ListNext]_listVars PROVE ListInv'
  OBVIOUS
<1>1. CASE UNCHANGED listVars
  BY <1>1 DEF listVars, ListInv, ListTypes, RequestIsOf, AllKinds, RowsInv, RowsAreAnswer, KeysOfLoads,
              LoadedKeyOf, RefreshedForAllKinds, RefreshedBehindKey, NoKinds, PageInv
<1>2. ASSUME NEW r \in flight, Settle(r) PROVE ListInv'
  BY <1>2, SucceedInv, EditAnsweredInv, SucceedElsewhereInv, FailureInv DEF Settle
<1> QED
  BY <1>1, <1>2, ArriveInv, GoPageInv, ChangeFilterInv, LeaveInv, RefreshesInv, EditRefreshInv DEF ListNext

------------------------------------------------------------------------------
(* The drawer of the broken keys.                                             *)

\* Induction up to a bound, on a set instead of a formula.
LEMMA StepsUpTo ==
    ASSUME NEW n \in Nat, NEW T \in SUBSET Nat, 0 \in T, \A i \in T : i < n => i + 1 \in T
    PROVE  0 .. n \subseteq T
<1> DEFINE U == {i \in 0 .. n : i \notin T}
<1> SUFFICES ASSUME U # {} PROVE FALSE
  OBVIOUS
<1>1. U \in SUBSET Nat
  OBVIOUS
<1>2. PICK x \in U : \A y \in U : ~(<<y, x>> \in OpToRel(<, Nat))
  <2> HIDE DEF U
  <2> QED
    BY <1>1, NatLessThanWellFounded, WFMin, Zenon
<1>3. x \in 0 .. n /\ x \notin T /\ \A y \in U : ~(y < x)
  BY <1>1, <1>2 DEF OpToRel
<1>4. x - 1 \in 0 .. n /\ x - 1 < n /\ (x - 1) + 1 = x /\ x - 1 < x
  BY <1>3
<1>5. x - 1 \in T
  BY <1>3, <1>4
<1> QED
  BY <1>3, <1>4, <1>5

\* Joined satisfies its recursive definition: a solution up to i is one up to i + 1.
JoinsUpTo(pages, i, g) == g = [j \in 0 .. i |-> IF j = 0 THEN <<>> ELSE g[j - 1] \o pages[j]]
LEMMA JoinedDefined ==
    ASSUME NEW pages, NEW n \in Nat
    PROVE  JoinsUpTo(pages, n, Joined(pages, n))
<1> DEFINE T == {i \in Nat : \E g : JoinsUpTo(pages, i, g)}
<1>1. 0 \in T
  <2> DEFINE g == [j \in 0 .. 0 |-> <<>>]
  <2>1. g = [j \in 0 .. 0 |-> IF j = 0 THEN <<>> ELSE g[j - 1] \o pages[j]]
    OBVIOUS
  <2>2. JoinsUpTo(pages, 0, g)
    BY <2>1 DEF JoinsUpTo
  <2> QED
    BY <2>2
<1>2. ASSUME NEW i \in T PROVE i + 1 \in T
  <2>1. PICK g : JoinsUpTo(pages, i, g)
    OBVIOUS
  <2> DEFINE h == [j \in 0 .. i + 1 |-> IF j = 0 THEN <<>> ELSE g[j - 1] \o pages[j]]
  <2>2. i \in Nat
    OBVIOUS
  <2>3. ASSUME NEW j \in 0 .. i PROVE h[j] = g[j]
    BY <2>1, <2>2 DEF JoinsUpTo
  <2>4. ASSUME NEW j \in 0 .. i + 1, j # 0 PROVE h[j] = h[j - 1] \o pages[j]
    <3>1. j - 1 \in 0 .. i
      BY <2>2, <2>4
    <3>2. h[j] = g[j - 1] \o pages[j]
      BY <2>4
    <3> QED
      BY <2>3, <3>1, <3>2
  <2>5. h[0] = <<>> /\ h = [j \in 0 .. i + 1 |-> h[j]]
    BY <2>2
  <2> HIDE DEF h
  <2>6. h = [j \in 0 .. i + 1 |-> IF j = 0 THEN <<>> ELSE h[j - 1] \o pages[j]]
    BY <2>4, <2>5
  <2>7. JoinsUpTo(pages, i + 1, h)
    BY <2>6 DEF JoinsUpTo
  <2> QED
    BY <2>2, <2>7
<1>3. n \in T
  <2>1. T \in SUBSET Nat
    OBVIOUS
  <2> HIDE DEF T
  <2>2. 0 .. n \subseteq T
    BY <1>1, <1>2, <2>1, StepsUpTo
  <2> QED
    BY <2>2
<1>4. \E g : JoinsUpTo(pages, n, g)
  BY <1>3
<1>5. Joined(pages, n) = CHOOSE g : JoinsUpTo(pages, n, g)
  BY DEF Joined, JoinsUpTo
<1> QED
  BY <1>4, <1>5

LEMMA JoinedSteps ==
    ASSUME NEW pages, NEW n \in Nat
    PROVE  /\ Joined(pages, n)[0] = <<>>
           /\ \A i \in 1 .. n : Joined(pages, n)[i] = Joined(pages, n)[i - 1] \o pages[i]
<1> DEFINE g == Joined(pages, n)
<1>1. g = [j \in 0 .. n |-> IF j = 0 THEN <<>> ELSE g[j - 1] \o pages[j]]
  BY JoinedDefined DEF JoinsUpTo
<1> HIDE DEF g
<1>2. g[0] = <<>> /\ \A i \in 1 .. n : g[i] = g[i - 1] \o pages[i]
  BY <1>1
<1> QED
  BY <1>2 DEF g

\* Pages of one subject join to a list of it.
LEMMA AllItemsOf ==
    ASSUME NEW S, NEW n \in Nat, NEW total \in Nat, NEW pages, \A i \in 1 .. n : pages[i] \in Seq(S)
    PROVE  AllItems(pages, n, total) \in Seq(S)
<1> DEFINE g == Joined(pages, n)
           T == {i \in Nat : i <= n => g[i] \in Seq(S)}
<1>1. g[0] = <<>> /\ \A i \in 1 .. n : g[i] = g[i - 1] \o pages[i]
  BY JoinedSteps
<1> HIDE DEF g
<1>2. 0 \in T
  BY <1>1, EmptySeq
<1>3. ASSUME NEW i \in T, i < n PROVE i + 1 \in T
  <2>0. i + 1 \in 1 .. n /\ (i + 1) - 1 = i /\ g[i] \in Seq(S) /\ i + 1 \in Nat
    BY <1>3
  <2>1. g[i + 1] = g[i] \o pages[i + 1]
    BY <1>1, <2>0
  <2>2. g[i + 1] \in Seq(S)
    BY <2>0, <2>1, ConcatProperties
  <2> QED
    BY <2>0, <2>2
<1>4. g[n] \in Seq(S)
  <2>1. T \in SUBSET Nat /\ (n \in T => g[n] \in Seq(S))
    OBVIOUS
  <2> HIDE DEF T
  <2>2. 0 .. n \subseteq T
    BY <1>2, <1>3, <2>1, StepsUpTo
  <2> QED
    BY <2>1, <2>2
<1>5. Len(g[n]) \in Nat /\ \A i \in 1 .. Len(g[n]) : g[n][i] \in S
  BY <1>4, LenProperties, ElementOfSeq
<1> DEFINE last == IF Len(g[n]) < total THEN Len(g[n]) ELSE total
<1>6. last \in Int /\ last <= Len(g[n])
  BY <1>5
<1>7. AllItems(pages, n, total) = SubSeq(g[n], 1, last)
  BY DEF AllItems, g
<1> HIDE DEF last
<1> QED
  BY <1>5, <1>6, <1>7, SubSeqProperties

\* The pages a total promises cover it, and the last of them is needed.
LEMMA DivBounds ==
    ASSUME NEW a \in Nat, NEW b \in Nat \ {0}
    PROVE  a \div b \in Nat /\ (a \div b) * b <= a /\ a < (a \div b) * b + b
<1>1. a \div b \in Int /\ a % b \in 0 .. b - 1 /\ a = b * (a \div b) + (a % b)
  BY SMT
<1>2. ~(a \div b < 0)
  <2> SUFFICES ASSUME a \div b < 0 PROVE FALSE
    OBVIOUS
  <2>1. b * (a \div b) <= -b
    BY <1>1
  <2> QED
    BY <1>1, <2>1
<1> QED
  BY <1>1, <1>2

LEMMA TimesMonotone ==
    ASSUME NEW a \in Nat, NEW b \in Nat, NEW c \in Nat, a <= b
    PROVE  a * c \in Nat /\ b * c \in Nat /\ a * c <= b * c
<1>1. PICK d \in Nat : b = a + d
  <2>1. b - a \in Nat /\ b = a + (b - a)
    OBVIOUS
  <2> QED
    BY <2>1
<1>2. d * c \in Nat /\ a * c \in Nat /\ (a + d) * c = a * c + d * c
  OBVIOUS
<1> QED
  BY <1>1, <1>2

LEMMA PagesCoverTotal ==
    ASSUME NEW total \in Nat, total # 0
    PROVE  /\ TotalPages(total) \in 1 .. total
           /\ total <= TotalPages(total) * BrokenPageSize
           /\ (TotalPages(total) - 1) * BrokenPageSize < total
<1> DEFINE n == (total + BrokenPageSize - 1) \div BrokenPageSize
<1>0. BrokenPageSize \in Nat \ {0} /\ total + BrokenPageSize - 1 \in Nat
  BY BrokenKeysConstants
<1>1. n \in Nat /\ n * BrokenPageSize <= total + BrokenPageSize - 1
      /\ total + BrokenPageSize - 1 < n * BrokenPageSize + BrokenPageSize
  BY <1>0, DivBounds
<1>2. TotalPages(total) = n
  BY DEF TotalPages
<1> HIDE DEF n
<1>3. n * BrokenPageSize \in Nat /\ (n - 1) * BrokenPageSize = n * BrokenPageSize - BrokenPageSize
  BY <1>0, <1>1
<1>4. total <= n * BrokenPageSize /\ (n - 1) * BrokenPageSize < total
  BY <1>0, <1>1, <1>3
<1>5. n # 0
  BY <1>0, <1>4
<1>6. n <= total
  <2>1. n - 1 \in Nat /\ n - 1 <= (n - 1) * BrokenPageSize
    BY <1>0, <1>1, <1>5
  <2>2. (n - 1) * BrokenPageSize \in Int
    BY <1>0, <2>1
  <2>3. n - 1 < total
    BY <1>4, <2>1, <2>2
  <2> QED
    BY <1>1, <2>3
<1> QED
  BY <1>1, <1>2, <1>4, <1>5, <1>6

\* The list of a subject, and a page of it.
EntryOf(s) == {s} \X Int
LEMMA WholeListOf ==
    ASSUME NEW s \in BrokenSubject, brokenOnServer[s] \in Nat
    PROVE  WholeList(s) \in Seq(EntryOf(s)) /\ Len(WholeList(s)) = brokenOnServer[s]
<1> DEFINE N == brokenOnServer[s]
<1>1. \A i \in 1 .. N : <<s, N + 1 - i>> \in EntryOf(s)
  BY DEF EntryOf
<1>2. WholeList(s) = [i \in 1 .. N |-> <<s, N + 1 - i>>]
  BY DEF WholeList
<1> HIDE DEF N
<1>3. N \in Nat
  BY DEF N
<1>4. WholeList(s) \in Seq(EntryOf(s))
  <2>1. WholeList(s) \in [1 .. N -> EntryOf(s)]
    BY <1>1, <1>2
  <2> QED
    BY <1>3, <2>1, SeqDef
<1>5. DOMAIN WholeList(s) = 1 .. N
  BY <1>2
<1>6. Len(WholeList(s)) = N
  BY <1>3, <1>4, <1>5, LenProperties
<1> QED
  BY <1>4, <1>6 DEF N

\* The last entry of the first i pages of a list of n.
EndOfPage(i, n) == IF i * BrokenPageSize > n THEN n ELSE i * BrokenPageSize
LEMMA EndOfPageIn ==
    ASSUME NEW i \in Nat, NEW n \in Nat
    PROVE  EndOfPage(i, n) \in 0 .. n /\ i * BrokenPageSize \in Nat
  BY BrokenKeysConstants DEF EndOfPage

LEMMA PageOfList ==
    ASSUME NEW s \in BrokenSubject, brokenOnServer[s] \in Nat, NEW p \in Nat \ {0}
    PROVE  /\ ServerPage(s, p) = SubSeq(WholeList(s), (p - 1) * BrokenPageSize + 1, EndOfPage(p, brokenOnServer[s]))
           /\ ServerPage(s, p) \in Seq(EntryOf(s))
           /\ p = 1 => Len(ServerPage(s, p)) <= brokenOnServer[s]
<1> DEFINE from == (p - 1) * BrokenPageSize + 1
           to == EndOfPage(p, brokenOnServer[s])
<1>1. ServerPage(s, p) = SubSeq(WholeList(s), from, to)
  BY DEF ServerPage, EndOfPage
<1>2. p - 1 \in Nat /\ (p - 1) * BrokenPageSize \in Nat
  BY BrokenKeysConstants
<1>3. from \in Int /\ from >= 1 /\ to \in 0 .. brokenOnServer[s] /\ (p = 1 => from = 1)
  BY <1>2, EndOfPageIn, BrokenKeysConstants
<1>4. WholeList(s) \in Seq(EntryOf(s)) /\ Len(WholeList(s)) = brokenOnServer[s]
  BY WholeListOf
<1> HIDE DEF from, to
<1>5. \A i \in from .. to : WholeList(s)[i] \in EntryOf(s)
  BY <1>3, <1>4, ElementOfSeq
<1>6. /\ SubSeq(WholeList(s), from, to) \in Seq(EntryOf(s))
      /\ Len(SubSeq(WholeList(s), from, to)) = IF from <= to THEN to - from + 1 ELSE 0
  BY <1>3, <1>5, SubSeqProperties
<1>7. p = 1 => Len(ServerPage(s, p)) <= brokenOnServer[s]
  BY <1>1, <1>3, <1>6
<1> QED
  BY <1>1, <1>6, <1>7 DEF from, to

\* All the pages of a list that nobody changed join to the list.
LEMMA PagesJoinToList ==
    ASSUME NEW s \in BrokenSubject, brokenOnServer[s] \in Nat, NEW pages,
           \A i \in 1 .. TotalPages(brokenOnServer[s]) : pages[i] = ServerPage(s, i)
    PROVE  AllItems(pages, TotalPages(brokenOnServer[s]), brokenOnServer[s]) = WholeList(s)
<1> DEFINE N == brokenOnServer[s]
           W == WholeList(s)
           n == TotalPages(N)
           g == Joined(pages, n)
           T == {i \in Nat : i <= n => g[i] = SubSeq(W, 1, EndOfPage(i, N))}
<1>1. N \in Nat /\ W \in Seq(EntryOf(s)) /\ Len(W) = N
  BY WholeListOf
<1>2. /\ n \in Nat \ {0} /\ EndOfPage(n, N) = N
      /\ \A i \in 0 .. n - 1 : EndOfPage(i, N) = i * BrokenPageSize
  <2>1. CASE N = 0
    <3>1. n = 1
      BY <2>1 DEF TotalPages
    <3>2. EndOfPage(1, N) = N /\ EndOfPage(0, N) = 0 * BrokenPageSize
      BY <2>1, BrokenKeysConstants DEF EndOfPage
    <3> QED
      BY <3>1, <3>2
  <2>2. CASE N # 0
    <3>1. n \in 1 .. N /\ N <= n * BrokenPageSize /\ (n - 1) * BrokenPageSize < N
      BY <1>1, <2>2, PagesCoverTotal
    <3> HIDE DEF n
    <3>2. EndOfPage(n, N) = N
      BY <1>1, <3>1, BrokenKeysConstants DEF EndOfPage
    <3>3. ASSUME NEW i \in 0 .. n - 1 PROVE EndOfPage(i, N) = i * BrokenPageSize
      <4>1. i \in Nat /\ n - 1 \in Nat /\ i <= n - 1 /\ BrokenPageSize \in Nat
        BY <1>1, <3>1, BrokenKeysConstants
      <4>2. /\ i * BrokenPageSize \in Nat /\ (n - 1) * BrokenPageSize \in Nat
            /\ i * BrokenPageSize <= (n - 1) * BrokenPageSize
        BY <4>1, TimesMonotone
      <4> QED
        BY <1>1, <3>1, <4>2 DEF EndOfPage
    <3> QED
      BY <1>1, <3>1, <3>2, <3>3
  <2> QED
    BY <2>1, <2>2
<1>3. \A i \in 1 .. n : pages[i] = ServerPage(s, i)
  OBVIOUS
<1> HIDE DEF n
<1>4. g[0] = <<>> /\ \A i \in 1 .. n : g[i] = g[i - 1] \o pages[i]
  BY <1>2, JoinedSteps
<1>5. AllItems(pages, n, N) = SubSeq(g[n], 1, IF Len(g[n]) < N THEN Len(g[n]) ELSE N)
  BY DEF AllItems
<1> HIDE DEF g, W, N
<1>6. 0 \in T
  <2>1. EndOfPage(0, N) = 0
    <3>1. EndOfPage(0, N) = 0 * BrokenPageSize
      BY <1>2
    <3> QED
      BY <3>1, BrokenKeysConstants
  <2>2. SubSeq(W, 1, 0) = <<>>
    BY SubSeqEmpty
  <2>3. g[0] = SubSeq(W, 1, EndOfPage(0, N))
    BY <1>4, <2>1, <2>2
  <2> QED
    BY <2>3
<1>7. ASSUME NEW i \in T, i < n PROVE i + 1 \in T
  <2>1. i \in Nat /\ i + 1 \in 1 .. n /\ (i + 1) - 1 = i /\ i \in 0 .. n - 1 /\ i + 1 \in Nat \ {0}
    BY <1>2, <1>7
  <2>2. g[i] = SubSeq(W, 1, i * BrokenPageSize)
    <3>1. g[i] = SubSeq(W, 1, EndOfPage(i, N))
      BY <1>2, <1>7, <2>1
    <3> QED
      BY <1>2, <2>1, <3>1
  <2>3. g[i + 1] = g[i] \o ServerPage(s, i + 1)
    BY <1>3, <1>4, <2>1
  <2>4. ServerPage(s, i + 1) = SubSeq(W, i * BrokenPageSize + 1, EndOfPage(i + 1, N))
    <3>1. ServerPage(s, i + 1) = SubSeq(W, ((i + 1) - 1) * BrokenPageSize + 1, EndOfPage(i + 1, N))
      BY <1>1, <2>1, PageOfList DEF N, W
    <3> QED
      BY <2>1, <3>1
  <2>5. /\ i * BrokenPageSize \in 0 .. N
        /\ EndOfPage(i + 1, N) \in i * BrokenPageSize .. N
    <3>1. EndOfPage(i, N) \in 0 .. N /\ EndOfPage(i, N) = i * BrokenPageSize
      BY <1>1, <1>2, <2>1, EndOfPageIn
    <3>2. (i + 1) * BrokenPageSize = i * BrokenPageSize + BrokenPageSize
      BY <2>1, BrokenKeysConstants
    <3>3. EndOfPage(i + 1, N) \in 0 .. N
      BY <1>1, <2>1, EndOfPageIn
    <3>4. EndOfPage(i + 1, N) >= i * BrokenPageSize
      <4> DEFINE a == i * BrokenPageSize
                 b == (i + 1) * BrokenPageSize
      <4>1. a \in 0 .. N /\ b = a + BrokenPageSize
        BY <3>1, <3>2
      <4>2. EndOfPage(i + 1, N) = IF b > N THEN N ELSE b
        BY DEF EndOfPage
      <4> HIDE DEF a, b
      <4>3. EndOfPage(i + 1, N) >= a
        BY <1>1, <4>1, <4>2, BrokenKeysConstants
      <4> QED
        BY <4>3 DEF a
    <3> QED
      BY <1>1, <3>1, <3>3, <3>4
  <2>6. g[i + 1] = SubSeq(W, 1, EndOfPage(i + 1, N))
    <3> DEFINE k == i * BrokenPageSize
               e == EndOfPage(i + 1, N)
    <3>1. 1 \in 1 .. Len(W) + 1 /\ k \in 1 - 1 .. Len(W) /\ e \in k .. Len(W)
      BY <1>1, <2>5
    <3>2. g[i + 1] = SubSeq(W, 1, k) \o SubSeq(W, k + 1, e)
      BY <2>2, <2>3, <2>4
    <3> HIDE DEF k, e
    <3>3. SubSeq(W, 1, k) \o SubSeq(W, k + 1, e) = SubSeq(W, 1, e)
      BY <1>1, <3>1, ConcatAdjacentSubSeq
    <3> QED
      BY <3>2, <3>3 DEF e
  <2> QED
    BY <2>1, <2>6
<1>8. g[n] = W
  <2>1. T \in SUBSET Nat /\ (n \in T => g[n] = SubSeq(W, 1, EndOfPage(n, N)))
    BY <1>2
  <2> HIDE DEF T
  <2>2. 0 .. n \subseteq T
    BY <1>2, <1>6, <1>7, <2>1, StepsUpTo
  <2>3. g[n] = SubSeq(W, 1, Len(W))
    BY <1>1, <1>2, <2>1, <2>2
  <2> QED
    BY <1>1, <2>3, SubSeqFull
<1>9. AllItems(pages, n, N) = W
  <2>1. AllItems(pages, n, N) = SubSeq(W, 1, Len(W))
    BY <1>1, <1>5, <1>8
  <2> QED
    BY <1>1, <2>1, SubSeqFull
<1> QED
  BY <1>9 DEF n, N, W

\* A load is idle, waits for its first page, or waits for the others its total promises: the pages
\* are of the drawer's subject and, while no key breaks, those of its list.
BrokenTypes ==
    /\ brokenOnServer \in [BrokenSubject -> 0 .. MaxBroken]
    /\ brokenPage \in {"subjects", "module"} /\ brokenDrawer \in BrokenSubject \cup {NoSubject}
    /\ brokenState \in {"initial_loading", "ready", "error"}
FirstPageAsked(load) ==
    brokenDrawer \in BrokenSubject /\ load = [asked |-> {1}, total |-> 0, pages |-> <<>>]
OtherPagesAsked(load) ==
    /\ brokenDrawer \in BrokenSubject
    /\ load \in [asked : SUBSET (2 .. TotalPages(load.total)), total : 1 .. MaxBroken,
                 pages : [1 .. TotalPages(load.total) -> Seq(EntryOf(brokenDrawer))]]
    /\ TotalPages(load.total) >= 2 /\ load.asked # {}
    /\ ~brokenChanged.now =>
         /\ load.total = brokenOnServer[brokenDrawer]
         /\ \A i \in (1 .. TotalPages(load.total)) \ load.asked : load.pages[i] = ServerPage(brokenDrawer, i)
LoadInv ==
    \/ brokenLoad = IdleLoad
    \/ brokenState = "initial_loading" /\ FirstPageAsked(brokenLoad)
    \/ brokenState = "initial_loading" /\ OtherPagesAsked(brokenLoad)
ShownInv ==
    brokenState = "ready" =>
        /\ brokenDrawer \in BrokenSubject /\ brokenItems \in Seq(EntryOf(brokenDrawer))
        /\ ~brokenChanged.now => brokenItems = WholeList(brokenDrawer)
BrokenInv == BrokenTypes /\ LoadInv /\ ShownInv

LEMMA BrokenInitInv == BrokenInit => BrokenInv
  BY DEF BrokenInit, BrokenInv, BrokenTypes, LoadInv, ShownInv

\* A complete load shows items of the drawer's subject, and its whole list if no key broke.
LEMMA ShowItemsInv ==
    ASSUME BrokenTypes, brokenDrawer \in BrokenSubject, NEW pages, NEW n \in Nat, NEW total \in Nat,
           \A i \in 1 .. n : pages[i] \in Seq(EntryOf(brokenDrawer)),
           ~brokenChanged.now =>
             /\ total = brokenOnServer[brokenDrawer] /\ n = TotalPages(total)
             /\ \A i \in 1 .. n : pages[i] = ServerPage(brokenDrawer, i),
           ShowItems(pages, n, total)
    PROVE  BrokenInv'
<1>1. brokenItems' \in Seq(EntryOf(brokenDrawer))
  BY AllItemsOf DEF ShowItems
<1>2. ~brokenChanged.now => brokenItems' = WholeList(brokenDrawer)
  BY PagesJoinToList DEF ShowItems, BrokenTypes
<1>3. ShownInv'
  BY <1>1, <1>2 DEF ShowItems, ShownInv, WholeList
<1>4. BrokenTypes' /\ LoadInv'
  BY DEF ShowItems, BrokenTypes, LoadInv, IdleLoad
<1> QED
  BY <1>3, <1>4 DEF BrokenInv

LEMMA FirstPageInv ==
    ASSUME BrokenInv, FirstBrokenPageAnswered PROVE BrokenInv'
<1> DEFINE first == ServerPage(brokenDrawer, 1)
           N == brokenOnServer[brokenDrawer]
           total == ClampTotal(N, Len(first))
           n == TotalPages(total)
<1>1. FirstPageAsked(brokenLoad) /\ brokenState = "initial_loading"
  <2>1. brokenLoad.asked = {1} /\ LoadInv
    BY DEF FirstBrokenPageAnswered, BrokenInv
  <2>2. brokenLoad # IdleLoad
    <3>1. IdleLoad.asked = {} /\ 1 \in brokenLoad.asked
      BY <2>1 DEF IdleLoad
    <3> QED
      BY <3>1
  <2>3. ~OtherPagesAsked(brokenLoad)
    <3> SUFFICES ASSUME OtherPagesAsked(brokenLoad) PROVE FALSE
      OBVIOUS
    <3>1. brokenLoad.asked \subseteq 2 .. TotalPages(brokenLoad.total)
      BY DEF OtherPagesAsked
    <3>2. 1 \in 2 .. TotalPages(brokenLoad.total)
      BY <2>1, <3>1
    <3>3. \A k : 1 \notin 2 .. k
      OBVIOUS
    <3> QED
      BY <3>2, <3>3
  <2> QED
    BY <2>1, <2>2, <2>3 DEF LoadInv
<1>2. brokenDrawer \in BrokenSubject /\ BrokenTypes /\ N \in 0 .. MaxBroken /\ N \in Nat
  BY <1>1, BrokenKeysConstants DEF FirstPageAsked, BrokenInv, BrokenTypes
<1>3. first \in Seq(EntryOf(brokenDrawer)) /\ Len(first) <= N
  BY <1>2, PageOfList
<1>4. total = N
  <2>1. Len(first) \in Nat
    BY <1>3, LenProperties
  <2> HIDE DEF first, N
  <2> QED
    BY <1>2, <1>3, <2>1 DEF ClampTotal
<1>5. n = TotalPages(N) /\ n \in Nat \ {0} /\ (n # 1 => N \in 1 .. MaxBroken /\ n >= 2)
  <2>1. N = 0 => TotalPages(N) = 1
    BY DEF TotalPages
  <2>2. N # 0 => TotalPages(N) \in 1 .. N
    BY <1>2, PagesCoverTotal
  <2> HIDE DEF total, N
  <2> QED
    BY <1>2, <1>4, <2>1, <2>2
<1>6. IF n = 1 THEN ShowItems([i \in {1} |-> first], 1, total)
      ELSE /\ brokenLoad' = [asked |-> 2 .. n, total |-> total, pages |-> [i \in 1 .. n |-> IF i = 1 THEN first ELSE <<>>]]
           /\ UNCHANGED <<brokenOnServer, brokenPage, brokenDrawer, brokenItems, brokenState, brokenChanged>>
  BY DEF FirstBrokenPageAnswered
<1>7. first = ServerPage(brokenDrawer, 1)
  OBVIOUS
<1> HIDE DEF first, n, total
<1>8. CASE n = 1
  <2>1. ShowItems([i \in {1} |-> first], 1, N)
    BY <1>4, <1>6, <1>8
  <2>2. /\ \A i \in 1 .. 1 : [k \in {1} |-> first][i] \in Seq(EntryOf(brokenDrawer))
        /\ \A i \in 1 .. 1 : [k \in {1} |-> first][i] = ServerPage(brokenDrawer, i)
    BY <1>3, <1>7
  <2>3. 1 = TotalPages(N)
    BY <1>5, <1>8
  <2> HIDE DEF N
  <2>4. N = brokenOnServer[brokenDrawer]
    BY DEF N
  <2> QED
    BY <1>2, <2>1, <2>2, <2>3, <2>4, ShowItemsInv
<1>9. CASE n # 1
  <2> DEFINE pages == [i \in 1 .. n |-> IF i = 1 THEN first ELSE <<>>]
  <2>1. /\ brokenLoad' = [asked |-> 2 .. n, total |-> N, pages |-> pages]
        /\ UNCHANGED <<brokenOnServer, brokenPage, brokenDrawer, brokenItems, brokenState, brokenChanged>>
    BY <1>4, <1>6, <1>9
  <2>2. pages \in [1 .. n -> Seq(EntryOf(brokenDrawer))]
    BY <1>3, EmptySeq
  <2>3. \A i \in (1 .. n) \ (2 .. n) : pages[i] = ServerPage(brokenDrawer, i)
    BY <1>5, <1>7
  <2>4. 2 .. n # {} /\ N \in 1 .. MaxBroken /\ n >= 2
    BY <1>5, <1>9
  <2> HIDE DEF pages
  <2>5. OtherPagesAsked(brokenLoad)'
    <3>1. brokenLoad'.total = N /\ brokenLoad'.asked = 2 .. n /\ brokenLoad'.pages = pages
      BY <2>1
    <3>2. TotalPages(brokenLoad'.total) = n
      BY <1>5, <3>1
    <3>3. brokenLoad' \in [asked : SUBSET (2 .. n), total : 1 .. MaxBroken,
                           pages : [1 .. n -> Seq(EntryOf(brokenDrawer))]]
      BY <2>1, <2>2, <2>4
    <3>4. \A i \in (1 .. n) \ (2 .. n) : pages[i] = ServerPage(brokenDrawer, i)'
      BY <2>1, <2>3 DEF ServerPage, WholeList
    <3>5. (brokenOnServer[brokenDrawer])' = N /\ brokenDrawer' = brokenDrawer
      BY <2>1
    <3> HIDE DEF N
    <3> QED
      BY <1>2, <2>4, <3>1, <3>2, <3>3, <3>4, <3>5 DEF OtherPagesAsked
  <2>6. BrokenTypes' /\ ShownInv' /\ brokenState' = "initial_loading"
    BY <1>1, <1>2, <2>1 DEF BrokenTypes, ShownInv
  <2> QED
    BY <2>5, <2>6 DEF BrokenInv, LoadInv
<1> QED
  BY <1>8, <1>9

LEMMA OtherPageInv ==
    ASSUME BrokenInv, NEW p, PageAnswered(p) PROVE BrokenInv'
<1> DEFINE n == TotalPages(brokenLoad.total)
           answer == ServerPage(brokenDrawer, p)
           pages == [brokenLoad.pages EXCEPT ![p] = answer]
<1>1. OtherPagesAsked(brokenLoad) /\ brokenState = "initial_loading"
  BY DEF PageAnswered, BrokenInv, LoadInv, IdleLoad, FirstPageAsked
<1>2. /\ brokenDrawer \in BrokenSubject /\ BrokenTypes /\ brokenOnServer[brokenDrawer] \in Nat
      /\ brokenLoad.total \in 1 .. MaxBroken /\ brokenLoad.asked \subseteq 2 .. n /\ p \in brokenLoad.asked
      /\ brokenLoad.pages \in [1 .. n -> Seq(EntryOf(brokenDrawer))] /\ n >= 2
  BY <1>1, BrokenKeysConstants DEF OtherPagesAsked, BrokenInv, BrokenTypes, PageAnswered
<1>3. n \in Nat /\ brokenLoad.total \in Nat
  <2>1. brokenLoad.total \in Nat /\ brokenLoad.total # 0
    BY <1>2, BrokenKeysConstants
  <2>2. TotalPages(brokenLoad.total) \in 1 .. brokenLoad.total
    BY <2>1, PagesCoverTotal
  <2> QED
    BY <2>1, <2>2
<1>4. answer \in Seq(EntryOf(brokenDrawer))
  <2>1. p \in Nat \ {0}
    BY <1>2, <1>3
  <2> QED
    BY <1>2, <2>1, PageOfList
<1>5. IF brokenLoad.asked = {p} THEN ShowItems(pages, Len(pages), brokenLoad.total)
      ELSE /\ brokenLoad' = [brokenLoad EXCEPT !.asked = @ \ {p}, !.pages = pages]
           /\ UNCHANGED <<brokenOnServer, brokenPage, brokenDrawer, brokenItems, brokenState, brokenChanged>>
  BY DEF PageAnswered
<1>6. answer = ServerPage(brokenDrawer, p)
  OBVIOUS
<1>7. ~brokenChanged.now =>
         /\ brokenLoad.total = brokenOnServer[brokenDrawer]
         /\ \A i \in (1 .. n) \ brokenLoad.asked : brokenLoad.pages[i] = ServerPage(brokenDrawer, i)
  BY <1>1 DEF OtherPagesAsked
<1>8. n = TotalPages(brokenLoad.total)
  OBVIOUS
<1> HIDE DEF answer, n
<1>9. /\ pages \in [1 .. n -> Seq(EntryOf(brokenDrawer))]
      /\ \A i \in 1 .. n : pages[i] = IF i = p THEN answer ELSE brokenLoad.pages[i]
  BY <1>2, <1>4
<1> HIDE DEF pages
<1>10. Len(pages) = n
  <2>1. pages \in Seq(Seq(EntryOf(brokenDrawer)))
    BY <1>3, <1>9, SeqDef
  <2>2. DOMAIN pages = 1 .. n /\ DOMAIN pages = 1 .. Len(pages) /\ Len(pages) \in Nat
    BY <1>9, <2>1, LenProperties
  <2> QED
    BY <1>3, <2>2
<1>11. CASE brokenLoad.asked = {p}
  <2>1. ShowItems(pages, n, brokenLoad.total)
    BY <1>5, <1>10, <1>11
  <2>2. \A i \in 1 .. n : pages[i] \in Seq(EntryOf(brokenDrawer))
    BY <1>9
  <2>3. ~brokenChanged.now =>
          /\ brokenLoad.total = brokenOnServer[brokenDrawer] /\ n = TotalPages(brokenLoad.total)
          /\ \A i \in 1 .. n : pages[i] = ServerPage(brokenDrawer, i)
    BY <1>6, <1>7, <1>8, <1>9, <1>11
  <2> QED
    BY <1>2, <1>3, <2>1, <2>2, <2>3, ShowItemsInv
<1>12. CASE brokenLoad.asked # {p}
  <2>1. /\ brokenLoad' = [brokenLoad EXCEPT !.asked = @ \ {p}, !.pages = pages]
        /\ UNCHANGED <<brokenOnServer, brokenPage, brokenDrawer, brokenItems, brokenState, brokenChanged>>
    BY <1>5, <1>12
  <2>2. brokenLoad \in [asked : SUBSET (2 .. n), total : 1 .. MaxBroken,
                        pages : [1 .. n -> Seq(EntryOf(brokenDrawer))]]
    BY <1>1, <1>8 DEF OtherPagesAsked
  <2>3. /\ brokenLoad' \in [asked : SUBSET (2 .. n), total : 1 .. MaxBroken,
                            pages : [1 .. n -> Seq(EntryOf(brokenDrawer))]]
        /\ brokenLoad'.total = brokenLoad.total /\ brokenLoad'.pages = pages
        /\ brokenLoad'.asked = brokenLoad.asked \ {p}
    BY <1>9, <2>1, <2>2
  <2>4. brokenLoad'.asked # {}
    BY <1>2, <1>12, <2>3
  <2>5. TotalPages(brokenLoad'.total) = n
    BY <1>8, <2>3
  <2>6. ~brokenChanged.now =>
          \A i \in (1 .. n) \ brokenLoad'.asked : pages[i] = ServerPage(brokenDrawer, i)'
    <3>1. ~brokenChanged.now =>
            \A i \in (1 .. n) \ brokenLoad'.asked : pages[i] = ServerPage(brokenDrawer, i)
      BY <1>6, <1>7, <1>9, <2>3
    <3> QED
      BY <2>1, <3>1 DEF ServerPage, WholeList
  <2>7. ~brokenChanged.now => brokenLoad'.total = brokenOnServer'[brokenDrawer']
    BY <1>7, <2>1, <2>3
  <2>8. OtherPagesAsked(brokenLoad)'
    BY <1>2, <2>1, <2>3, <2>4, <2>5, <2>6, <2>7 DEF OtherPagesAsked
  <2>9. BrokenTypes' /\ ShownInv' /\ brokenState' = "initial_loading"
    BY <1>1, <1>2, <2>1 DEF BrokenTypes, ShownInv
  <2> QED
    BY <2>8, <2>9 DEF BrokenInv, LoadInv
<1> QED
  BY <1>11, <1>12

LEMMA BrokenStepInv == BrokenInv /\ [BrokenNext]_brokenVars => BrokenInv'
<1> SUFFICES ASSUME BrokenInv, [BrokenNext]_brokenVars PROVE BrokenInv'
  OBVIOUS
<1>1. ASSUME NEW s \in BrokenSubject, OpenMonthlyBrokenDrawer(s) PROVE BrokenInv'
  BY <1>1 DEF OpenMonthlyBrokenDrawer, BrokenInv, BrokenTypes, LoadInv, ShownInv, FirstPageAsked, IdleLoad
<1>2. ASSUME NEW s \in BrokenSubject, KeyBreaks(s) PROVE BrokenInv'
  <2>1. brokenChanged'.now
    BY <1>2 DEF KeyBreaks
  <2>2. brokenOnServer[s] + 1 \in 0 .. MaxBroken
    BY <1>2, BrokenKeysConstants DEF KeyBreaks, BrokenInv, BrokenTypes
  <2>3. BrokenTypes'
    BY <1>2, <2>2 DEF KeyBreaks, BrokenInv, BrokenTypes
  <2>4. LoadInv'
    BY <1>2, <2>1 DEF KeyBreaks, BrokenInv, LoadInv, FirstPageAsked, OtherPagesAsked
  <2>5. ShownInv'
    BY <1>2, <2>1 DEF KeyBreaks, BrokenInv, ShownInv
  <2> QED
    BY <2>3, <2>4, <2>5 DEF BrokenInv
<1>3. CASE ChangePage \/ UNCHANGED brokenVars
  <2>1. /\ UNCHANGED <<brokenOnServer, brokenDrawer, brokenItems, brokenState, brokenLoad, brokenChanged>>
        /\ brokenPage' \in {"subjects", "module"}
    BY <1>3 DEF ChangePage, brokenVars, BrokenInv, BrokenTypes
  <2>2. \A i : ServerPage(brokenDrawer, i)' = ServerPage(brokenDrawer, i)
    BY <2>1 DEF ServerPage, WholeList
  <2>3. WholeList(brokenDrawer)' = WholeList(brokenDrawer)
    BY <2>1 DEF WholeList
  <2>4. BrokenTypes'
    BY <2>1 DEF BrokenInv, BrokenTypes
  <2>5. LoadInv'
    BY <2>1, <2>2 DEF BrokenInv, LoadInv, FirstPageAsked, OtherPagesAsked
  <2>6. ShownInv'
    BY <2>1, <2>3 DEF BrokenInv, ShownInv
  <2> QED
    BY <2>4, <2>5, <2>6 DEF BrokenInv
<1>4. CASE CloseMonthlyBrokenDrawer \/ PageFails
  BY <1>4 DEF CloseMonthlyBrokenDrawer, PageFails, BrokenInv, BrokenTypes, LoadInv, ShownInv
<1> QED
  BY <1>1, <1>2, <1>3, <1>4, FirstPageInv, OtherPageInv DEF BrokenNext

LEMMA BrokenInvImplies == BrokenInv => BrokenTypeOK /\ DrawerShowsSubject
<1> SUFFICES ASSUME BrokenInv PROVE BrokenTypeOK /\ DrawerShowsSubject
  OBVIOUS
<1>1. BrokenTypeOK
  <2>1. brokenLoad.asked \subseteq BrokenPages /\ brokenLoad.total \in 0 .. MaxBroken
    <3>1. CASE brokenLoad = IdleLoad
      BY <3>1, BrokenKeysConstants DEF IdleLoad
    <3>2. CASE FirstPageAsked(brokenLoad)
      BY <3>2, BrokenKeysConstants DEF FirstPageAsked, BrokenPages
    <3>3. CASE OtherPagesAsked(brokenLoad)
      <4>1. brokenLoad.total \in 1 .. MaxBroken /\ brokenLoad.asked \subseteq 2 .. TotalPages(brokenLoad.total)
        BY <3>3 DEF OtherPagesAsked
      <4>2. brokenLoad.total \in Nat /\ brokenLoad.total # 0
        BY <4>1, BrokenKeysConstants
      <4>3. TotalPages(brokenLoad.total) \in 1 .. brokenLoad.total
        BY <4>2, PagesCoverTotal
      <4> QED
        BY <4>1, <4>2, <4>3, BrokenKeysConstants DEF BrokenPages
    <3> QED
      BY <3>1, <3>2, <3>3 DEF BrokenInv, LoadInv
  <2> QED
    BY <2>1 DEF BrokenInv, BrokenTypes, BrokenTypeOK
<1>2. DrawerShows = "keys" \/ DrawerShows # "region" => brokenState = "ready"
  BY DEF DrawerShows
<1>3. brokenState = "ready" => \A i \in DOMAIN brokenItems : brokenItems[i][1] = brokenDrawer
  <2> SUFFICES ASSUME brokenState = "ready", NEW i \in DOMAIN brokenItems PROVE brokenItems[i][1] = brokenDrawer
    OBVIOUS
  <2>1. brokenItems \in Seq(EntryOf(brokenDrawer))
    BY DEF BrokenInv, ShownInv
  <2>2. brokenItems[i] \in EntryOf(brokenDrawer)
    BY <2>1, LenProperties, ElementOfSeq
  <2> QED
    BY <2>2 DEF EntryOf
<1>4. brokenState = "ready" /\ ~brokenChanged.now => brokenItems = WholeList(brokenDrawer)
  BY DEF BrokenInv, ShownInv
<1> QED
  BY <1>1, <1>2, <1>3, <1>4 DEF DrawerShowsSubject

------------------------------------------------------------------------------
(* The address of the page and the lists it carries.                          *)

ListName == {"user-usage", "unbound-token-usage", "user-tags", "user-tag-create"}
PageName == {"token", "key", "user", "user-tag-edit"}
RouteSet == {At(n, NoId) : n \in Module \cup ListName} \cup {At(n, id) : n \in PageName, id \in RouteId}
AnySort == SortsBy(OverviewSort \cup UsageSort \cup TokenSort)
ParamSet == [q : Text, tagId : RouteTag \cup {AnyTag}, page : Page, sort : AnySort,
             view : {"none", "usage", "unbound-usage"}, perPage : KeysPerPage,
             picked : SUBSET KeyFilter, registrationIp : Text]

\* The paths the page writes lead to the routes they are written for.
LEMMA PathRoutes ==
    /\ \A m \in Module : ParseAdminPath(<<m>>) = At(m, NoId)
    /\ ParseAdminPath(<<"users", "usage">>) = At("user-usage", NoId)
    /\ ParseAdminPath(<<"users", "tags">>) = At("user-tags", NoId)
    /\ ParseAdminPath(<<"users", "tags", "new">>) = At("user-tag-create", NoId)
    /\ ParseAdminPath(<<"tokens", "leaderboard">>) = At("unbound-token-usage", NoId)
    /\ \A id \in RouteId :
         /\ ParseAdminPath(<<"users", id>>) = At("user", id)
         /\ ParseAdminPath(<<"users", "tags", id>>) = At("user-tag-edit", id)
         /\ ParseAdminPath(<<"tokens", id>>) = At("token", id)
         /\ ParseAdminPath(<<"keys", id>>) = At("key", id)
<1>1. ASSUME NEW m \in Module PROVE ParseAdminPath(<<m>>) = At(m, NoId)
  <2>1. Len(<<m>>) = 1 /\ <<m>>[1] = m
    OBVIOUS
  <2> QED
    BY <2>1 DEF ParseAdminPath, ParseUsersPath, Module
<1>2. ParseAdminPath(<<"users", "usage">>) = At("user-usage", NoId)
  BY DEF ParseAdminPath, ParseUsersPath
<1>3. ParseAdminPath(<<"users", "tags">>) = At("user-tags", NoId)
  BY DEF ParseAdminPath, ParseUsersPath
<1>4. ParseAdminPath(<<"users", "tags", "new">>) = At("user-tag-create", NoId)
  BY DEF ParseAdminPath, ParseUsersPath
<1>5. ParseAdminPath(<<"tokens", "leaderboard">>) = At("unbound-token-usage", NoId)
  BY DEF ParseAdminPath
<1>6. ASSUME NEW id \in RouteId
      PROVE  /\ ParseAdminPath(<<"users", id>>) = At("user", id)
             /\ ParseAdminPath(<<"users", "tags", id>>) = At("user-tag-edit", id)
             /\ ParseAdminPath(<<"tokens", id>>) = At("token", id)
             /\ ParseAdminPath(<<"keys", id>>) = At("key", id)
  <2>1. id # "tags" /\ id # "usage" /\ id # "new" /\ id # "leaderboard"
    BY AdminRoutesConstants
  <2>2. ParseAdminPath(<<"users", id>>) = At("user", id)
    BY <2>1 DEF ParseAdminPath, ParseUsersPath
  <2>3. ParseAdminPath(<<"users", "tags", id>>) = At("user-tag-edit", id)
    BY <2>1 DEF ParseAdminPath, ParseUsersPath
  <2>4. ParseAdminPath(<<"tokens", id>>) = At("token", id)
    BY <2>1 DEF ParseAdminPath
  <2>5. ParseAdminPath(<<"keys", id>>) = At("key", id)
    BY <2>1 DEF ParseAdminPath
  <2> QED
    BY <2>2, <2>3, <2>4, <2>5
<1> QED
  BY <1>1, <1>2, <1>3, <1>4, <1>5, <1>6

\* What is written to an address is read back from it, if a list can hold it.
LEMMA SortSets ==
    /\ SortsBy(OverviewSort) \subseteq SortsBy(OverviewSort \cup UsageSort)
    /\ SortsBy(OverviewSort \cup UsageSort) \subseteq AnySort /\ SortsBy(TokenSort) \subseteq AnySort
    /\ NoSort \in SortsBy(OverviewSort) /\ NoSort \in SortsBy(TokenSort) /\ NoSort \in AnySort
    /\ NoSort \in SortsBy(OverviewSort \cup UsageSort)
  BY DEF SortsBy, AnySort

LEMMA TrimIs == /\ \A t \in Text : Trim(t) = t
                /\ \A t \in Typed : Trim(t) \in Text
  BY AdminRoutesConstants DEF Text, Typed, Trim

LEMMA NoParamsIn == NoParams \in ParamSet
<1>1. NothingTyped \in Text /\ 1 \in Page /\ 20 \in KeysPerPage /\ AnyTag \in RouteTag \cup {AnyTag}
  BY AdminRoutesConstants DEF Text, Page
<1> QED
  BY <1>1, SortSets DEF NoParams, ParamSet

LEMMA UsersWritten ==
    ASSUME NEW path, NEW u \in ListState, NEW c \in {"users", "usage"}
    PROVE  LET a == AppendUsersContext(path, u, c)
           IN /\ a.path = path /\ a.params \in ParamSet /\ UsersFrom(a) = u
              /\ a.params.view = IF c = "usage" /\ path # <<"users", "usage">> THEN "usage" ELSE "none"
<1> DEFINE v == IF c = "usage" /\ path # <<"users", "usage">> THEN "usage" ELSE "none"
           params == [NoParams EXCEPT !.q = Trim(u.q), !.tagId = u.tagId, !.page = u.page, !.sort = u.sort, !.view = v]
           a == AppendUsersContext(path, u, c)
<1>1. u.q \in Text /\ u.tagId \in RouteTag \cup {AnyTag} /\ u.page \in Page
      /\ u.sort \in SortsBy(OverviewSort \cup UsageSort) /\ Trim(u.q) = u.q
  BY TrimIs DEF ListState
<1>2. v \in {"none", "usage", "unbound-usage"} /\ u.sort \in AnySort
  BY <1>1, SortSets
<1>3. a = Address(path, params)
  BY DEF AppendUsersContext
<1> HIDE DEF v
<1>4. params \in ParamSet
  BY <1>1, <1>2, NoParamsIn DEF ParamSet
<1>5. params.q = u.q /\ params.tagId = u.tagId /\ params.page = u.page /\ params.sort = u.sort /\ params.view = v
  BY <1>1, NoParamsIn DEF ParamSet
<1> HIDE DEF params
<1>6. a.path = path /\ a.params = params
  BY <1>3 DEF Address
<1>7. UsersFrom(a) = u
  <2>1. UsersFrom(a) = [q |-> u.q, tagId |-> u.tagId, page |-> u.page, sort |-> u.sort]
    BY <1>1, <1>5, <1>6 DEF UsersFrom
  <2> QED
    BY <2>1 DEF ListState
<1> QED
  BY <1>4, <1>5, <1>6, <1>7 DEF v

LEMMA TokensWritten ==
    ASSUME NEW path, NEW t \in TokenListState, NEW c \in {"tokens", "unbound-usage"}
    PROVE  LET a == AppendTokensContext(path, t, c)
           IN /\ a.path = path /\ a.params \in ParamSet /\ UnboundFrom(a) = t
              /\ a.params.view = IF c = "unbound-usage" THEN "unbound-usage" ELSE "none"
<1> DEFINE v == IF c = "unbound-usage" THEN "unbound-usage" ELSE "none"
           params == [NoParams EXCEPT !.q = Trim(t.q), !.page = t.page, !.sort = t.sort, !.view = v]
           a == AppendTokensContext(path, t, c)
<1>1. t.q \in Text /\ t.page \in Page /\ t.sort \in SortsBy(TokenSort) /\ Trim(t.q) = t.q
  BY TrimIs DEF TokenListState
<1>2. v \in {"none", "usage", "unbound-usage"} /\ t.sort \in AnySort
  BY <1>1, SortSets
<1>3. a = Address(path, params)
  BY DEF AppendTokensContext
<1> HIDE DEF v
<1>4. params \in ParamSet
  BY <1>1, <1>2, NoParamsIn DEF ParamSet
<1>5. params.q = t.q /\ params.page = t.page /\ params.sort = t.sort /\ params.view = v
  BY <1>1, NoParamsIn DEF ParamSet
<1> HIDE DEF params
<1>6. a.path = path /\ a.params = params
  BY <1>3 DEF Address
<1>7. UnboundFrom(a) = t
  <2>1. UnboundFrom(a) = [q |-> t.q, page |-> t.page, sort |-> t.sort]
    BY <1>1, <1>5, <1>6 DEF UnboundFrom
  <2> QED
    BY <2>1 DEF TokenListState
<1> QED
  BY <1>4, <1>5, <1>6, <1>7 DEF v

LEMMA KeysWritten ==
    ASSUME NEW path, NEW k \in KeysState
    PROVE  LET a == AppendKeysContext(path, k)
           IN a.path = path /\ a.params \in ParamSet /\ KeysFrom(a) = k /\ a.params.view = "none"
<1> DEFINE params == [NoParams EXCEPT !.page = k.page, !.perPage = k.perPage,
                      !.picked = NormalizeKeyContextValues(k.picked), !.registrationIp = Trim(k.ip)]
           a == AppendKeysContext(path, k)
<1>1. k.page \in Page /\ k.perPage \in KeysPerPage /\ k.picked \subseteq KeyFilter /\ k.ip \in Text /\ Trim(k.ip) = k.ip
  BY TrimIs DEF KeysState
<1>2. NormalizeKeyContextValues(k.picked) = k.picked
  BY <1>1, FacetsAssumption DEF NormalizeKeyContextValues
<1>3. a = Address(path, params)
  BY DEF AppendKeysContext
<1>4. params \in ParamSet
  BY <1>1, <1>2, NoParamsIn DEF ParamSet
<1>5. /\ params.page = k.page /\ params.perPage = k.perPage /\ params.picked = k.picked
      /\ params.registrationIp = k.ip /\ params.view = "none"
  BY <1>1, <1>2 DEF NoParams
<1> HIDE DEF params
<1>6. a.path = path /\ a.params = params
  BY <1>3 DEF Address
<1>7. ~(k.perPage > 100)
  <2>1. k.perPage \in KeysPerPage
    BY <1>1
  <2>2. KeysPerPage \subseteq 1 .. 100
    BY AdminRoutesConstants
  <2> HIDE DEF a
  <2>3. k.perPage \in 1 .. 100
    BY <2>1, <2>2, Zenon
  <2> QED
    BY <2>3
<1>8. KeysFrom(a) = k
  <2>1. KeysFrom(a) = [page |-> k.page, perPage |-> k.perPage, picked |-> k.picked, ip |-> k.ip]
    BY <1>1, <1>2, <1>5, <1>6, <1>7 DEF KeysFrom
  <2> QED
    BY <2>1 DEF KeysState
<1> QED
  BY <1>4, <1>5, <1>6, <1>8

LEMMA ReadBack ==
    ASSUME NEW a, a.params \in ParamSet
    PROVE  /\ UsersFrom(a) \in ListState /\ UnboundFrom(a) \in TokenListState /\ KeysFrom(a) \in KeysState
           /\ UsersCollection(a) \in {"users", "usage"}
<1>1. /\ a.params.q \in Text /\ Trim(a.params.q) \in Text /\ a.params.tagId \in RouteTag \cup {AnyTag}
      /\ a.params.page \in Page /\ a.params.perPage \in KeysPerPage /\ a.params.picked \subseteq KeyFilter
      /\ Trim(a.params.registrationIp) \in Text
  BY TrimIs DEF ParamSet
<1>2. UsersFrom(a) \in ListState
  <2> DEFINE s == IF a.params.sort \in SortsBy(OverviewSort \cup UsageSort) THEN a.params.sort ELSE NoSort
  <2>1. s \in SortsBy(OverviewSort \cup UsageSort)
    BY SortSets
  <2> HIDE DEF s
  <2> QED
    BY <1>1, <2>1 DEF UsersFrom, ListState, s
<1>3. UnboundFrom(a) \in TokenListState
  <2> DEFINE s == IF a.params.sort \in SortsBy(TokenSort) THEN a.params.sort ELSE NoSort
  <2>1. s \in SortsBy(TokenSort)
    BY SortSets
  <2> HIDE DEF s
  <2> QED
    BY <1>1, <2>1 DEF UnboundFrom, TokenListState, s
<1>4. KeysFrom(a) \in KeysState
  <2>1. ~(a.params.perPage > 100)
    <3>1. \A n \in KeysPerPage : ~(n > 100)
      BY AdminRoutesConstants
    <3> QED
      BY <1>1, <3>1
  <2>2. NormalizeKeyContextValues(a.params.picked) \subseteq KeyFilter
    BY <1>1 DEF NormalizeKeyContextValues
  <2> QED
    BY <1>1, <2>1, <2>2 DEF KeysFrom, KeysState
<1> QED
  BY <1>2, <1>3, <1>4 DEF UsersCollection

LEMMA OverviewOnlyIs ==
    ASSUME NEW u \in ListState
    PROVE  /\ OverviewOnly(u.sort) \in SortsBy(OverviewSort)
           /\ [u EXCEPT !.sort = OverviewOnly(u.sort)] \in ListState
           /\ [u EXCEPT !.sort = OverviewOnly(u.sort)].sort = OverviewOnly(u.sort)
           /\ u.sort \in SortsBy(OverviewSort) => [u EXCEPT !.sort = OverviewOnly(u.sort)] = u
<1>1. OverviewOnly(u.sort) \in SortsBy(OverviewSort)
      /\ (u.sort \in SortsBy(OverviewSort) => OverviewOnly(u.sort) = u.sort)
  BY SortSets DEF OverviewOnly
<1> DEFINE s == OverviewOnly(u.sort)
<1> HIDE DEF s
<1>2. s \in SortsBy(OverviewSort \cup UsageSort)
  BY <1>1, SortSets DEF s
<1>3. [u EXCEPT !.sort = s] \in ListState /\ [u EXCEPT !.sort = s].sort = s
      /\ (s = u.sort => [u EXCEPT !.sort = s] = u)
  BY <1>2 DEF ListState
<1> QED
  BY <1>1, <1>3 DEF s

\* A page carries in its address the list it was opened from, as that list was shown.
UserPageName == {"user", "user-tags", "user-tag-create", "user-tag-edit"}
LeadsBack(r, a, c) ==
    c # NoList =>
      \/ /\ r.name \in UserPageName
         /\ c = [list |-> IF UsersCollection(a) = "usage" THEN "user-usage" ELSE "users", state |-> UsersFrom(a)]
         /\ UsersCollection(a) = "users" => UsersFrom(a).sort \in SortsBy(OverviewSort)
      \/ /\ r.name = "token" /\ a.params.view = "unbound-usage"
         /\ c = [list |-> "unbound-token-usage", state |-> UnboundFrom(a)]
      \/ r.name = "key" /\ c = [list |-> "keys", state |-> KeysFrom(a)]
\* The list of users is sorted by its own columns, and its address is not that of the usage list.
OverviewInv(r, a, u) == r.name = "users" => u.sort \in SortsBy(OverviewSort) /\ a.params.view # "usage"
SearchSet == [users : Typed, unbound : Typed, keys : Typed]
RouteInv ==
    /\ adminRoute \in RouteSet /\ RouteOfAddress /\ address.params \in ParamSet
    /\ usersList \in ListState /\ unboundList \in TokenListState /\ keysList \in KeysState
    /\ searchInput \in SearchSet
    /\ OverviewInv(adminRoute, address, usersList) /\ LeadsBack(adminRoute, address, cameFrom)

LEMMA RouteSetIs ==
    /\ \A r \in RouteSet : r = At(r.name, r.id)
    /\ \A n \in Module \cup ListName : At(n, NoId) \in RouteSet
    /\ \A n \in PageName, id \in RouteId : At(n, id) \in RouteSet
    /\ \A r \in RouteSet : r.name \in Module \cup ListName => r.id = NoId
    /\ \A r \in RouteSet : r.name \in Module \cup ListName \cup PageName
    /\ \A n, id : At(n, id).name = n /\ At(n, id).id = id
<1>1. Module \cap PageName = {} /\ ListName \cap PageName = {}
  BY DEF Module, ListName, PageName
<1>2. \A n, id : At(n, id).name = n /\ At(n, id).id = id
  BY DEF At
<1>3. /\ \A n \in Module \cup ListName : At(n, NoId) \in RouteSet
      /\ \A n \in PageName, id \in RouteId : At(n, id) \in RouteSet
  BY DEF RouteSet
<1>4. ASSUME NEW r \in RouteSet
      PROVE  /\ r = At(r.name, r.id) /\ r.name \in Module \cup ListName \cup PageName
             /\ r.name \in Module \cup ListName => r.id = NoId
  <2>1. CASE r \in {At(n, NoId) : n \in Module \cup ListName}
    <3>1. PICK n \in Module \cup ListName : r = At(n, NoId)
      BY <2>1
    <3> QED
      BY <1>2, <3>1
  <2>2. CASE r \in {At(n, id) : n \in PageName, id \in RouteId}
    <3>1. PICK n \in PageName, id \in RouteId : r = At(n, id)
      BY <2>2
    <3> QED
      BY <1>1, <1>2, <3>1
  <2> QED
    BY <2>1, <2>2 DEF RouteSet
<1> QED
  BY <1>2, <1>3, <1>4

LEMMA TextIn == Text \subseteq Typed
  BY DEF Typed

\* The effects of a new route keep the lists to their types.
LEMMA SyncIn ==
    ASSUME NEW r, NEW a, a.params \in ParamSet,
           usersList \in ListState, unboundList \in TokenListState, keysList \in KeysState, searchInput \in SearchSet
    PROVE  /\ SyncUsers(r, a) \in ListState /\ SyncUnbound(r, a) \in TokenListState /\ SyncKeys(r, a) \in KeysState
           /\ SyncInput(r, a) \in SearchSet
           /\ UsersShownAt(r, a) \in ListState
           /\ r.name = "users" => UsersShownAt(r, a).sort \in SortsBy(OverviewSort)
<1> DEFINE u == UsersFrom(a)
<1>1. u \in ListState /\ UnboundFrom(a) \in TokenListState /\ KeysFrom(a) \in KeysState
  BY ReadBack
<1> HIDE DEF u
<1>2. UsersShownAt(r, a) = IF r.name = "users" THEN [u EXCEPT !.sort = OverviewOnly(u.sort)] ELSE u
  BY DEF UsersShownAt, u
<1>3. /\ UsersShownAt(r, a) \in ListState
      /\ r.name = "users" => UsersShownAt(r, a).sort \in SortsBy(OverviewSort)
  <2>1. [u EXCEPT !.sort = OverviewOnly(u.sort)] \in ListState
    BY <1>1, OverviewOnlyIs
  <2>2. [u EXCEPT !.sort = OverviewOnly(u.sort)].sort \in SortsBy(OverviewSort)
    BY <1>1, OverviewOnlyIs
  <2> QED
    BY <1>1, <1>2, <2>1, <2>2
<1>4. SyncUsers(r, a) \in ListState /\ SyncUnbound(r, a) \in TokenListState /\ SyncKeys(r, a) \in KeysState
  BY <1>1, <1>3 DEF SyncUsers, SyncUnbound, SyncKeys
<1>5. SyncInput(r, a) \in SearchSet
  <2>1. UsersFrom(a).q \in Typed /\ UnboundFrom(a).q \in Typed /\ KeysFrom(a).ip \in Typed
    <3>1. UsersFrom(a).q \in Text /\ UnboundFrom(a).q \in Text /\ KeysFrom(a).ip \in Text
      BY <1>1 DEF ListState, TokenListState, KeysState, u
    <3> QED
      BY <3>1, TextIn
  <2>2. \A t \in Typed : /\ [searchInput EXCEPT !.users = t] \in SearchSet
                         /\ [searchInput EXCEPT !.unbound = t] \in SearchSet
                         /\ [searchInput EXCEPT !.keys = t] \in SearchSet
    BY DEF SearchSet
  <2>3. CASE UsersCollectionRoute(r)
    <3>1. r.name # "unbound-token-usage" /\ r.name # "keys"
      BY <2>3 DEF UsersCollectionRoute
    <3>2. SyncInput(r, a) = [searchInput EXCEPT !.users = UsersFrom(a).q]
      BY <2>3, <3>1 DEF SyncInput
    <3> QED
      BY <2>1, <2>2, <3>2
  <2>4. CASE ~UsersCollectionRoute(r) /\ r.name = "unbound-token-usage"
    <3>1. SyncInput(r, a) = [searchInput EXCEPT !.unbound = UnboundFrom(a).q]
      BY <2>4 DEF SyncInput
    <3> QED
      BY <2>1, <2>2, <3>1
  <2>5. CASE ~UsersCollectionRoute(r) /\ r.name = "keys"
    <3>1. SyncInput(r, a) = [searchInput EXCEPT !.keys = KeysFrom(a).ip]
      BY <2>5 DEF SyncInput
    <3> QED
      BY <2>1, <2>2, <3>1
  <2>6. CASE ~UsersCollectionRoute(r) /\ r.name # "unbound-token-usage" /\ r.name # "keys"
    <3>1. SyncInput(r, a) = searchInput
      BY <2>6 DEF SyncInput
    <3> QED
      BY <3>1
  <2> QED
    BY <2>3, <2>4, <2>5, <2>6
<1> QED
  BY <1>3, <1>4, <1>5

\* Going to an address keeps the invariant if the address suits the page it leads to.
LEMMA MoveInv ==
    ASSUME RouteInv, NEW a, NEW r \in RouteSet, ParseAdminPath(a.path) = r, a.params \in ParamSet,
           r.name = "users" => a.params.view # "usage", NavigateToPath(a),
           adminRoute = r => LeadsBack(r, a, cameFrom),
           adminRoute # r => LeadsBack(r, a, CameFrom(r))
    PROVE  RouteInv'
<1>1. IsSameAdminRoute(adminRoute, r) <=> adminRoute = r
  <2>1. adminRoute \in RouteSet /\ adminRoute = At(adminRoute.name, adminRoute.id) /\ r = At(r.name, r.id)
    BY RouteSetIs DEF RouteInv
  <2> QED
    BY <2>1 DEF IsSameAdminRoute
<1>2. /\ address' = a
      /\ IF adminRoute = r
         THEN UNCHANGED <<adminRoute, usersList, unboundList, keysList, searchInput, cameFrom>>
         ELSE adminRoute' = r /\ Sync(r, a) /\ cameFrom' = CameFrom(r)
  BY <1>1 DEF NavigateToPath
<1>3. CASE adminRoute = r
  BY <1>2, <1>3 DEF RouteInv, RouteOfAddress, OverviewInv
<1>4. CASE adminRoute # r
  <2>1. /\ adminRoute' = r /\ cameFrom' = CameFrom(r) /\ address' = a
        /\ usersList' = SyncUsers(r, a) /\ unboundList' = SyncUnbound(r, a) /\ keysList' = SyncKeys(r, a)
        /\ searchInput' = SyncInput(r, a)
    BY <1>2, <1>4 DEF Sync
  <2>2. /\ usersList' \in ListState /\ unboundList' \in TokenListState /\ keysList' \in KeysState
        /\ searchInput' \in SearchSet
    BY <2>1, SyncIn DEF RouteInv
  <2>3. OverviewInv(r, a, usersList')
    <3> SUFFICES ASSUME r.name = "users" PROVE usersList'.sort \in SortsBy(OverviewSort)
      BY DEF OverviewInv
    <3>1. usersList' = UsersShownAt(r, a)
      BY <2>1 DEF SyncUsers, UsersCollectionRoute
    <3> QED
      BY <3>1, SyncIn DEF RouteInv
  <2>4. RouteOfAddress'
    BY <2>1 DEF RouteOfAddress
  <2>5. LeadsBack(adminRoute', address', cameFrom')
    BY <1>4, <2>1
  <2>6. (LeadsBack(adminRoute, address, cameFrom))' /\ (OverviewInv(adminRoute, address, usersList))'
    BY <2>1, <2>3, <2>5
  <2> QED
    BY <2>1, <2>2, <2>4, <2>6 DEF RouteInv
<1> QED
  BY <1>3, <1>4

\* A list was opened from nowhere.
LEMMA NoOrigin ==
    ASSUME RouteInv, NEW r, r.name \notin UserPageName \cup {"token", "key"}
    PROVE  /\ CameFrom(r) = NoList /\ (adminRoute = r => cameFrom = NoList)
           /\ \A a : /\ LeadsBack(r, a, NoList) /\ LeadsBack(r, a, CameFrom(r))
                     /\ adminRoute = r => LeadsBack(r, a, cameFrom)
<1>1. CameFrom(r) = NoList
  BY DEF CameFrom, UserPageName
<1>2. adminRoute = r => cameFrom = NoList
  BY DEF RouteInv, LeadsBack
<1>3. \A a : LeadsBack(r, a, NoList)
  BY DEF LeadsBack
<1> QED
  BY <1>1, <1>2, <1>3

\* The steps that go to another page.
LEMMA PlainAddress ==
    ASSUME NEW path
    PROVE  Address(path, NoParams).path = path /\ Address(path, NoParams).params \in ParamSet
           /\ Address(path, NoParams).params.view = "none"
<1>1. Address(path, NoParams).path = path /\ Address(path, NoParams).params = NoParams
  BY DEF Address
<1>2. NoParams.view = "none"
  BY DEF NoParams
<1> QED
  BY <1>1, <1>2, NoParamsIn

LEMMA CollectionIs ==
    ASSUME RouteInv
    PROVE  /\ Collection \in {"users", "usage"}
           /\ adminRoute.name = "users" => Collection = "users"
           /\ adminRoute.name = "user-usage" => Collection = "usage"
           /\ adminRoute.name # "user-usage" => Collection = UsersCollection(address)
  BY DEF RouteInv, OverviewInv, Collection, OnUsage, UsersCollection

\* An address with a users context carries the list and where it was shown.
LEMMA UsersCarried ==
    ASSUME NEW path, path # <<"users", "usage">>, NEW u \in ListState, NEW c \in {"users", "usage"}
    PROVE  LET a == AppendUsersContext(path, u, c)
           IN a.path = path /\ a.params \in ParamSet /\ UsersFrom(a) = u /\ UsersCollection(a) = c
  BY UsersWritten DEF UsersCollection

LEMMA NavigateModuleInv ==
    ASSUME RouteInv, NEW target \in Module \cup {"user-usage"}, NavigateModule(target) PROVE RouteInv'
<1> DEFINE a == IF target = "user-usage" THEN UserUsagePath(UsersFrom(address)) ELSE Address(<<target>>, NoParams)
           r == At(target, NoId)
<1>1. NavigateToPath(a)
  BY DEF NavigateModule
<1>2. r \in RouteSet /\ r.name = target /\ target \notin UserPageName \cup {"token", "key"}
  BY RouteSetIs DEF ListName, UserPageName, Module
<1>3. ParseAdminPath(a.path) = r /\ a.params \in ParamSet /\ a.params.view = "none"
  <2>1. CASE target = "user-usage"
    <3>1. a = AppendUsersContext(<<"users", "usage">>, UsersFrom(address), "usage")
      BY <2>1 DEF UserUsagePath
    <3>2. UsersFrom(address) \in ListState
      BY ReadBack DEF RouteInv
    <3>3. a.path = <<"users", "usage">> /\ a.params \in ParamSet /\ a.params.view = "none"
      BY <3>1, <3>2, UsersWritten
    <3> QED
      BY <2>1, <3>3, PathRoutes
  <2>2. CASE target # "user-usage"
    <3>1. a = Address(<<target>>, NoParams) /\ target \in Module
      BY <2>2
    <3>2. a.path = <<target>> /\ a.params \in ParamSet /\ a.params.view = "none"
      BY <3>1, PlainAddress
    <3> QED
      BY <3>1, <3>2, PathRoutes
  <2> QED
    BY <2>1, <2>2
<1> HIDE DEF a, r
<1>4. (adminRoute = r => LeadsBack(r, a, cameFrom)) /\ LeadsBack(r, a, CameFrom(r))
  BY <1>2, NoOrigin
<1> QED
  BY <1>1, <1>2, <1>3, <1>4, MoveInv

\* A page without a list opened from a page that is none: nothing to lead back to.
LEMMA PlainPageInv ==
    ASSUME RouteInv, NEW path, NEW r \in RouteSet, ParseAdminPath(path) = r, adminRoute # r,
           CameFrom(r) = NoList, NavigateToPath(Address(path, NoParams))
    PROVE  RouteInv'
<1> DEFINE a == Address(path, NoParams)
<1>1. a.path = path /\ a.params \in ParamSet /\ a.params.view = "none"
  BY PlainAddress
<1> HIDE DEF a
<1>2. LeadsBack(r, a, CameFrom(r))
  BY DEF LeadsBack
<1> QED
  BY <1>1, <1>2, MoveInv DEF a

LEMMA NavigateKeyInv ==
    ASSUME RouteInv, NEW id \in RouteId, NavigateKey(id) PROVE RouteInv'
<1> DEFINE r == At("key", id)
<1>1. r \in RouteSet /\ r.name = "key" /\ ParseAdminPath(<<"keys", id>>) = r
  BY RouteSetIs, PathRoutes DEF PageName
<1> HIDE DEF r
<1>2. CASE adminRoute.name = "keys"
  <2> DEFINE a == KeyDetailPath(id, keysList)
  <2>1. NavigateToPath(a)
    BY <1>2 DEF NavigateKey
  <2>2. a.path = <<"keys", id>> /\ a.params \in ParamSet /\ KeysFrom(a) = keysList
    BY KeysWritten DEF KeyDetailPath, RouteInv
  <2> HIDE DEF a
  <2>3. CameFrom(r) = [list |-> "keys", state |-> keysList]
    BY <1>1, <1>2 DEF CameFrom, ShownList, UsersCollectionRoute
  <2>4. LeadsBack(r, a, CameFrom(r)) /\ adminRoute # r
    BY <1>1, <1>2, <2>2, <2>3 DEF LeadsBack
  <2> QED
    BY <1>1, <2>1, <2>2, <2>4, MoveInv
<1>3. CASE adminRoute.name = "token"
  <2>1. NavigateToPath(Address(<<"keys", id>>, NoParams))
    BY <1>3 DEF NavigateKey
  <2>2. CameFrom(r) = NoList /\ adminRoute # r
    BY <1>1, <1>3 DEF CameFrom
  <2> QED
    BY <1>1, <2>1, <2>2, PlainPageInv
<1> QED
  BY <1>2, <1>3 DEF NavigateKey

LEMMA NavigateTokenInv ==
    ASSUME RouteInv, NEW id \in RouteId, NavigateToken(id) PROVE RouteInv'
<1> DEFINE r == At("token", id)
<1>1. r \in RouteSet /\ r.name = "token" /\ ParseAdminPath(<<"tokens", id>>) = r
  BY RouteSetIs, PathRoutes DEF PageName
<1> HIDE DEF r
<1>2. CASE adminRoute.name = "unbound-token-usage"
  <2> DEFINE a == TokenDetailPath(id, unboundList)
  <2>1. NavigateToPath(a)
    BY <1>2 DEF NavigateToken
  <2>2. a.path = <<"tokens", id>> /\ a.params \in ParamSet /\ UnboundFrom(a) = unboundList
        /\ a.params.view = "unbound-usage"
    BY TokensWritten DEF TokenDetailPath, RouteInv
  <2> HIDE DEF a
  <2>3. CameFrom(r) = [list |-> "unbound-token-usage", state |-> unboundList]
    BY <1>1, <1>2 DEF CameFrom, ShownList, UsersCollectionRoute
  <2>4. LeadsBack(r, a, CameFrom(r)) /\ adminRoute # r
    BY <1>1, <1>2, <2>2, <2>3 DEF LeadsBack
  <2> QED
    BY <1>1, <2>1, <2>2, <2>4, MoveInv
<1>3. CASE adminRoute.name \in {"tokens", "user"}
  <2>1. NavigateToPath(Address(<<"tokens", id>>, NoParams))
    BY <1>3 DEF NavigateToken
  <2>2. CameFrom(r) = NoList /\ adminRoute # r
    BY <1>1, <1>3 DEF CameFrom
  <2> QED
    BY <1>1, <2>1, <2>2, PlainPageInv
<1> QED
  BY <1>2, <1>3 DEF NavigateToken

LEMMA NavigateUserInv ==
    ASSUME RouteInv, NEW id \in RouteId, NavigateUser(id) PROVE RouteInv'
<1> DEFINE r == At("user", id)
<1>1. r \in RouteSet /\ r.name = "user" /\ ParseAdminPath(<<"users", id>>) = r
  BY RouteSetIs, PathRoutes DEF PageName
<1> HIDE DEF r
<1>2. CASE (UsersCollectionRoute(adminRoute) \/ adminRoute.name = "key")
           /\ NavigateToPath(UserDetailPath(id, usersList, Collection))
  <2> DEFINE a == UserDetailPath(id, usersList, Collection)
  <2>1. id # "usage"
    BY AdminRoutesConstants
  <2>2. <<"users", id>> # <<"users", "usage">>
    BY <2>1
  <2>3. Collection \in {"users", "usage"} /\ usersList \in ListState
    BY CollectionIs DEF RouteInv
  <2>4. a.path = <<"users", id>> /\ a.params \in ParamSet /\ UsersFrom(a) = usersList /\ UsersCollection(a) = Collection
    BY <2>2, <2>3, UsersCarried DEF UserDetailPath
  <2>5. NavigateToPath(a)
    BY <1>2
  <2> HIDE DEF a
  <2>6. adminRoute # r
    BY <1>1, <1>2 DEF UsersCollectionRoute
  <2>7. CASE adminRoute.name = "key"
    <3>1. CameFrom(r) = NoList
      BY <1>1, <2>7 DEF CameFrom, UsersCollectionRoute
    <3>2. LeadsBack(r, a, CameFrom(r))
      BY <3>1 DEF LeadsBack
    <3> QED
      BY <1>1, <2>4, <2>5, <2>6, <3>2, MoveInv
  <2>8. CASE UsersCollectionRoute(adminRoute)
    <3>1. CameFrom(r) = [list |-> adminRoute.name, state |-> usersList]
      BY <1>1, <2>8 DEF CameFrom, ShownList, UsersCollectionRoute
    <3>2. adminRoute.name = IF Collection = "usage" THEN "user-usage" ELSE "users"
      BY <2>3, <2>8, CollectionIs DEF UsersCollectionRoute
    <3>3. Collection = "users" => usersList.sort \in SortsBy(OverviewSort)
      BY <3>2 DEF RouteInv, OverviewInv
    <3>4. LeadsBack(r, a, CameFrom(r))
      BY <1>1, <2>4, <3>1, <3>2, <3>3 DEF LeadsBack, UserPageName
    <3> QED
      BY <1>1, <2>4, <2>5, <2>6, <3>4, MoveInv
  <2> QED
    BY <1>2, <2>7, <2>8
<1>3. CASE adminRoute.name = "token" /\ NavigateToPath(Address(<<"users", id>>, NoParams))
  <2>1. CameFrom(r) = NoList /\ adminRoute # r
    BY <1>1, <1>3 DEF CameFrom, UsersCollectionRoute
  <2> QED
    BY <1>1, <1>3, <2>1, PlainPageInv
<1> QED
  BY <1>2, <1>3 DEF NavigateUser

\* Back: to a list, from which nothing leads back.
LEMMA BackInv ==
    ASSUME RouteInv, NEW a, NEW r \in RouteSet, ParseAdminPath(a.path) = r, a.params \in ParamSet,
           r.name = "users" => a.params.view # "usage",
           r.name \notin UserPageName \cup {"token", "key"}, NavigateToPath(a)
    PROVE  RouteInv'
  BY NoOrigin, MoveInv

LEMMA UsersPathIs ==
    ASSUME RouteInv, NEW u \in ListState
    PROVE  LET a == BuildUsersCollectionPath(u)
               r == At(IF Collection = "usage" THEN "user-usage" ELSE "users", NoId)
           IN /\ r \in RouteSet /\ ParseAdminPath(a.path) = r
              /\ r.name = IF Collection = "usage" THEN "user-usage" ELSE "users"
              /\ a.params \in ParamSet /\ UsersFrom(a) = u /\ a.params.view = "none"
<1> DEFINE a == BuildUsersCollectionPath(u)
           r == At(IF Collection = "usage" THEN "user-usage" ELSE "users", NoId)
<1>1. CASE Collection = "usage"
  <2>1. a = AppendUsersContext(<<"users", "usage">>, u, "usage")
    BY <1>1 DEF BuildUsersCollectionPath, UserUsagePath
  <2>2. a.path = <<"users", "usage">> /\ a.params \in ParamSet /\ UsersFrom(a) = u /\ a.params.view = "none"
    BY <2>1, UsersWritten
  <2>3. r \in RouteSet /\ r = At("user-usage", NoId) /\ r.name = "user-usage"
    BY <1>1, RouteSetIs DEF ListName
  <2> QED
    BY <1>1, <2>2, <2>3, PathRoutes
<1>2. CASE Collection # "usage"
  <2>1. a = AppendUsersContext(<<"users">>, u, "users")
    BY <1>2 DEF BuildUsersCollectionPath, BuildAdminUsersPath
  <2>2. a.path = <<"users">> /\ a.params \in ParamSet /\ UsersFrom(a) = u /\ a.params.view = "none"
    BY <2>1, UsersWritten
  <2>3. r \in RouteSet /\ r = At("users", NoId) /\ r.name = "users" /\ "users" \in Module
    BY <1>2, RouteSetIs DEF Module
  <2> QED
    BY <1>2, <2>2, <2>3, PathRoutes
<1> QED
  BY <1>1, <1>2

LEMMA TokensPathIs ==
    ASSUME NEW t \in TokenListState
    PROVE  LET a == UnboundTokenUsagePath(t)
               r == At("unbound-token-usage", NoId)
           IN /\ r \in RouteSet /\ r.name = "unbound-token-usage" /\ ParseAdminPath(a.path) = r
              /\ a.params \in ParamSet /\ UnboundFrom(a) = t
<1>1. /\ UnboundTokenUsagePath(t).path = <<"tokens", "leaderboard">> /\ UnboundTokenUsagePath(t).params \in ParamSet
      /\ UnboundFrom(UnboundTokenUsagePath(t)) = t
  BY TokensWritten DEF UnboundTokenUsagePath
<1>2. At("unbound-token-usage", NoId) \in RouteSet /\ At("unbound-token-usage", NoId).name = "unbound-token-usage"
  BY RouteSetIs DEF ListName
<1> QED
  BY <1>1, <1>2, PathRoutes

LEMMA KeysPathIs ==
    ASSUME NEW k \in KeysState
    PROVE  LET a == BuildAdminKeysPath(k)
               r == At("keys", NoId)
           IN /\ r \in RouteSet /\ r.name = "keys" /\ ParseAdminPath(a.path) = r
              /\ a.params \in ParamSet /\ KeysFrom(a) = k
<1>1. /\ BuildAdminKeysPath(k).path = <<"keys">> /\ BuildAdminKeysPath(k).params \in ParamSet
      /\ KeysFrom(BuildAdminKeysPath(k)) = k
  BY KeysWritten DEF BuildAdminKeysPath
<1>2. At("keys", NoId) \in RouteSet /\ At("keys", NoId).name = "keys" /\ "keys" \in Module
  BY RouteSetIs DEF Module
<1> QED
  BY <1>1, <1>2, PathRoutes

LEMMA BacksInv ==
    ASSUME RouteInv, NavigateBackFromTokenDetail \/ NavigateBackToUsers \/ NavigateBackFromKey
                     \/ BackFromUsage \/ NavigateUnboundTokenUsage
    PROVE  RouteInv'
<1>0. UsersFrom(address) \in ListState /\ UnboundFrom(address) \in TokenListState /\ KeysFrom(address) \in KeysState
  BY ReadBack DEF RouteInv
<1>1. ASSUME NEW t \in TokenListState, NavigateToPath(UnboundTokenUsagePath(t)) PROVE RouteInv'
  <2> DEFINE r == At("unbound-token-usage", NoId)
             a == UnboundTokenUsagePath(t)
  <2>1. /\ r \in RouteSet /\ r.name = "unbound-token-usage" /\ ParseAdminPath(a.path) = r
        /\ a.params \in ParamSet /\ UnboundFrom(a) = t /\ NavigateToPath(a)
    BY <1>1, TokensPathIs
  <2> HIDE DEF r, a
  <2>2. r.name # "users" /\ r.name \notin UserPageName \cup {"token", "key"}
    BY <2>1 DEF UserPageName
  <2> QED
    BY <2>1, <2>2, BackInv
<1>2. ASSUME NEW k \in KeysState, NavigateToPath(BuildAdminKeysPath(k)) PROVE RouteInv'
  <2> DEFINE r == At("keys", NoId)
             a == BuildAdminKeysPath(k)
  <2>1. /\ r \in RouteSet /\ r.name = "keys" /\ ParseAdminPath(a.path) = r
        /\ a.params \in ParamSet /\ KeysFrom(a) = k /\ NavigateToPath(a)
    BY <1>2, KeysPathIs
  <2> HIDE DEF r, a
  <2>2. r.name # "users" /\ r.name \notin UserPageName \cup {"token", "key"}
    BY <2>1 DEF UserPageName
  <2> QED
    BY <2>1, <2>2, BackInv
<1>3. CASE NavigateBackFromTokenDetail
  <2>1. CASE address.params.view = "unbound-usage"
    BY <1>0, <1>1, <1>3, <2>1 DEF NavigateBackFromTokenDetail, BackFromToken
  <2>2. CASE address.params.view # "unbound-usage"
    <3> DEFINE r == At("tokens", NoId)
               a == Address(<<"tokens">>, NoParams)
    <3>1. "tokens" \in Module /\ a.path = <<"tokens">> /\ a.params \in ParamSet /\ NavigateToPath(a)
      BY <1>3, <2>2, PlainAddress DEF Module, NavigateBackFromTokenDetail, BackFromToken
    <3>2. r \in RouteSet /\ r.name = "tokens" /\ ParseAdminPath(<<"tokens">>) = r
      BY <3>1, RouteSetIs, PathRoutes
    <3> HIDE DEF r, a
    <3>3. r.name # "users" /\ r.name \notin UserPageName \cup {"token", "key"}
      BY <3>2 DEF UserPageName
    <3> QED
      BY <3>1, <3>2, <3>3, BackInv
  <2> QED
    BY <2>1, <2>2
<1>4. CASE NavigateBackToUsers
  <2> DEFINE a == BuildUsersCollectionPath(UsersFrom(address))
             r == At(IF Collection = "usage" THEN "user-usage" ELSE "users", NoId)
  <2>1. NavigateToPath(a)
    BY <1>4 DEF NavigateBackToUsers, BackToUsers
  <2>2. /\ r \in RouteSet /\ ParseAdminPath(a.path) = r /\ r.name \in {"user-usage", "users"}
        /\ a.params \in ParamSet /\ a.params.view = "none"
    BY <1>0, UsersPathIs
  <2> HIDE DEF a, r
  <2>3. r.name \notin UserPageName \cup {"token", "key"}
    BY <2>2 DEF UserPageName
  <2> QED
    BY <2>1, <2>2, <2>3, BackInv
<1>5. CASE NavigateBackFromKey
  BY <1>0, <1>2, <1>5 DEF NavigateBackFromKey, BackFromKey
<1>6. CASE BackFromUsage
  <2> DEFINE u == [usersList EXCEPT !.sort = OverviewOnly(usersList.sort)]
             a == BuildAdminUsersPath(u)
             r == At("users", NoId)
  <2>1. u \in ListState
    BY OverviewOnlyIs DEF RouteInv
  <2>2. NavigateToPath(a)
    BY <1>6 DEF BackFromUsage
  <2> HIDE DEF u
  <2>3. a.path = <<"users">> /\ a.params \in ParamSet /\ a.params.view = "none"
    BY <2>1, UsersWritten DEF BuildAdminUsersPath
  <2>4. "users" \in Module
    BY DEF Module
  <2>5. r \in RouteSet /\ r.name = "users" /\ ParseAdminPath(<<"users">>) = r
    BY <2>4, RouteSetIs, PathRoutes
  <2> HIDE DEF a, r
  <2>6. r.name \notin UserPageName \cup {"token", "key"}
    BY <2>5 DEF UserPageName
  <2> QED
    BY <2>2, <2>3, <2>5, <2>6, BackInv
<1>7. CASE NavigateUnboundTokenUsage
  <2> DEFINE t == [q |-> NothingTyped, page |-> 1, sort |-> NoSort]
  <2>1. NothingTyped \in Text /\ 1 \in Page /\ NoSort \in SortsBy(TokenSort)
    BY SortSets, AdminRoutesConstants DEF Text, Page
  <2>2. t \in TokenListState
    BY <2>1 DEF TokenListState
  <2> QED
    BY <1>1, <1>7, <2>2 DEF NavigateUnboundTokenUsage
<1> QED
  BY <1>3, <1>4, <1>5, <1>6, <1>7

\* The tag pages hand on the list in their addresses.
LEMMA TagPagesInv ==
    ASSUME RouteInv, NEW path, path # <<"users", "usage">>, NEW r \in RouteSet, ParseAdminPath(path) = r,
           r.name \in {"user-tags", "user-tag-create", "user-tag-edit"},
           adminRoute.name \in {"user", "user-tags", "user-tag-create", "user-tag-edit"},
           NavigateToPath(AppendUsersContext(path, UsersFrom(address), UsersCollection(address)))
    PROVE  RouteInv'
<1> DEFINE a == AppendUsersContext(path, UsersFrom(address), UsersCollection(address))
<1>1. UsersFrom(address) \in ListState /\ UsersCollection(address) \in {"users", "usage"}
  BY ReadBack DEF RouteInv
<1>2. /\ a.path = path /\ a.params \in ParamSet /\ UsersFrom(a) = UsersFrom(address)
      /\ UsersCollection(a) = UsersCollection(address) /\ NavigateToPath(a)
  BY <1>1, UsersCarried
<1> HIDE DEF a
<1>3. CameFrom(r) = cameFrom
  <2>1. adminRoute.name # "users"
    OBVIOUS
  <2>2. r.name # "user" /\ r.name # "token" /\ r.name # "key"
    OBVIOUS
  <2> QED
    BY <2>1, <2>2 DEF CameFrom
<1>4. LeadsBack(r, a, cameFrom)
  <2>1. LeadsBack(adminRoute, address, cameFrom) /\ r.name \in UserPageName
    BY DEF RouteInv, UserPageName
  <2>2. adminRoute.name # "token" /\ adminRoute.name # "key"
    OBVIOUS
  <2> QED
    BY <1>2, <2>1, <2>2 DEF LeadsBack
<1>5. r.name # "users"
  OBVIOUS
<1> QED
  BY <1>2, <1>3, <1>4, <1>5, MoveInv

LEMMA TagsInv ==
    ASSUME RouteInv, NavigateUserTags \/ NavigateUserTagCreate \/ \E id \in RouteId : NavigateUserTagEdit(id)
    PROVE  RouteInv'
<1>0. At("user-tags", NoId) \in RouteSet /\ At("user-tag-create", NoId) \in RouteSet
      /\ At("user-tags", NoId).name = "user-tags" /\ At("user-tag-create", NoId).name = "user-tag-create"
  BY RouteSetIs DEF ListName
<1>1. CASE NavigateUserTags
  <2>1. <<"users", "tags">> # <<"users", "usage">> /\ ParseAdminPath(<<"users", "tags">>) = At("user-tags", NoId)
    BY PathRoutes
  <2>2. CASE adminRoute.name = "users"
    <3> DEFINE a == AppendUsersContext(<<"users", "tags">>, usersList, "users")
               r == At("user-tags", NoId)
    <3>1. NavigateToPath(a)
      BY <1>1, <2>2, CollectionIs DEF NavigateUserTags, UserTagsPath
    <3>2. a.path = <<"users", "tags">> /\ a.params \in ParamSet /\ UsersFrom(a) = usersList /\ UsersCollection(a) = "users"
      BY <2>1, UsersCarried DEF RouteInv
    <3>3. r \in RouteSet /\ r.name = "user-tags" /\ ParseAdminPath(a.path) = r
      BY <1>0, <2>1, <3>2
    <3> HIDE DEF a, r
    <3>4. CameFrom(r) = [list |-> "users", state |-> usersList]
      BY <2>2, <3>3 DEF CameFrom, ShownList, UsersCollectionRoute
    <3>5. usersList.sort \in SortsBy(OverviewSort)
      BY <2>2 DEF RouteInv, OverviewInv
    <3>6. LeadsBack(r, a, CameFrom(r)) /\ adminRoute # r
      BY <2>2, <3>2, <3>3, <3>4, <3>5 DEF LeadsBack, UserPageName
    <3> QED
      BY <3>1, <3>2, <3>3, <3>6, MoveInv
  <2>3. CASE adminRoute.name # "users"
    <3>1. /\ adminRoute.name \in {"user", "user-tags", "user-tag-create", "user-tag-edit"}
          /\ NavigateToPath(AppendUsersContext(<<"users", "tags">>, UsersFrom(address), UsersCollection(address)))
      BY <1>1, <2>3, CollectionIs DEF NavigateUserTags, UserTagsPath
    <3> QED
      BY <1>0, <2>1, <3>1, TagPagesInv
  <2> QED
    BY <2>2, <2>3
<1>2. CASE NavigateUserTagCreate
  <2>1. <<"users", "tags", "new">> # <<"users", "usage">>
    OBVIOUS
  <2>2. ParseAdminPath(<<"users", "tags", "new">>) = At("user-tag-create", NoId)
    BY PathRoutes
  <2>3. /\ adminRoute.name \in {"user", "user-tags", "user-tag-create", "user-tag-edit"}
        /\ NavigateToPath(AppendUsersContext(<<"users", "tags", "new">>, UsersFrom(address), UsersCollection(address)))
    BY <1>2 DEF NavigateUserTagCreate, UserTagCreatePath, OnTags
  <2> QED
    BY <1>0, <2>1, <2>2, <2>3, TagPagesInv
<1>3. ASSUME NEW id \in RouteId, NavigateUserTagEdit(id) PROVE RouteInv'
  <2>1. <<"users", "tags", id>> # <<"users", "usage">>
    OBVIOUS
  <2>2. /\ ParseAdminPath(<<"users", "tags", id>>) = At("user-tag-edit", id)
        /\ At("user-tag-edit", id) \in RouteSet /\ At("user-tag-edit", id).name = "user-tag-edit"
    BY PathRoutes, RouteSetIs DEF PageName
  <2>3. /\ adminRoute.name \in {"user", "user-tags", "user-tag-create", "user-tag-edit"}
        /\ NavigateToPath(AppendUsersContext(<<"users", "tags", id>>, UsersFrom(address), UsersCollection(address)))
    BY <1>3 DEF NavigateUserTagEdit, UserTagEditPath, OnTags
  <2> QED
    BY <2>1, <2>2, <2>3, TagPagesInv
<1> QED
  BY <1>1, <1>2, <1>3

\* The lists: what is searched for is both shown and written.
LEMMA UsersSearchInv ==
    ASSUME RouteInv, NEW u \in ListState, adminRoute.name = "users" => u.sort \in SortsBy(OverviewSort),
           NavigateUsersSearch(u)
    PROVE  RouteInv'
<1> DEFINE a == BuildUsersCollectionPath(u)
           r == At(IF Collection = "usage" THEN "user-usage" ELSE "users", NoId)
<1>1. /\ r \in RouteSet /\ ParseAdminPath(a.path) = r /\ r.name \in {"user-usage", "users"}
      /\ a.params \in ParamSet /\ a.params.view = "none"
  BY UsersPathIs
<1>2. /\ address' = a /\ adminRoute' = ParseAdminPath(a.path) /\ cameFrom' = NoList
      /\ usersList' = IF IsSameAdminRoute(adminRoute, ParseAdminPath(a.path)) THEN u ELSE UsersShownAt(ParseAdminPath(a.path), a)
      /\ searchInput' = [searchInput EXCEPT !.users = u.q]
      /\ UNCHANGED <<unboundList, keysList>>
  BY DEF NavigateUsersSearch
<1> HIDE DEF a, r
<1>3. usersList' = IF IsSameAdminRoute(adminRoute, r) THEN u ELSE UsersShownAt(r, a)
  BY <1>1, <1>2
<1>4. UsersShownAt(r, a) \in ListState /\ (r.name = "users" => UsersShownAt(r, a).sort \in SortsBy(OverviewSort))
  BY <1>1, SyncIn DEF RouteInv
<1>5. IsSameAdminRoute(adminRoute, r) => adminRoute.name = r.name
  BY DEF IsSameAdminRoute
<1>6. usersList' \in ListState /\ (r.name = "users" => usersList'.sort \in SortsBy(OverviewSort))
  BY <1>3, <1>4, <1>5
<1>7. searchInput' \in SearchSet
  <2>1. u.q \in Typed
    BY TextIn DEF ListState
  <2> QED
    BY <1>2, <2>1 DEF RouteInv, SearchSet
<1>8. RouteOfAddress' /\ adminRoute' = r
  BY <1>1, <1>2 DEF RouteOfAddress
<1>9. OverviewInv(adminRoute, address, usersList)'
  BY <1>1, <1>2, <1>6, <1>8 DEF OverviewInv
<1>10. LeadsBack(adminRoute, address, cameFrom)'
  BY <1>2 DEF LeadsBack
<1> QED
  BY <1>1, <1>2, <1>6, <1>7, <1>8, <1>9, <1>10 DEF RouteInv

LEMMA UserPageIn ==
    ASSUME NEW u \in ListState, NEW p \in Page
    PROVE  [u EXCEPT !.page = p] \in ListState /\ [u EXCEPT !.page = p].sort = u.sort
  BY DEF ListState
LEMMA UserQueryIn ==
    ASSUME NEW u \in ListState, NEW q \in Text, NEW p \in Page
    PROVE  [u EXCEPT !.q = q, !.page = p] \in ListState /\ [u EXCEPT !.q = q, !.page = p].sort = u.sort
  BY DEF ListState
LEMMA UserTagIn ==
    ASSUME NEW u \in ListState, NEW q \in Text, NEW t \in RouteTag, NEW p \in Page
    PROVE  /\ [u EXCEPT !.q = q, !.tagId = t, !.page = p] \in ListState
           /\ [u EXCEPT !.q = q, !.tagId = t, !.page = p].sort = u.sort
  BY DEF ListState

LEMMA FirstPageIn == 1 \in Page /\ NothingTyped \in Text
  BY AdminRoutesConstants DEF Page, Text

LEMMA NextSortIn ==
    ASSUME NEW fields, NEW f \in fields, NEW s PROVE NextSort(s, f) \in SortsBy(fields)
<1>1. <<f, "asc">> \in SortsBy(fields) /\ <<f, "desc">> \in SortsBy(fields) /\ NoSort \in SortsBy(fields)
  BY DEF SortsBy, Direction
<1>2. NoSort # <<f, "asc">> /\ <<f, "desc">> # <<f, "asc">>
  BY DEF NoSort
<1> DEFINE g1 == s = <<f, "desc">> \/ (s = NoSort /\ f \in DefaultSort)
           g2 == s = <<f, "asc">>
<1>3. g1 \in BOOLEAN /\ g2 \in BOOLEAN /\ ~(g1 /\ g2)
  BY <1>2
<1>4. NextSort(s, f) = CASE g1 -> <<f, "asc">> [] g2 -> NoSort [] OTHER -> <<f, "desc">>
  BY DEF NextSort
<1> HIDE DEF g1, g2
<1>5. NextSort(s, f) = <<f, "asc">> \/ NextSort(s, f) = NoSort \/ NextSort(s, f) = <<f, "desc">>
  BY <1>3, <1>4
<1> QED
  BY <1>1, <1>5

LEMMA UsersListInv ==
    ASSUME RouteInv,
           \/ \E p \in Page : GoToUsersPage(p)
           \/ ApplyUserSearch \/ ResetUserSearch
           \/ \E f \in OverviewSort \cup UsageSort : ToggleUsersSort(f)
           \/ \E tag \in RouteTag, text \in QueryText : ShowUsersOfTag(tag, text)
    PROVE  RouteInv'
<1>0. usersList \in ListState /\ 1 \in Page /\ NothingTyped \in Text
      /\ (adminRoute.name = "users" => usersList.sort \in SortsBy(OverviewSort))
  BY FirstPageIn DEF RouteInv, OverviewInv
<1>1. ASSUME NEW p \in Page, GoToUsersPage(p) PROVE RouteInv'
  <2> DEFINE u == [usersList EXCEPT !.page = p]
  <2>1. u \in ListState /\ u.sort = usersList.sort
    BY <1>0, UserPageIn
  <2>2. NavigateUsersSearch(u)
    BY <1>1 DEF GoToUsersPage
  <2> HIDE DEF u
  <2> QED
    BY <1>0, <2>1, <2>2, UsersSearchInv
<1>2. CASE ApplyUserSearch
  <2> DEFINE q == Trim(searchInput.users)
             u == [usersList EXCEPT !.q = q, !.page = 1]
  <2>1. searchInput.users \in Typed
    BY DEF RouteInv, SearchSet
  <2>2. q \in Text
    BY <2>1, TrimIs
  <2>3. NavigateUsersSearch(u)
    BY <1>2 DEF ApplyUserSearch
  <2> HIDE DEF q
  <2>4. u \in ListState /\ u.sort = usersList.sort
    BY <1>0, <2>2, UserQueryIn
  <2> HIDE DEF u
  <2> QED
    BY <1>0, <2>3, <2>4, UsersSearchInv
<1>3. CASE ResetUserSearch
  <2> DEFINE u == [usersList EXCEPT !.q = NothingTyped, !.tagId = AnyTag, !.page = 1]
  <2>1. u \in ListState /\ u.sort = usersList.sort
    BY <1>0 DEF ListState
  <2>2. NavigateUsersSearch(u)
    BY <1>3 DEF ResetUserSearch
  <2> HIDE DEF u
  <2> QED
    BY <1>0, <2>1, <2>2, UsersSearchInv
<1>4. ASSUME NEW f \in OverviewSort \cup UsageSort, ToggleUsersSort(f) PROVE RouteInv'
  <2> DEFINE s == NextSort(usersList.sort, f)
             u == [usersList EXCEPT !.page = 1, !.sort = s]
  <2>1. s \in SortsBy(OverviewSort \cup UsageSort)
    BY NextSortIn
  <2>2. adminRoute.name = "users" => s \in SortsBy(OverviewSort)
    <3> SUFFICES ASSUME adminRoute.name = "users" PROVE s \in SortsBy(OverviewSort)
      OBVIOUS
    <3>1. f \in OverviewSort
      BY <1>4 DEF ToggleUsersSort, OnUsage
    <3> QED
      BY <3>1, NextSortIn
  <2>3. NavigateUsersSearch(u)
    BY <1>4 DEF ToggleUsersSort
  <2> HIDE DEF s
  <2>4. u \in ListState /\ u.sort = s
    <3>1. ASSUME NEW x \in SortsBy(OverviewSort \cup UsageSort)
          PROVE  [usersList EXCEPT !.page = 1, !.sort = x] \in ListState
                 /\ [usersList EXCEPT !.page = 1, !.sort = x].sort = x
      BY <1>0 DEF ListState
    <3> QED
      BY <2>1, <3>1
  <2> HIDE DEF u
  <2> QED
    BY <2>2, <2>3, <2>4, UsersSearchInv
<1>5. ASSUME NEW tag \in RouteTag, NEW text \in QueryText, ShowUsersOfTag(tag, text) PROVE RouteInv'
  <2> DEFINE u == [usersList EXCEPT !.q = text, !.tagId = tag, !.page = 1]
  <2>1. text \in Text
    BY DEF Text
  <2>2. u \in ListState
    BY <1>0, <2>1, UserTagIn
  <2>3. NavigateUsersSearch(u) /\ adminRoute.name # "users"
    BY <1>5 DEF ShowUsersOfTag, OnTags
  <2> HIDE DEF u
  <2> QED
    BY <2>2, <2>3, UsersSearchInv
<1> QED
  BY <1>1, <1>2, <1>3, <1>4, <1>5

LEMMA UnboundSearchInv ==
    ASSUME RouteInv, NEW t \in TokenListState, NavigateUnboundTokenUsageSearch(t) PROVE RouteInv'
<1> DEFINE a == UnboundTokenUsagePath(t)
           r == At("unbound-token-usage", NoId)
<1>1. r \in RouteSet /\ r.name = "unbound-token-usage" /\ ParseAdminPath(a.path) = r /\ a.params \in ParamSet
  BY TokensPathIs
<1>2. /\ adminRoute.name = "unbound-token-usage" /\ unboundList' = t /\ address' = a
      /\ searchInput' = [searchInput EXCEPT !.unbound = t.q]
      /\ UNCHANGED <<adminRoute, usersList, keysList, cameFrom>>
  BY DEF NavigateUnboundTokenUsageSearch
<1>3. adminRoute = r
  <2>1. adminRoute = At(adminRoute.name, adminRoute.id) /\ adminRoute.id = NoId
    BY <1>2, RouteSetIs DEF RouteInv, ListName
  <2> QED
    BY <1>2, <2>1
<1> HIDE DEF a, r
<1>4. cameFrom = NoList
  BY <1>2 DEF RouteInv, LeadsBack, UserPageName
<1>5. searchInput' \in SearchSet
  <2>1. t.q \in Typed
    BY TextIn DEF TokenListState
  <2> QED
    BY <1>2, <2>1 DEF RouteInv, SearchSet
<1>6. RouteOfAddress' /\ OverviewInv(adminRoute, address, usersList)' /\ LeadsBack(adminRoute, address, cameFrom)'
  BY <1>1, <1>2, <1>3, <1>4 DEF RouteOfAddress, OverviewInv, LeadsBack
<1> QED
  BY <1>1, <1>2, <1>5, <1>6 DEF RouteInv

LEMMA UnboundListInv ==
    ASSUME RouteInv,
           \/ \E p \in Page : GoToUnboundPage(p)
           \/ ApplyUnboundSearch \/ ResetUnboundSearch \/ \E f \in TokenSort : ToggleUnboundSort(f)
    PROVE  RouteInv'
<1>0. unboundList \in TokenListState /\ 1 \in Page /\ NothingTyped \in Text /\ searchInput.unbound \in Typed
  BY FirstPageIn DEF RouteInv, SearchSet
<1>1. /\ \A p \in Page : [unboundList EXCEPT !.page = p] \in TokenListState
      /\ \A q \in Text : [unboundList EXCEPT !.q = q, !.page = 1] \in TokenListState
      /\ \A s \in SortsBy(TokenSort) : [unboundList EXCEPT !.page = 1, !.sort = s] \in TokenListState
  BY <1>0 DEF TokenListState
<1>2. Trim(searchInput.unbound) \in Text
  BY <1>0, TrimIs
<1>3. ASSUME NEW p \in Page, GoToUnboundPage(p) PROVE RouteInv'
  BY <1>1, <1>3, UnboundSearchInv DEF GoToUnboundPage
<1>4. CASE ApplyUnboundSearch
  BY <1>1, <1>2, <1>4, UnboundSearchInv DEF ApplyUnboundSearch
<1>5. CASE ResetUnboundSearch
  BY <1>0, <1>1, <1>5, UnboundSearchInv DEF ResetUnboundSearch
<1>6. ASSUME NEW f \in TokenSort, ToggleUnboundSort(f) PROVE RouteInv'
  BY <1>1, <1>6, NextSortIn, UnboundSearchInv DEF ToggleUnboundSort
<1> QED
  BY <1>3, <1>4, <1>5, <1>6

LEMMA KeysSearchInv ==
    ASSUME RouteInv, NEW k \in KeysState, NavigateKeysList(k) PROVE RouteInv'
<1> DEFINE a == BuildAdminKeysPath(k)
           r == At("keys", NoId)
<1>1. r \in RouteSet /\ r.name = "keys" /\ ParseAdminPath(a.path) = r /\ a.params \in ParamSet
  BY KeysPathIs
<1>2. /\ adminRoute.name = "keys" /\ keysList' = k /\ address' = a
      /\ searchInput' = [searchInput EXCEPT !.keys = k.ip]
      /\ UNCHANGED <<adminRoute, usersList, unboundList, cameFrom>>
  BY DEF NavigateKeysList
<1>3. adminRoute = r
  <2>1. adminRoute = At(adminRoute.name, adminRoute.id) /\ adminRoute.id = NoId
    BY <1>2, RouteSetIs DEF RouteInv, Module
  <2> QED
    BY <1>2, <2>1
<1> HIDE DEF a, r
<1>4. cameFrom = NoList
  BY <1>2 DEF RouteInv, LeadsBack, UserPageName
<1>5. searchInput' \in SearchSet
  <2>1. k.ip \in Typed
    BY TextIn DEF KeysState
  <2> QED
    BY <1>2, <2>1 DEF RouteInv, SearchSet
<1>6. RouteOfAddress' /\ OverviewInv(adminRoute, address, usersList)' /\ LeadsBack(adminRoute, address, cameFrom)'
  BY <1>1, <1>2, <1>3, <1>4 DEF RouteOfAddress, OverviewInv, LeadsBack
<1> QED
  BY <1>1, <1>2, <1>5, <1>6 DEF RouteInv

LEMMA KeysListInv ==
    ASSUME RouteInv,
           \/ \E p \in Page : GoToKeysPage(p)
           \/ \E n \in KeysPerPage : ChangeKeysPerPage(n)
           \/ \E v \in KeyFilter : ToggleKeyFilter(v)
           \/ \E kind \in {"group", "status", "region"} : ClearKeyFilters(kind)
           \/ ClearKeyRegistrationIp \/ KeyIpDebounced
    PROVE  RouteInv'
<1>0. keysList \in KeysState /\ 1 \in Page /\ NothingTyped \in Text /\ searchInput.keys \in Typed
      /\ keysList.picked \subseteq KeyFilter
  BY FirstPageIn DEF RouteInv, SearchSet, KeysState
<1>1. /\ \A p \in Page : [keysList EXCEPT !.page = p] \in KeysState
      /\ \A n \in KeysPerPage : [keysList EXCEPT !.page = 1, !.perPage = n] \in KeysState
      /\ \A q \in Text : [keysList EXCEPT !.page = 1, !.ip = q] \in KeysState
      /\ \A picked \in SUBSET KeyFilter : [keysList EXCEPT !.page = 1, !.picked = picked] \in KeysState
  BY <1>0 DEF KeysState
<1>2. Trim(searchInput.keys) \in Text
  BY <1>0, TrimIs
<1>3. ASSUME NEW p \in Page, GoToKeysPage(p) PROVE RouteInv'
  BY <1>1, <1>3, KeysSearchInv DEF GoToKeysPage
<1>4. ASSUME NEW n \in KeysPerPage, ChangeKeysPerPage(n) PROVE RouteInv'
  BY <1>1, <1>4, KeysSearchInv DEF ChangeKeysPerPage
<1>5. ASSUME NEW v \in KeyFilter, ToggleKeyFilter(v) PROVE RouteInv'
  <2> DEFINE picked == IF v \in keysList.picked THEN keysList.picked \ {v} ELSE keysList.picked \cup {v}
  <2>1. picked \in SUBSET KeyFilter
    BY <1>0
  <2>2. NavigateKeysList([keysList EXCEPT !.page = 1, !.picked = picked])
    BY <1>5 DEF ToggleKeyFilter
  <2> HIDE DEF picked
  <2> QED
    BY <1>1, <2>1, <2>2, KeysSearchInv
<1>6. ASSUME NEW kind, ClearKeyFilters(kind) PROVE RouteInv'
  <2> DEFINE picked == {v \in keysList.picked : v[1] # kind}
  <2>1. picked \in SUBSET KeyFilter
    BY <1>0
  <2>2. NavigateKeysList([keysList EXCEPT !.page = 1, !.picked = picked])
    BY <1>6 DEF ClearKeyFilters
  <2> HIDE DEF picked
  <2> QED
    BY <1>1, <2>1, <2>2, KeysSearchInv
<1>7. CASE ClearKeyRegistrationIp
  BY <1>0, <1>1, <1>7, KeysSearchInv DEF ClearKeyRegistrationIp
<1>8. CASE KeyIpDebounced
  BY <1>1, <1>2, <1>8, KeysSearchInv DEF KeyIpDebounced
<1> QED
  BY <1>3, <1>4, <1>5, <1>6, <1>7, <1>8

\* Typing, and the text the list of users takes 250 ms later, leave the address alone.
LEMMA TypingInv ==
    ASSUME RouteInv, UsersQueryDebounced \/ \E box \in {"users", "unbound", "keys"}, t \in Typed : TypeSearch(box, t)
    PROVE  RouteInv'
<1>1. CASE UsersQueryDebounced
  <2> DEFINE q == Trim(searchInput.users)
  <2>1. q \in Text
    <3>1. searchInput.users \in Typed
      BY DEF RouteInv, SearchSet
    <3> QED
      BY <3>1, TrimIs
  <2>2. /\ usersList' = [usersList EXCEPT !.q = q, !.page = 1]
        /\ UNCHANGED <<address, adminRoute, unboundList, keysList, searchInput, cameFrom>>
    BY <1>1 DEF UsersQueryDebounced
  <2> HIDE DEF q
  <2>3. usersList' \in ListState /\ usersList'.sort = usersList.sort
    BY <2>1, <2>2, UserQueryIn, FirstPageIn DEF RouteInv
  <2> QED
    BY <2>2, <2>3 DEF RouteInv, RouteOfAddress, OverviewInv
<1>2. ASSUME NEW box \in {"users", "unbound", "keys"}, NEW t \in Typed, TypeSearch(box, t) PROVE RouteInv'
  <2>1. /\ searchInput' = [searchInput EXCEPT ![box] = t]
        /\ UNCHANGED <<address, adminRoute, usersList, unboundList, keysList, cameFrom>>
    BY <1>2 DEF TypeSearch
  <2>2. searchInput' \in SearchSet
    BY <2>1 DEF RouteInv, SearchSet
  <2> QED
    BY <2>1, <2>2 DEF RouteInv, RouteOfAddress, OverviewInv
<1> QED
  BY <1>1, <1>2

LEMMA PopStateInv ==
    ASSUME RouteInv, NEW a \in HistoryEntry, OnPopState(a) PROVE RouteInv'
<1> DEFINE r == ParseAdminPath(a.path)
<1>1. r \in RouteSet /\ a.params \in ParamSet /\ a.params.view = "none"
  <2>1. ASSUME NEW m \in {"tokens", "users", "keys"}, a = Address(<<m>>, NoParams)
        PROVE  r \in RouteSet /\ a.params \in ParamSet /\ a.params.view = "none"
    <3>1. m \in Module
      BY DEF Module
    <3>2. a.path = <<m>> /\ a.params \in ParamSet /\ a.params.view = "none"
      BY <2>1, PlainAddress
    <3> QED
      BY <3>1, <3>2, PathRoutes, RouteSetIs
  <2>2. ASSUME NEW u \in ListState, a = BuildAdminUsersPath(u)
        PROVE  r \in RouteSet /\ a.params \in ParamSet /\ a.params.view = "none"
    <3>1. a.path = <<"users">> /\ a.params \in ParamSet /\ a.params.view = "none"
      BY <2>2, UsersWritten DEF BuildAdminUsersPath
    <3>2. "users" \in Module
      BY DEF Module
    <3> QED
      BY <3>1, <3>2, PathRoutes, RouteSetIs
  <2>3. ASSUME NEW k \in KeysState, a = BuildAdminKeysPath(k)
        PROVE  r \in RouteSet /\ a.params \in ParamSet /\ a.params.view = "none"
    <3>1. a.path = <<"keys">> /\ a.params \in ParamSet /\ a.params.view = "none"
      BY <2>3, KeysWritten DEF BuildAdminKeysPath
    <3>2. "keys" \in Module
      BY DEF Module
    <3> QED
      BY <3>1, <3>2, PathRoutes, RouteSetIs
  <2> HIDE DEF r
  <2> QED
    BY <2>1, <2>2, <2>3 DEF HistoryEntry
<1>2. /\ address' = a /\ adminRoute' = r /\ cameFrom' = NoList
      /\ usersList' = SyncUsers(r, a) /\ unboundList' = SyncUnbound(r, a) /\ keysList' = SyncKeys(r, a)
      /\ searchInput' = SyncInput(r, a)
  BY DEF OnPopState, Sync
<1>3. RouteOfAddress'
  BY <1>2 DEF RouteOfAddress
<1> HIDE DEF r
<1>4. /\ usersList' \in ListState /\ unboundList' \in TokenListState /\ keysList' \in KeysState
      /\ searchInput' \in SearchSet
  BY <1>1, <1>2, SyncIn DEF RouteInv
<1>5. OverviewInv(adminRoute, address, usersList)'
  <2>1. r.name = "users" => usersList' = UsersShownAt(r, a)
    BY <1>2 DEF SyncUsers, UsersCollectionRoute
  <2>2. r.name = "users" => UsersShownAt(r, a).sort \in SortsBy(OverviewSort)
    BY <1>1, SyncIn DEF RouteInv
  <2> QED
    BY <1>1, <1>2, <2>1, <2>2 DEF OverviewInv
<1>6. LeadsBack(adminRoute, address, cameFrom)'
  BY <1>2 DEF LeadsBack
<1> QED
  BY <1>1, <1>2, <1>3, <1>4, <1>5, <1>6 DEF RouteInv

\* A page that starts at an address shows what the address says.
LEMMA RouteInitInv == RouteInit => RouteInv
<1> SUFFICES ASSUME RouteInit PROVE RouteInv
  OBVIOUS
<1>1. adminRoute \in RouteSet /\ address.params \in ParamSet /\ address.params.view = "none"
      /\ (adminRoute.name = "users" => address = Address(<<"users">>, NoParams))
  <2>1. ASSUME NEW m \in {"dashboard", "users"}, address = Address(<<m>>, NoParams)
        PROVE  /\ adminRoute \in RouteSet /\ address.params \in ParamSet /\ address.params.view = "none"
               /\ adminRoute.name = m
    <3>1. m \in Module
      BY DEF Module
    <3>2. address.path = <<m>> /\ address.params \in ParamSet /\ address.params.view = "none"
      BY <2>1, PlainAddress
    <3>3. adminRoute = At(m, NoId)
      BY <3>1, <3>2, PathRoutes DEF RouteInit
    <3> QED
      BY <3>1, <3>2, <3>3, RouteSetIs
  <2>2. ASSUME NEW k \in KeysState, address = BuildAdminKeysPath(k)
        PROVE  /\ adminRoute \in RouteSet /\ address.params \in ParamSet /\ address.params.view = "none"
               /\ adminRoute.name = "keys"
    <3>1. address.path = <<"keys">> /\ address.params \in ParamSet /\ address.params.view = "none"
      BY <2>2, KeysWritten DEF BuildAdminKeysPath
    <3>2. "keys" \in Module
      BY DEF Module
    <3>3. adminRoute = At("keys", NoId)
      BY <3>1, <3>2, PathRoutes DEF RouteInit
    <3> QED
      BY <3>1, <3>2, <3>3, RouteSetIs
  <2>3. \/ \E m \in {"dashboard", "users"} : address = Address(<<m>>, NoParams)
        \/ \E k \in KeysState : address = BuildAdminKeysPath(k)
    BY DEF RouteInit
  <2>4. CASE \E m \in {"dashboard", "users"} : address = Address(<<m>>, NoParams)
    <3>1. PICK m \in {"dashboard", "users"} : address = Address(<<m>>, NoParams)
      BY <2>4
    <3>2. /\ adminRoute \in RouteSet /\ address.params \in ParamSet /\ address.params.view = "none"
          /\ adminRoute.name = m
      BY <2>1, <3>1
    <3> QED
      BY <3>1, <3>2
  <2>5. CASE \E k \in KeysState : address = BuildAdminKeysPath(k)
    <3>1. /\ adminRoute \in RouteSet /\ address.params \in ParamSet /\ address.params.view = "none"
          /\ adminRoute.name = "keys"
      BY <2>2, <2>5
    <3> QED
      BY <3>1
  <2> QED
    BY <2>3, <2>4, <2>5
<1>2. /\ usersList = UsersFrom(address) /\ unboundList = UnboundFrom(address) /\ keysList = KeysFrom(address)
      /\ adminRoute = ParseAdminPath(address.path) /\ cameFrom = NoList
      /\ searchInput = [users |-> UsersFrom(address).q, unbound |-> UnboundFrom(address).q, keys |-> KeysFrom(address).ip]
  BY DEF RouteInit
<1>3. usersList \in ListState /\ unboundList \in TokenListState /\ keysList \in KeysState
  BY <1>1, <1>2, ReadBack
<1>4. searchInput \in SearchSet
  <2>1. usersList.q \in Text /\ unboundList.q \in Text /\ keysList.ip \in Text
    BY <1>3 DEF ListState, TokenListState, KeysState
  <2>2. usersList.q \in Typed /\ unboundList.q \in Typed /\ keysList.ip \in Typed
    BY <2>1, TextIn
  <2> QED
    BY <1>2, <2>2 DEF SearchSet
<1>5. OverviewInv(adminRoute, address, usersList)
  <2> SUFFICES ASSUME adminRoute.name = "users" PROVE usersList.sort \in SortsBy(OverviewSort)
    BY <1>1 DEF OverviewInv
  <2>1. address.params = NoParams
    BY <1>1 DEF Address
  <2>2. NoParams.sort = NoSort
    BY DEF NoParams
  <2>3. UsersFrom(address).sort = NoSort
    BY <2>1, <2>2, SortSets DEF UsersFrom
  <2> QED
    BY <1>2, <2>3, SortSets
<1>6. RouteOfAddress /\ LeadsBack(adminRoute, address, cameFrom)
  BY <1>2 DEF RouteOfAddress, LeadsBack
<1> QED
  BY <1>1, <1>3, <1>4, <1>5, <1>6 DEF RouteInv

LEMMA RouteStepInv == RouteInv /\ [RouteNext]_routeVars => RouteInv'
<1> SUFFICES ASSUME RouteInv, [RouteNext]_routeVars PROVE RouteInv'
  OBVIOUS
<1>1. CASE UNCHANGED routeVars
  BY <1>1 DEF routeVars, RouteInv, RouteOfAddress, OverviewInv
<1>2. CASE RouteNext
  BY <1>2, NavigateModuleInv, NavigateKeyInv, NavigateTokenInv, NavigateUserInv, BacksInv, TagsInv,
     UsersListInv, UnboundListInv, KeysListInv, TypingInv, PopStateInv, Zenon DEF RouteNext
<1> QED
  BY <1>1, <1>2

\* What Back rebuilds from the address is the list the page was opened from.
LEMMA BackIsOrigin == RouteInv => BackShowsList
<1> SUFFICES ASSUME RouteInv, cameFrom # NoList PROVE BackShowsList
  BY DEF BackShowsList
<1> DEFINE back == CASE adminRoute.name = "token" -> BackFromToken
                     [] adminRoute.name = "key" -> BackFromKey
                     [] OTHER -> BackToUsers
           r == ParseAdminPath(back.path)
<1>0. UsersFrom(address) \in ListState /\ UnboundFrom(address) \in TokenListState /\ KeysFrom(address) \in KeysState
      /\ UsersCollection(address) \in {"users", "usage"}
  BY ReadBack DEF RouteInv
<1>1. SUFFICES ShownList(r, SyncUsers(r, back), SyncUnbound(r, back), SyncKeys(r, back)) = cameFrom
  BY DEF BackShowsList
<1>2. CASE adminRoute.name \in UserPageName
  <2>1. back = BackToUsers
    BY <1>2 DEF UserPageName
  <2>2. cameFrom = [list |-> IF UsersCollection(address) = "usage" THEN "user-usage" ELSE "users",
                    state |-> UsersFrom(address)]
        /\ (UsersCollection(address) = "users" => UsersFrom(address).sort \in SortsBy(OverviewSort))
    BY <1>2 DEF RouteInv, LeadsBack, UserPageName
  <2>3. Collection = UsersCollection(address)
    BY <1>2, CollectionIs DEF UserPageName
  <2>4. r.name = (IF Collection = "usage" THEN "user-usage" ELSE "users") /\ UsersFrom(back) = UsersFrom(address)
    BY <1>0, <2>1, UsersPathIs DEF BackToUsers
  <2> HIDE DEF back, r
  <2>5. UsersShownAt(r, back) = UsersFrom(address)
    <3>1. CASE r.name = "users"
      <4>1. UsersFrom(address).sort \in SortsBy(OverviewSort)
        BY <1>0, <2>2, <2>3, <2>4, <3>1
      <4> QED
        BY <1>0, <2>4, <3>1, <4>1, OverviewOnlyIs DEF UsersShownAt
    <3>2. CASE r.name # "users"
      BY <2>4, <3>2 DEF UsersShownAt
    <3> QED
      BY <3>1, <3>2
  <2>6. UsersCollectionRoute(r)
    BY <2>4 DEF UsersCollectionRoute
  <2>7. ShownList(r, SyncUsers(r, back), SyncUnbound(r, back), SyncKeys(r, back))
          = [list |-> r.name, state |-> UsersFrom(address)]
    <3>1. r.name # "unbound-token-usage" /\ r.name # "keys"
      BY <2>4
    <3> QED
      BY <2>5, <2>6, <3>1 DEF ShownList, SyncUsers
  <2> QED
    BY <2>2, <2>3, <2>4, <2>7
<1>3. CASE adminRoute.name = "token"
  <2>1. address.params.view = "unbound-usage" /\ cameFrom = [list |-> "unbound-token-usage", state |-> UnboundFrom(address)]
    BY <1>3 DEF RouteInv, LeadsBack, UserPageName
  <2>2. back = UnboundTokenUsagePath(UnboundFrom(address))
    BY <1>3, <2>1 DEF BackFromToken
  <2>3. r.name = "unbound-token-usage" /\ UnboundFrom(back) = UnboundFrom(address)
    BY <1>0, <2>2, TokensPathIs
  <2> HIDE DEF back, r
  <2> QED
    BY <2>1, <2>3 DEF ShownList, SyncUnbound, UsersCollectionRoute
<1>4. CASE adminRoute.name = "key"
  <2>1. cameFrom = [list |-> "keys", state |-> KeysFrom(address)]
    BY <1>4 DEF RouteInv, LeadsBack, UserPageName
  <2>2. back = BuildAdminKeysPath(KeysFrom(address))
    BY <1>4 DEF BackFromKey
  <2>3. r.name = "keys" /\ KeysFrom(back) = KeysFrom(address)
    BY <1>0, <2>2, KeysPathIs
  <2> HIDE DEF back, r
  <2> QED
    BY <2>1, <2>3 DEF ShownList, SyncKeys, UsersCollectionRoute
<1> QED
  BY <1>2, <1>3, <1>4 DEF RouteInv, LeadsBack

LEMMA RouteInvImplies == RouteInv => RouteTypeOK /\ RouteOfAddress /\ BackShowsList
<1> SUFFICES ASSUME RouteInv PROVE RouteTypeOK /\ RouteOfAddress /\ BackShowsList
  OBVIOUS
<1>1. adminRoute.name \in Module \cup ListName \cup PageName
  BY RouteSetIs DEF RouteInv
<1>2. adminRoute.name \in Module \cup {"token", "unbound-token-usage", "user-usage", "user", "user-tags",
                                       "user-tag-create", "user-tag-edit", "key"}
  BY <1>1 DEF ListName, PageName
<1> QED
  BY <1>2, BackIsOrigin DEF RouteInv, RouteTypeOK, SearchSet

------------------------------------------------------------------------------
(* The rows and charts of the proxy nodes.                                    *)

\* R is a strict order of all of D.
Orders(R, D) ==
    /\ \A x \in D : <<x, x>> \notin R
    /\ \A x, y \in D : x = y \/ <<x, y>> \in R \/ <<y, x>> \in R
    /\ \A x, y, z \in D : <<x, y>> \in R /\ <<y, z>> \in R => <<x, z>> \in R

\* As many different elements as a finite set has are all of them.
LEMMA ListCovers ==
    ASSUME NEW D, IsFiniteSet(D), NEW f \in [1 .. Cardinality(D) -> D],
           \A i, j \in 1 .. Cardinality(D) : f[i] = f[j] => i = j
    PROVE  \A x \in D : \E i \in 1 .. Cardinality(D) : f[i] = x
<1> DEFINE n == Cardinality(D)
<1>1. n \in Nat /\ IsFiniteSet(1 .. n) /\ Cardinality(1 .. n) = n
  BY FS_CardinalityType, FS_Interval
<1>2. f \in Injection(1 .. n, D)
  BY DEF Injection, IsInjective
<1>3. f \in Surjection(1 .. n, D)
  BY <1>1, <1>2, FS_Injection
<1> QED
  BY <1>3 DEF Surjection

\* A finite set can be listed in order: the place of an element is one after those before it.
LEMMA ListInOrder ==
    ASSUME NEW D, IsFiniteSet(D), NEW R, Orders(R, D)
    PROVE  \E f \in [1 .. Cardinality(D) -> D] :
               \A i, j \in 1 .. Cardinality(D) : i < j => <<f[i], f[j]>> \in R
<1> DEFINE n == Cardinality(D)
           Before(x) == {y \in D : <<y, x>> \in R}
           place == [x \in D |-> Cardinality(Before(x)) + 1]
<1>1. n \in Nat
  BY FS_CardinalityType
<1>2. ASSUME NEW x \in D PROVE IsFiniteSet(Before(x)) /\ Cardinality(Before(x)) \in Nat
  BY FS_Subset, FS_CardinalityType
<1>3. ASSUME NEW x \in D, NEW y \in D, <<x, y>> \in R PROVE place[x] < place[y]
  <2>1. Before(x) \in SUBSET Before(y) /\ x \in Before(y) /\ x \notin Before(x)
    BY <1>3 DEF Orders
  <2>2. Cardinality(Before(x)) <= Cardinality(Before(y)) /\ Cardinality(Before(x)) # Cardinality(Before(y))
    <3> HIDE DEF Before
    <3> QED
      BY <1>2, <2>1, FS_Subset
  <2> QED
    BY <1>2, <2>2
<1>4. ASSUME NEW x \in D PROVE place[x] \in 1 .. n
  <2>1. Before(x) \in SUBSET D /\ x \notin Before(x)
    BY DEF Orders
  <2>2. Cardinality(Before(x)) <= n /\ Cardinality(Before(x)) # n
    <3> HIDE DEF Before
    <3> QED
      BY <1>2, <2>1, FS_Subset
  <2> QED
    BY <1>1, <1>2, <2>2
<1>5. \A x, y \in D : place[x] = place[y] => x = y
  <2> SUFFICES ASSUME NEW x \in D, NEW y \in D, place[x] = place[y], x # y PROVE FALSE
    OBVIOUS
  <2>1. place[x] < place[y] \/ place[y] < place[x]
    BY <1>3 DEF Orders
  <2>2. place[x] \in Int /\ place[y] \in Int
    BY <1>4
  <2> HIDE DEF place
  <2> QED
    BY <2>1, <2>2
<1>6. \A i \in 1 .. n : \E x \in D : place[x] = i
  <2>1. place \in Injection(D, 1 .. n)
    <3>1. place \in [D -> 1 .. n]
      BY <1>4
    <3> HIDE DEF place
    <3> QED
      BY <1>5, <3>1 DEF Injection, IsInjective
  <2>2. IsFiniteSet(1 .. n) /\ Cardinality(1 .. n) = n
    BY <1>1, FS_Interval
  <2>3. place \in Surjection(D, 1 .. n)
    <3> HIDE DEF place
    <3> QED
      BY <2>1, <2>2, FS_Injection
  <2> HIDE DEF place
  <2> QED
    BY <2>3 DEF Surjection
<1> DEFINE f == [i \in 1 .. n |-> CHOOSE x \in D : place[x] = i]
<1>7. ASSUME NEW i \in 1 .. n PROVE f[i] \in D /\ place[f[i]] = i
  <2> HIDE DEF place
  <2> QED
    BY <1>6
<1>8. ASSUME NEW i \in 1 .. n, NEW j \in 1 .. n, i < j PROVE <<f[i], f[j]>> \in R
  <2>1. f[i] \in D /\ f[j] \in D /\ place[f[i]] = i /\ place[f[j]] = j
    BY <1>7
  <2> HIDE DEF place, f
  <2>2. f[i] # f[j]
    BY <1>8, <2>1
  <2>3. ~(<<f[j], f[i]>> \in R)
    BY <1>3, <1>8, <2>1
  <2> QED
    BY <2>1, <2>2, <2>3 DEF Orders
<1>9. f \in [1 .. n -> D]
  BY <1>7
<1> HIDE DEF f
<1> QED
  BY <1>8, <1>9

\* A finite set of integers has a greatest and a least element.
LEMMA ExtremesExist ==
    ASSUME NEW S \in SUBSET Int, IsFiniteSet(S), S # {}
    PROVE  /\ SetOps!Max(S) \in S /\ \A x \in S : x <= SetOps!Max(S)
           /\ SetOps!Min(S) \in S /\ \A x \in S : SetOps!Min(S) <= x
<1> DEFINE R == {p \in S \X S : p[1] < p[2]}
           n == Cardinality(S)
<1>1. Orders(R, S)
  BY DEF Orders
<1>2. n \in Nat /\ n # 0
  BY FS_CardinalityType, FS_EmptySet
<1> HIDE DEF R
<1>3. PICK f \in [1 .. n -> S] : \A i, j \in 1 .. n : i < j => <<f[i], f[j]>> \in R
  BY <1>1, ListInOrder
<1>4. \A i, j \in 1 .. n : i < j => f[i] < f[j]
  BY <1>3 DEF R
<1>t. \A i \in 1 .. n : f[i] \in S /\ f[i] \in Int
  BY <1>3
<1> HIDE DEF n
<1>5. ASSUME NEW i \in 1 .. n, NEW j \in 1 .. n, f[i] = f[j] PROVE i = j
  <2>1. ~(i < j) /\ ~(j < i)
    BY <1>4, <1>5, <1>t
  <2> QED
    BY <1>2, <2>1
<1>6. \A x \in S : \E i \in 1 .. n : f[i] = x
  BY <1>3, <1>5, ListCovers DEF n
<1>7. f[n] \in S /\ \A x \in S : f[n] >= x
  <2>1. n \in 1 .. n /\ \A i \in 1 .. n : i = n \/ i < n
    BY <1>2
  <2>2. \A i \in 1 .. n : f[n] >= f[i]
    BY <1>4, <1>t, <2>1
  <2> QED
    BY <1>6, <1>t, <2>1, <2>2
<1>8. f[1] \in S /\ \A x \in S : f[1] <= x
  <2>1. 1 \in 1 .. n /\ \A i \in 1 .. n : i = 1 \/ 1 < i
    BY <1>2
  <2>2. \A i \in 1 .. n : f[1] <= f[i]
    BY <1>4, <1>t, <2>1
  <2> QED
    BY <1>6, <1>t, <2>1, <2>2
<1>9. SetOps!Max(S) \in S /\ \A y \in S : SetOps!Max(S) >= y
  BY <1>7 DEF SetOps!Max
<1>10. SetOps!Min(S) \in S /\ \A y \in S : SetOps!Min(S) <= y
  BY <1>8 DEF SetOps!Min
<1> QED
  BY <1>9, <1>10

\* What the rows of a table of nodes are of.
NodesIn(nodes) ==
    /\ DOMAIN nodes \subseteq NodeKey
    /\ \A k \in DOMAIN nodes : nodes[k].penalized \in BOOLEAN /\ nodes[k].weight \in Int

\* The comparison by direct connection, penalty, weight and name, one after the other.
LEMMA BeforeIs ==
    ASSUME NEW nodes, NodesIn(nodes), NEW k \in DOMAIN nodes, NEW l \in DOMAIN nodes
    PROVE  RowBefore(nodes, k, l) <=>
               \/ nodes[k].source # "direct" /\ nodes[l].source = "direct"
               \/ /\ nodes[k].source = "direct" <=> nodes[l].source = "direct"
                  /\ \/ ~nodes[k].penalized /\ nodes[l].penalized
                     \/ /\ nodes[k].penalized <=> nodes[l].penalized
                        /\ \/ nodes[k].weight > nodes[l].weight
                           \/ nodes[k].weight = nodes[l].weight /\ k < l
<1> DEFINE a == nodes[k].source = "direct"
           b == nodes[l].source = "direct"
           p == nodes[k].penalized
           q == nodes[l].penalized
<1>1. a \in BOOLEAN /\ b \in BOOLEAN /\ p \in BOOLEAN /\ q \in BOOLEAN
  BY DEF NodesIn
<1>2. RowBefore(nodes, k, l) <=>
        \/ ~a /\ b
        \/ a = b /\ ~p /\ q
        \/ <<a, p>> = <<b, q>> /\ nodes[k].weight > nodes[l].weight
        \/ <<a, p>> = <<b, q>> /\ nodes[k].weight = nodes[l].weight /\ k < l
  BY Zenon DEF RowBefore
<1> HIDE DEF a, b, p, q
<1>3. <<a, p>> = <<b, q>> <=> a = b /\ p = q
  BY Zenon
<1>4. (a = b <=> (a <=> b)) /\ (p = q <=> (p <=> q))
  BY <1>1, Zenon
<1>5. RowBefore(nodes, k, l) <=>
        \/ ~a /\ b
        \/ (a <=> b) /\ (\/ ~p /\ q
                         \/ (p <=> q) /\ (\/ nodes[k].weight > nodes[l].weight
                                          \/ nodes[k].weight = nodes[l].weight /\ k < l))
  BY <1>2, <1>3, <1>4, Zenon
<1> QED
  BY <1>5, Zenon DEF a, b, p, q

\* It leaves no two rows undecided.
LEMMA RowsAreOrdered ==
    ASSUME NEW nodes, NodesIn(nodes)
    PROVE  Orders({p \in (DOMAIN nodes) \X (DOMAIN nodes) : RowBefore(nodes, p[1], p[2])}, DOMAIN nodes)
<1> DEFINE D == DOMAIN nodes
           d(k) == nodes[k].source = "direct"
           p(k) == nodes[k].penalized = TRUE
           w(k) == nodes[k].weight
           After(k, l) == \/ ~d(k) /\ d(l)
                          \/ /\ d(k) <=> d(l)
                             /\ \/ ~p(k) /\ p(l)
                                \/ (p(k) <=> p(l)) /\ (w(k) > w(l) \/ (w(k) = w(l) /\ k < l))
           R == {x \in D \X D : RowBefore(nodes, x[1], x[2])}
<1>1. \A k \in D : k \in Int /\ w(k) \in Int
  <2>1. NodeKey \subseteq Nat
    BY ProxyChartsConstants, Zenon
  <2>2. NodeKey \subseteq Int
    BY <2>1
  <2> QED
    BY <2>2, Zenon DEF NodesIn
<1>2. ASSUME NEW k \in D, NEW l \in D PROVE RowBefore(nodes, k, l) <=> After(k, l)
  <2>1. nodes[k].penalized \in BOOLEAN /\ nodes[l].penalized \in BOOLEAN
    BY DEF NodesIn
  <2>2. (p(k) <=> nodes[k].penalized) /\ (p(l) <=> nodes[l].penalized)
    BY <2>1, Zenon
  <2> QED
    BY <2>2, BeforeIs, Zenon
<1>3. ASSUME NEW k \in D, NEW l \in D PROVE <<k, l>> \in R <=> After(k, l)
  BY <1>2
<1> HIDE DEF R
<1>4. ASSUME NEW k \in D PROVE ~After(k, k)
  <2>1. ~(w(k) > w(k)) /\ ~(k < k)
    BY <1>1
  <2> QED
    BY <2>1, Zenon
<1>5. \A k, l \in D : k = l \/ After(k, l) \/ After(l, k)
  BY <1>1
<1>6. \A k, l, m \in D : After(k, l) /\ After(l, m) => After(k, m)
  BY <1>1
<1>7. Orders(R, D)
  <2> HIDE DEF After, D
  <2> QED
    BY <1>3, <1>4, <1>5, <1>6 DEF Orders
<1> QED
  BY <1>7 DEF R

\* So there is an order for sort to return, and it has every node.
LEMMA RowsAreSorted ==
    ASSUME NEW nodes, NodesIn(nodes)
    PROVE  LET n == Cardinality(DOMAIN nodes)
               sorted == NodeRows(nodes)
           IN /\ n \in Nat /\ sorted \in [1 .. n -> DOMAIN nodes]
              /\ \A i, j \in 1 .. n : i < j => RowBefore(nodes, sorted[i], sorted[j])
              /\ \A k \in DOMAIN nodes : \E i \in 1 .. n : sorted[i] = k
<1> DEFINE D == DOMAIN nodes
           n == Cardinality(D)
           R == {p \in D \X D : RowBefore(nodes, p[1], p[2])}
           sorted == NodeRows(nodes)
<1>1. IsFiniteSet(D)
  BY ProxyChartsConstants, FS_Subset DEF NodesIn
<1>2. Orders(R, D)
  BY RowsAreOrdered
<1>3. n \in Nat
  BY <1>1, FS_CardinalityType
<1>4. \E f \in [1 .. n -> D] : \A i, j \in DOMAIN f : i < j => RowBefore(nodes, f[i], f[j])
  <2> HIDE DEF R, D
  <2>1. PICK f \in [1 .. n -> D] : \A i, j \in 1 .. n : i < j => <<f[i], f[j]>> \in R
    BY <1>1, <1>2, ListInOrder
  <2>2. \A i, j \in DOMAIN f : i < j => RowBefore(nodes, f[i], f[j])
    BY <2>1 DEF R
  <2> QED
    BY <2>2
<1>5. sorted \in [1 .. n -> D] /\ \A i, j \in DOMAIN sorted : i < j => RowBefore(nodes, sorted[i], sorted[j])
  BY <1>4, Zenon DEF NodeRows
<1> HIDE DEF sorted
<1>6. \A i, j \in 1 .. n : i < j => RowBefore(nodes, sorted[i], sorted[j])
  BY <1>5
<1>7. ASSUME NEW i \in 1 .. n, NEW j \in 1 .. n, sorted[i] = sorted[j] PROVE i = j
  <2>1. <<sorted[i], sorted[i]>> \notin R
    BY <1>2, <1>5 DEF Orders
  <2>2. ~RowBefore(nodes, sorted[i], sorted[i])
    BY <1>5, <2>1
  <2>3. ~(i < j) /\ ~(j < i)
    BY <1>6, <1>7, <2>2
  <2> QED
    BY <1>3, <2>3
<1>8. \A k \in D : \E i \in 1 .. n : sorted[i] = k
  <2> HIDE DEF D
  <2> QED
    BY <1>1, <1>5, <1>7, ListCovers
<1> QED
  BY <1>3, <1>5, <1>6, <1>8 DEF sorted

\* The samples of the charts.
NodesSample ==
    [what : {"nodes"}, settings : [NodeKey -> {NoNode} \cup ChartKind], stats : [NodeKey -> {NoNode} \cup ChartKind]]

LEMMA RowsRank == ASSUME chartSample \in NodesSample PROVE RowsRankNodes
<1> DEFINE settings == chartSample.settings
           stats == chartSample.stats
           nodes == MergedNodes(settings, stats)
           n == Cardinality(DOMAIN nodes)
           sorted == NodeRows(nodes)
           panel == NodePanel(nodes)
           weight(i) == nodes[panel[i].node].weight
           rank(i) == CASE panel[i].badge = "direct" -> 2 [] panel[i].badge = "penalized" -> 1 [] OTHER -> 0
<1>1. settings \in [NodeKey -> {NoNode} \cup ChartKind] /\ stats \in [NodeKey -> {NoNode} \cup ChartKind]
  BY DEF NodesSample
<1>2. \A m \in {NoNode} \cup ChartKind : m.penalized \in BOOLEAN /\ m.weight \in Int
  <2>1. \A m \in ChartKind : m.penalized \in BOOLEAN /\ m.weight \in Int
    BY ProxyChartsConstants, Zenon
  <2>2. NoNode.penalized \in BOOLEAN /\ NoNode.weight \in Int
    BY DEF NoNode
  <2> QED
    BY <2>1, <2>2
<1>3. /\ DOMAIN nodes \subseteq NodeKey
      /\ \A k \in DOMAIN nodes : nodes[k] \in {NoNode} \cup ChartKind
      /\ \A k \in DOMAIN nodes : stats[k] # NoNode => nodes[k] = stats[k]
  <2> HIDE DEF settings, stats
  <2> QED
    BY <1>1 DEF MergedNodes
<1> HIDE DEF settings, nodes
<1>4. NodesIn(nodes)
  BY <1>2, <1>3 DEF NodesIn
<1>5. /\ n \in Nat /\ sorted \in [1 .. n -> DOMAIN nodes]
      /\ \A i, j \in 1 .. n : i < j => RowBefore(nodes, sorted[i], sorted[j])
      /\ \A k \in DOMAIN nodes : \E i \in 1 .. n : sorted[i] = k
  BY <1>4, RowsAreSorted
<1>6. panel = [i \in 1 .. n |-> [node |-> sorted[i], badge |-> GetNodeStateBadge(nodes[sorted[i]])]]
  BY <1>5 DEF NodePanel
<1> HIDE DEF n, sorted, panel
<1>7. Len(panel) = n /\ DOMAIN panel = 1 .. n
  BY <1>5, <1>6
<1>8. {panel[i].node : i \in DOMAIN panel} = DOMAIN nodes
  <2>1. \A i \in 1 .. n : panel[i].node = sorted[i]
    BY <1>6
  <2>2. {panel[i].node : i \in 1 .. n} = {sorted[i] : i \in 1 .. n}
    BY <2>1
  <2>3. {sorted[i] : i \in 1 .. n} = DOMAIN nodes
    BY <1>5
  <2> QED
    BY <1>7, <2>2, <2>3
<1>9. ASSUME NEW i \in 1 .. n
      PROVE  /\ sorted[i] \in DOMAIN nodes /\ nodes[sorted[i]].penalized \in BOOLEAN
             /\ weight(i) = nodes[sorted[i]].weight /\ weight(i) \in Int
             /\ rank(i) = IF nodes[sorted[i]].source = "direct" THEN 2
                          ELSE IF nodes[sorted[i]].penalized THEN 1 ELSE 0
  <2>1. sorted[i] \in DOMAIN nodes /\ panel[i] = [node |-> sorted[i], badge |-> GetNodeStateBadge(nodes[sorted[i]])]
    BY <1>5, <1>6
  <2>2. nodes[sorted[i]].penalized \in BOOLEAN /\ nodes[sorted[i]].weight \in Int
    BY <1>4, <2>1 DEF NodesIn
  <2> DEFINE m == nodes[sorted[i]]
             badge == GetNodeStateBadge(m)
  <2>3. badge = IF m.source = "direct" THEN "direct" ELSE IF m.penalized THEN "penalized"
                ELSE IF m.available THEN "ready" ELSE "unavailable"
    <3> HIDE DEF m
    <3>1. m.penalized \in BOOLEAN
      BY <2>2 DEF m
    <3> QED
      BY <3>1 DEF GetNodeStateBadge
  <2>4. panel[i].badge = badge /\ panel[i].node = sorted[i]
    BY <2>1
  <2> HIDE DEF badge
  <2> QED
    BY <2>1, <2>2, <2>3, <2>4
<1>10. ASSUME NEW i \in 1 .. n, NEW j \in 1 .. n, i < j
       PROVE  \/ rank(i) < rank(j)
              \/ rank(i) = rank(j) /\ (rank(i) = 2 \/ weight(i) >= weight(j))
  <2>1. RowBefore(nodes, sorted[i], sorted[j])
    BY <1>5, <1>10
  <2> HIDE DEF rank, weight
  <2> QED
    BY <1>4, <1>9, <2>1, BeforeIs
<1> QED
  BY <1>3, <1>7, <1>8, <1>10 DEF RowsRankNodes, n, nodes, settings, panel

\* Induction over the naturals, on a set instead of a formula.
LEMMA AllNaturals ==
    ASSUME NEW T \in SUBSET Nat, 0 \in T, \A n \in T : n + 1 \in T
    PROVE  T = Nat
<1>1. ASSUME NEW n \in Nat PROVE n \in T
  <2>1. 0 .. n \subseteq T
    BY StepsUpTo
  <2> QED
    BY <2>1
<1> QED
  BY <1>1

\* The failures of a set of buckets or reports, as summarizeActivity adds them: one at a time,
\* whichever CHOOSE takes first.
Total(L, S) == SetOps!MapThenSumSet(LAMBDA l : L[l].failure, S)

Some(s) == CHOOSE x \in s : TRUE

Adds(L, S, g) ==
    g = [s \in SUBSET S |-> IF s = {} THEN 0 ELSE L[Some(s)].failure + g[s \ {Some(s)}]]

\* What Adds says of one set.
LEMMA AddsOne ==
    ASSUME NEW L, NEW S, NEW g, Adds(L, S, g), NEW s \in SUBSET S
    PROVE  /\ s = {} => g[s] = 0
           /\ s # {} => /\ Some(s) \in s /\ s \ {Some(s)} \in SUBSET S
                        /\ g[s] = L[Some(s)].failure + g[s \ {Some(s)}]
<1>1. s # {} => Some(s) \in s
  BY DEF Some
<1>2. g[s] = IF s = {} THEN 0 ELSE L[Some(s)].failure + g[s \ {Some(s)}]
  BY DEF Adds
<1> QED
  BY <1>1, <1>2

\* Taking an element out of a finite set.
LEMMA OneLess ==
    ASSUME NEW s, IsFiniteSet(s), NEW x \in s
    PROVE  /\ IsFiniteSet(s \ {x}) /\ Cardinality(s) \in Nat
           /\ Cardinality(s \ {x}) \in Nat /\ Cardinality(s) = Cardinality(s \ {x}) + 1
<1>1. IsFiniteSet(s \ {x}) /\ Cardinality(s \ {x}) = Cardinality(s) - 1
  BY FS_RemoveElement
<1>2. Cardinality(s) \in Nat
  BY FS_CardinalityType
<1>3. Cardinality(s \ {x}) \in Nat
  BY <1>1, FS_CardinalityType
<1> QED
  BY <1>1, <1>2, <1>3

\* A set with elements is not empty.
LEMMA SomeElement ==
    ASSUME NEW s, NEW n \in Nat, Cardinality(s) = n + 1
    PROVE  s # {}
<1>1. Cardinality({}) = 0
  BY FS_EmptySet
<1> QED
  BY <1>1

\* The recursion that defines the sum has a solution on the subsets of a finite set: on those
\* with at most n elements, for every n.
LEMMA AddsExists ==
    ASSUME NEW L, NEW S, IsFiniteSet(S)
    PROVE  \E g : Adds(L, S, g)
<1> DEFINE Small(n) == {s \in SUBSET S : Cardinality(s) <= n}
           Solves(g, n) == g = [s \in Small(n) |->
                                   IF s = {} THEN 0 ELSE L[Some(s)].failure + g[s \ {Some(s)}]]
           N == {n \in Nat : \E g : Solves(g, n)}
<1>1. \A s \in SUBSET S : IsFiniteSet(s) /\ Cardinality(s) \in Nat
  BY FS_Subset, FS_CardinalityType
<1>2. 0 \in N
  <2> DEFINE g == [s \in Small(0) |-> 0]
  <2>1. \A s \in Small(0) : s = {}
    BY <1>1, FS_EmptySet
  <2>2. Solves(g, 0)
    BY <2>1
  <2> QED
    BY <2>2
<1>3. ASSUME NEW n \in N PROVE n + 1 \in N
  <2>1. PICK g : Solves(g, n)
    OBVIOUS
  <2>a. n \in Nat
    OBVIOUS
  <2> DEFINE V(f, s) == IF s = {} THEN 0 ELSE L[Some(s)].failure + f[s \ {Some(s)}]
             h == [s \in Small(n + 1) |-> V(g, s)]
  <2>2. ASSUME NEW s \in Small(n + 1), s # {} PROVE s \ {Some(s)} \in Small(n)
    <3>1. Some(s) \in s
      BY <2>2 DEF Some
    <3>2. IsFiniteSet(s)
      BY <1>1
    <3>3. Cardinality(s) = Cardinality(s \ {Some(s)}) + 1 /\ Cardinality(s \ {Some(s)}) \in Nat
      BY <3>1, <3>2, OneLess
    <3>4. Cardinality(s) <= n + 1
      OBVIOUS
    <3> QED
      BY <2>a, <3>3, <3>4
  <2>3. ASSUME NEW s \in Small(n) PROVE h[s] = g[s]
    <3>1. s \in Small(n + 1)
      BY <1>1, <2>a
    <3>2. g[s] = V(g, s)
      BY <2>1
    <3> QED
      BY <3>1, <3>2
  <2>4. ASSUME NEW s \in Small(n + 1) PROVE V(g, s) = V(h, s)
    BY <2>2, <2>3
  <2>5. h = [s \in Small(n + 1) |-> V(h, s)]
    <3> DEFINE k == [s \in Small(n + 1) |-> V(h, s)]
    <3>1. \A s \in Small(n + 1) : h[s] = k[s]
      BY <2>4
    <3> QED
      BY <3>1
  <2>6. Solves(h, n + 1)
    BY <2>5
  <2> HIDE DEF Solves, h
  <2> QED
    BY <2>6
<1>4. N = Nat
  <2>1. N \in SUBSET Nat
    OBVIOUS
  <2> HIDE DEF N
  <2> QED
    BY <1>2, <1>3, <2>1, AllNaturals
<1>5. Cardinality(S) \in Nat
  BY FS_CardinalityType
<1>6. PICK g : Solves(g, Cardinality(S))
  BY <1>4, <1>5
<1>7. Small(Cardinality(S)) = SUBSET S
  BY FS_Subset
<1> QED
  BY <1>6, <1>7 DEF Adds

\* The sum is the value of that solution.
LEMMA TotalAdds ==
    ASSUME NEW L, NEW S, IsFiniteSet(S)
    PROVE  \E g : Adds(L, S, g) /\ Total(L, S) = g[S]
<1> DEFINE G == CHOOSE g : Adds(L, S, g)
<1>1. Total(L, S) = G[S]
  BY DEF Total, SetOps!MapThenSumSet, SetOps!MapThenFoldSet, Adds, Some
<1>2. Adds(L, S, G)
  BY AddsExists
<1> QED
  BY <1>1, <1>2

\* Sums of the same failures agree, whatever larger set they are computed in.
LEMMA AddsAgree ==
    ASSUME NEW L, NEW M, NEW S, NEW T \in SUBSET S, IsFiniteSet(T), NEW g, NEW h,
           Adds(L, S, g), Adds(M, T, h), \A l \in T : L[l].failure = M[l].failure
    PROVE  g[T] = h[T]
<1>g. ASSUME NEW s \in SUBSET S
      PROVE  /\ s = {} => g[s] = 0
             /\ s # {} => /\ Some(s) \in s /\ s \ {Some(s)} \in SUBSET S
                          /\ g[s] = L[Some(s)].failure + g[s \ {Some(s)}]
  <2>1. s # {} => Some(s) \in s
    BY DEF Some
  <2>2. g[s] = IF s = {} THEN 0 ELSE L[Some(s)].failure + g[s \ {Some(s)}]
    BY DEF Adds
  <2> QED
    BY <2>1, <2>2
<1>h. ASSUME NEW s \in SUBSET T
      PROVE  /\ s = {} => h[s] = 0
             /\ s # {} => /\ Some(s) \in s /\ s \ {Some(s)} \in SUBSET T
                          /\ h[s] = M[Some(s)].failure + h[s \ {Some(s)}]
  BY AddsOne
<1> DEFINE N == {n \in Nat : \A t \in SUBSET T : Cardinality(t) = n => g[t] = h[t]}
<1>1. \A t \in SUBSET T : IsFiniteSet(t) /\ Cardinality(t) \in Nat /\ t \in SUBSET S
  BY FS_Subset, FS_CardinalityType
<1>2. 0 \in N
  <2>1. ASSUME NEW t \in SUBSET T, Cardinality(t) = 0 PROVE g[t] = h[t]
    <3>1. t = {}
      BY <1>1, <2>1, FS_EmptySet
    <3>2. g[t] = 0
      BY <1>1, <1>g, <3>1
    <3>3. h[t] = 0
      BY <1>h, <3>1
    <3> QED
      BY <3>2, <3>3
  <2> QED
    BY <2>1
<1>3. ASSUME NEW n \in N PROVE n + 1 \in N
  <2>0. n \in Nat
    OBVIOUS
  <2>1. ASSUME NEW t \in SUBSET T, Cardinality(t) = n + 1 PROVE g[t] = h[t]
    <3>1. t # {}
      BY <2>0, <2>1, SomeElement
    <3>a. Some(t) \in t /\ g[t] = L[Some(t)].failure + g[t \ {Some(t)}]
      BY <1>1, <1>g, <3>1
    <3>b. h[t] = M[Some(t)].failure + h[t \ {Some(t)}]
      BY <1>h, <3>1
    <3>2. /\ Some(t) \in t
          /\ g[t] = L[Some(t)].failure + g[t \ {Some(t)}]
          /\ h[t] = M[Some(t)].failure + h[t \ {Some(t)}]
      BY <3>a, <3>b
    <3>3. Cardinality(t) = Cardinality(t \ {Some(t)}) + 1 /\ Cardinality(t \ {Some(t)}) \in Nat
      BY <1>1, <3>2, OneLess
    <3>4. g[t \ {Some(t)}] = h[t \ {Some(t)}]
      <4>1. Cardinality(t \ {Some(t)}) = n
        BY <2>1, <3>3
      <4> QED
        BY <4>1
    <3> QED
      BY <3>2, <3>4
  <2>2. n + 1 \in Nat
    OBVIOUS
  <2> QED
    BY <2>1, <2>2
<1>4. N = Nat
  <2>1. N \in SUBSET Nat
    OBVIOUS
  <2> HIDE DEF N
  <2> QED
    BY <1>2, <1>3, <2>1, AllNaturals
<1> QED
  BY <1>1, <1>4

\* A sum of naturals is a natural ...
LEMMA AddsNat ==
    ASSUME NEW L, NEW S, IsFiniteSet(S), NEW g, Adds(L, S, g), \A l \in S : L[l].failure \in Nat
    PROVE  \A s \in SUBSET S : g[s] \in Nat
<1> DEFINE N == {n \in Nat : \A s \in SUBSET S : Cardinality(s) = n => g[s] \in Nat}
<1>1. \A s \in SUBSET S : IsFiniteSet(s) /\ Cardinality(s) \in Nat
  BY FS_Subset, FS_CardinalityType
<1>2. 0 \in N
  <2>1. ASSUME NEW s \in SUBSET S, Cardinality(s) = 0 PROVE g[s] \in Nat
    <3>1. s = {}
      BY <1>1, <2>1, FS_EmptySet
    <3> QED
      BY <3>1, AddsOne
  <2> QED
    BY <2>1
<1>3. ASSUME NEW n \in N PROVE n + 1 \in N
  <2>0. n \in Nat /\ \A t \in SUBSET S : Cardinality(t) = n => g[t] \in Nat
    OBVIOUS
  <2>1. ASSUME NEW s \in SUBSET S, Cardinality(s) = n + 1 PROVE g[s] \in Nat
    <3> DEFINE c == Some(s)
    <3>1. s # {}
      BY <2>0, <2>1, SomeElement
    <3>2. c \in s /\ s \ {c} \in SUBSET S /\ g[s] = L[c].failure + g[s \ {c}]
      BY <3>1, AddsOne
    <3> HIDE DEF c, N
    <3>3. Cardinality(s) = Cardinality(s \ {c}) + 1 /\ Cardinality(s \ {c}) \in Nat
      BY <1>1, <3>2, OneLess
    <3>4. Cardinality(s \ {c}) = n
      BY <2>0, <2>1, <3>3
    <3>5. g[s \ {c}] \in Nat /\ L[c].failure \in Nat
      BY <2>0, <3>2, <3>4
    <3> QED
      BY <3>2, <3>5
  <2>2. n + 1 \in Nat
    OBVIOUS
  <2> QED
    BY <2>1, <2>2
<1>4. N = Nat
  <2>1. N \in SUBSET Nat
    OBVIOUS
  <2> HIDE DEF N
  <2> QED
    BY <1>2, <1>3, <2>1, AllNaturals
<1> QED
  BY <1>1, <1>4

\* ... and any element may be added first.
LEMMA AddsAny ==
    ASSUME NEW L, NEW S, IsFiniteSet(S), NEW g, Adds(L, S, g), \A l \in S : L[l].failure \in Nat
    PROVE  \A s \in SUBSET S : \A x \in s : g[s] = L[x].failure + g[s \ {x}]
<1>g. ASSUME NEW s \in SUBSET S
      PROVE  /\ s = {} => g[s] = 0
             /\ s # {} => /\ Some(s) \in s /\ s \ {Some(s)} \in SUBSET S
                          /\ g[s] = L[Some(s)].failure + g[s \ {Some(s)}]
  BY AddsOne
<1> DEFINE P(s) == \A x \in s : g[s] = L[x].failure + g[s \ {x}]
           N == {n \in Nat : \A s \in SUBSET S : Cardinality(s) = n => P(s)}
<1>1. \A s \in SUBSET S : IsFiniteSet(s) /\ Cardinality(s) \in Nat
  BY FS_Subset, FS_CardinalityType
<1>0. \A s \in SUBSET S : g[s] \in Nat
  BY AddsNat
<1>2. 0 \in N
  <2>1. ASSUME NEW s \in SUBSET S, Cardinality(s) = 0 PROVE P(s)
    <3>1. s = {}
      BY <1>1, <2>1, FS_EmptySet
    <3> QED
      BY <3>1
  <2> QED
    BY <2>1
<1>3. ASSUME NEW n \in N PROVE n + 1 \in N
  <2>0. n \in Nat /\ \A t \in SUBSET S : Cardinality(t) = n => P(t)
    OBVIOUS
  <2>1. ASSUME NEW s \in SUBSET S, Cardinality(s) = n + 1 PROVE P(s)
    <3> DEFINE c == Some(s)
    <3>1. s # {}
      BY <2>0, <2>1, SomeElement
    <3>2. c \in s /\ g[s] = L[c].failure + g[s \ {c}]
      BY <1>g, <3>1
    <3> HIDE DEF c, N
    <3>3. ASSUME NEW x \in s PROVE Cardinality(s \ {x}) = n /\ s \ {x} \in SUBSET S
      <4>1. Cardinality(s) = Cardinality(s \ {x}) + 1 /\ Cardinality(s \ {x}) \in Nat
        BY <1>1, OneLess
      <4> QED
        BY <2>0, <2>1, <4>1
    <3>4. ASSUME NEW x \in s PROVE P(s \ {x})
      BY <2>0, <3>3
    <3>6. ASSUME NEW x \in s PROVE g[s] = L[x].failure + g[s \ {x}]
      <4>1. CASE x = c
        BY <3>2, <4>1
      <4>2. CASE x # c
        <5> DEFINE u == s \ {c}
                   v == s \ {x}
                   w == (s \ {c}) \ {x}
        <5>1. g[u] = L[x].failure + g[u \ {x}]
          BY <3>2, <3>4, <4>2
        <5>2. g[v] = L[c].failure + g[v \ {c}]
          BY <3>2, <3>4, <4>2
        <5>3. v \ {c} = w /\ u \ {x} = w /\ w \in SUBSET S /\ g[s] = L[c].failure + g[u]
          BY <3>2
        <5>4. L[x].failure \in Nat /\ L[c].failure \in Nat
          BY <3>2
        <5>5. g[w] \in Nat
          BY <1>0, <5>3
        <5> HIDE DEF u, w
        <5>6. g[u] = L[x].failure + g[w] /\ g[v] = L[c].failure + g[w] /\ g[s] = L[c].failure + g[u]
          BY <5>1, <5>2, <5>3
        <5> HIDE DEF v
        <5>7. g[s] = L[x].failure + g[v]
          BY <5>4, <5>5, <5>6
        <5> QED
          BY <5>7 DEF v
      <4> QED
        BY <4>1, <4>2
    <3> QED
      BY <3>6
  <2>2. n + 1 \in Nat
    OBVIOUS
  <2> QED
    BY <2>1, <2>2
<1>4. N = Nat
  <2>1. N \in SUBSET Nat
    OBVIOUS
  <2> HIDE DEF N
  <2> QED
    BY <1>2, <1>3, <2>1, AllNaturals
<1> QED
  BY <1>1, <1>4

\* No buckets, no failures.
LEMMA TotalEmpty == ASSUME NEW L PROVE Total(L, {}) = 0
<1>1. PICK g : Adds(L, {}, g) /\ Total(L, {}) = g[{}]
  BY FS_EmptySet, TotalAdds
<1> QED
  BY <1>1, AddsOne

\* A bucket less.
LEMMA TotalLess ==
    ASSUME NEW L, NEW T, IsFiniteSet(T), NEW x \in T, \A l \in T : L[l].failure \in Nat
    PROVE  /\ Total(L, T) \in Nat /\ Total(L, T \ {x}) \in Nat
           /\ Total(L, T) = Total(L, T \ {x}) + L[x].failure
<1>1. IsFiniteSet(T \ {x}) /\ T \ {x} \in SUBSET T /\ T \in SUBSET T
  BY FS_RemoveElement
<1>2. PICK g : Adds(L, T, g) /\ Total(L, T) = g[T]
  BY TotalAdds
<1>3. PICK h : Adds(L, T \ {x}, h) /\ Total(L, T \ {x}) = h[T \ {x}]
  BY <1>1, TotalAdds
<1>4. g[T \ {x}] = h[T \ {x}]
  BY <1>1, <1>2, <1>3, AddsAgree
<1>5. g[T] = L[x].failure + g[T \ {x}]
  BY <1>1, <1>2, AddsAny
<1>6. g[T] \in Nat /\ g[T \ {x}] \in Nat
  BY <1>1, <1>2, AddsNat
<1> QED
  BY <1>2, <1>3, <1>4, <1>5, <1>6

\* A bucket more adds its failures.
LEMMA TotalMore ==
    ASSUME NEW L, NEW S, IsFiniteSet(S), NEW x, x \notin S,
           \A l \in S \cup {x} : L[l].failure \in Nat
    PROVE  /\ Total(L, S) \in Nat /\ Total(L, S \cup {x}) \in Nat
           /\ Total(L, S \cup {x}) = Total(L, S) + L[x].failure
<1>1. IsFiniteSet(S \cup {x})
  BY FS_AddElement
<1>2. (S \cup {x}) \ {x} = S /\ x \in S \cup {x}
  OBVIOUS
<1> QED
  BY <1>1, <1>2, TotalLess

\* The buckets of the range up to one, and the reports that are counted in them.
LEMMA FailuresCounted ==
    ASSUME NEW reports, DOMAIN reports \subseteq Int,
           \A x \in DOMAIN reports : reports[x].failure \in Nat
    PROVE  Total(NormalizeActivityBuckets(reports), Bucket)
               = Total(reports, {x \in DOMAIN reports : x \in {2 * i : i \in Bucket}})
<1> DEFINE buckets == NormalizeActivityBuckets(reports)
           B(n) == 0 .. n - 1
           C(n) == {x \in DOMAIN reports : x \in {2 * i : i \in B(n)}}
           T == {n \in Nat : n <= BucketCount => Total(buckets, B(n)) = Total(reports, C(n))}
<1>1. BucketCount \in Nat
  BY ProxyChartsConstants, Zenon
<1>2. ASSUME NEW i \in Bucket
      PROVE  /\ buckets[i].failure \in Nat
             /\ 2 * i \in DOMAIN reports => buckets[i].failure = reports[2 * i].failure
             /\ 2 * i \notin DOMAIN reports => buckets[i].failure = 0
  <2>1. buckets[i] = IF 2 * i \in DOMAIN reports THEN reports[2 * i] ELSE [success |-> 0, failure |-> 0]
    BY DEF NormalizeActivityBuckets
  <2> HIDE DEF buckets
  <2> QED
    BY <2>1
<1> HIDE DEF buckets
<1>3. 0 \in T
  <2>1. B(0) = {} /\ C(0) = {}
    OBVIOUS
  <2> QED
    BY <2>1, TotalEmpty
<1>4. ASSUME NEW n \in T, n < BucketCount PROVE n + 1 \in T
  <2>0. n \in Nat /\ Total(buckets, B(n)) = Total(reports, C(n))
    <3>1. n \in Nat /\ n <= BucketCount
      BY <1>1, <1>4
    <3> HIDE DEF B, C
    <3> QED
      BY <1>4, <3>1
  <2>1. /\ B(n + 1) = B(n) \cup {n} /\ n \notin B(n) /\ n \in Bucket /\ B(n + 1) \subseteq Bucket
        /\ IsFiniteSet(B(n))
    BY <1>1, <1>4, <2>0, FS_Interval DEF Bucket
  <2>2. /\ Total(buckets, B(n)) \in Nat
        /\ Total(buckets, B(n + 1)) = Total(buckets, B(n)) + buckets[n].failure
    <3>1. \A i \in B(n) \cup {n} : buckets[i].failure \in Nat
      BY <1>2, <2>1
    <3> HIDE DEF B, T
    <3>2. IsFiniteSet(B(n)) /\ n \notin B(n)
      BY <2>1
    <3>3. /\ Total(buckets, B(n)) \in Nat
          /\ Total(buckets, B(n) \cup {n}) = Total(buckets, B(n)) + buckets[n].failure
      BY <3>1, <3>2, TotalMore, Zenon
    <3> QED
      BY <2>1, <3>3
  <2>3. IsFiniteSet(C(n)) /\ C(n) \subseteq DOMAIN reports
    <3>1. C(n) \subseteq 0 .. 2 * n /\ 2 * n \in Int
      BY <2>0
    <3>2. IsFiniteSet(0 .. 2 * n)
      BY <3>1, FS_Interval
    <3>3. C(n) \subseteq DOMAIN reports
      OBVIOUS
    <3> HIDE DEF B, C, T
    <3> QED
      BY <3>1, <3>2, <3>3, FS_Subset
  <2>6. {2 * i : i \in B(n + 1)} = {2 * i : i \in B(n)} \cup {2 * n}
    <3> HIDE DEF B
    <3> QED
      BY <2>1
  <2>4. CASE 2 * n \in DOMAIN reports
    <3>1. C(n + 1) = C(n) \cup {2 * n} /\ 2 * n \notin C(n)
      <4>1. 2 * n \notin {2 * i : i \in B(n)}
        BY <2>0
      <4> QED
        BY <2>4, <2>6, <4>1
    <3>2. \A x \in C(n) \cup {2 * n} : reports[x].failure \in Nat
      BY <2>3, <2>4
    <3>3. Total(reports, C(n + 1)) = Total(reports, C(n)) + reports[2 * n].failure
      <4> HIDE DEF C
      <4> QED
        BY <2>3, <3>1, <3>2, TotalMore
    <3> HIDE DEF B, C
    <3>4. Total(buckets, B(n + 1)) = Total(reports, C(n + 1))
      BY <1>2, <2>0, <2>1, <2>2, <2>4, <3>3
    <3> QED
      BY <2>0, <3>4
  <2>5. CASE 2 * n \notin DOMAIN reports
    <3>1. C(n + 1) = C(n)
      BY <2>5, <2>6
    <3> HIDE DEF B, C
    <3>2. Total(buckets, B(n + 1)) = Total(reports, C(n + 1))
      BY <1>2, <2>0, <2>1, <2>2, <2>5, <3>1
    <3> QED
      BY <2>0, <3>2
  <2> QED
    BY <2>4, <2>5
<1>5. BucketCount \in T
  <2>1. T \in SUBSET Nat
    OBVIOUS
  <2> HIDE DEF T
  <2>2. 0 .. BucketCount \subseteq T
    BY <1>1, <1>3, <1>4, <2>1, StepsUpTo
  <2> QED
    BY <1>1, <2>2
<1>6. Total(buckets, B(BucketCount)) = Total(reports, C(BucketCount))
  BY <1>1, <1>5
<1> QED
  BY <1>6 DEF Bucket, buckets

\* What shrinks keeps the least it may, and what it gave is no longer left to give.
LEMMA Shrinks ==
    ASSUME NEW value \in Nat, NEW least \in Nat, NEW amount \in Int, least <= value
    PROVE  LET shrunk == Shrink(value, least, amount)
           IN /\ shrunk.value \in Nat /\ least <= shrunk.value /\ shrunk.value <= value
              /\ amount <= 0 => shrunk = [value |-> value, left |-> amount]
              /\ amount > 0 => /\ shrunk.left \in Nat
                               /\ shrunk.value + amount = value + shrunk.left
                               /\ shrunk.left = 0 \/ shrunk.value = least
BY DEF Shrink, Smaller

\* The bars of one bucket, whose requests are no more than the scale shows.
LEMMA BarHeights ==
    ASSUME NEW success \in Nat, NEW failure \in Nat, NEW scaleMax \in Nat,
           scaleMax > 0, success + failure <= scaleMax
    PROVE  LET bar == BuildVisibleBarHeights(success, failure, scaleMax)
           IN /\ bar.success + bar.failure + bar.empty = scaleMax * CellHeight
              /\ success > 0 => bar.success >= scaleMax
              /\ failure > 0 => bar.failure >= scaleMax
              /\ success >= failure => bar.success >= bar.failure
<1> DEFINE pixel(n) == IF n > 0 THEN scaleMax ELSE 0
           s0 == IF success > 0 THEN Larger(success * CellHeight, scaleMax) ELSE 0
           f0 == IF failure > 0 THEN Larger(failure * CellHeight, scaleMax) ELSE 0
           room == scaleMax * CellHeight
           over == s0 + f0 - room
           s1 == Shrink(s0, pixel(success), over)
           f1 == Shrink(f0, pixel(failure), over)
           s2 == Shrink(s0, pixel(success), f1.left)
           f2 == Shrink(f0, pixel(failure), s1.left)
           s == IF s0 >= f0 THEN s1.value ELSE s2.value
           f == IF s0 >= f0 THEN f2.value ELSE f1.value
<1>1. BuildVisibleBarHeights(success, failure, scaleMax)
        = [success |-> s, failure |-> f, empty |-> Larger(room - Smaller(s + f, room), 0)]
  BY DEF BuildVisibleBarHeights
<1>2. /\ s0 \in Nat /\ f0 \in Nat /\ room \in Nat /\ room >= 2 * scaleMax
      /\ pixel(success) \in Nat /\ pixel(failure) \in Nat
      /\ pixel(success) <= s0 /\ pixel(failure) <= f0
      /\ success > 0 => pixel(success) = scaleMax
      /\ failure > 0 => pixel(failure) = scaleMax
      /\ success = 0 => s0 = 0
      /\ failure = 0 => f0 = 0
      /\ success >= failure => s0 >= f0
      /\ over > 0 => /\ success > 0 /\ failure > 0
                     /\ s0 = scaleMax \/ f0 = scaleMax
                     /\ s0 >= f0 => f0 = scaleMax
                     /\ f0 >= s0 => s0 = scaleMax
  BY DEF CellHeight, Larger
<1>3. over \in Int
  BY <1>2
<1> HIDE DEF s0, f0, room, pixel, over
<1>4. CASE over <= 0
  <2>1. s = s0 /\ f = f0
    BY <1>2, <1>3, <1>4, Shrinks
  <2> HIDE DEF s, f
  <2>2. s + f <= room
    BY <1>2, <1>4, <2>1 DEF over
  <2> QED
    BY <1>1, <1>2, <2>1, <2>2 DEF Larger, Smaller, room
<1>5. CASE over > 0
  <2>1. CASE s0 >= f0
    <3>1. s = s1.value /\ f = f2.value
      BY <2>1
    <3>2. /\ s1.value \in Nat /\ scaleMax <= s1.value /\ s1.left \in Nat
          /\ s1.value + over = s0 + s1.left
          /\ s1.left = 0 \/ s1.value = scaleMax
      BY <1>2, <1>3, <1>5, Shrinks
    <3>3. f0 = scaleMax /\ f0 >= scaleMax
      BY <1>2, <1>5, <2>1
    <3>4. s1.left = 0
      BY <1>2, <1>5, <3>2, <3>3 DEF over
    <3>5. f2.value = f0
      BY <1>2, <3>4, Shrinks
    <3>6. s1.value = room - scaleMax
      <4>1. over \in Int /\ over = s0 + scaleMax - room
        BY <1>2, <1>3, <3>3 DEF over
      <4> HIDE DEF s1
      <4> QED
        BY <1>2, <3>2, <3>4, <4>1
    <3> HIDE DEF s, f, s1, f1, s2, f2
    <3>7. f = scaleMax /\ s = room - scaleMax /\ s >= scaleMax
      BY <3>1, <3>2, <3>3, <3>5, <3>6
    <3>8. s + f = room
      BY <1>2, <3>7
    <3> QED
      BY <1>1, <1>2, <3>7, <3>8 DEF Larger, Smaller, room
  <2>2. CASE s0 < f0
    <3>1. s = s2.value /\ f = f1.value /\ ~(success >= failure)
      BY <1>2, <2>2
    <3>2. /\ f1.value \in Nat /\ scaleMax <= f1.value /\ f1.left \in Nat
          /\ f1.value + over = f0 + f1.left
          /\ f1.left = 0 \/ f1.value = scaleMax
      BY <1>2, <1>3, <1>5, Shrinks
    <3>3. s0 = scaleMax
      BY <1>2, <1>5, <2>2
    <3>4. f1.left = 0
      BY <1>2, <1>5, <3>2, <3>3 DEF over
    <3>5. s2.value = s0
      BY <1>2, <3>4, Shrinks
    <3>6. f1.value = room - scaleMax
      <4>1. over \in Int /\ over = f0 + scaleMax - room
        BY <1>2, <1>3, <3>3 DEF over
      <4> HIDE DEF f1
      <4> QED
        BY <1>2, <3>2, <3>4, <4>1
    <3> HIDE DEF s, f, s1, f1, s2, f2
    <3>7. s = scaleMax /\ f = room - scaleMax /\ f >= scaleMax
      BY <3>1, <3>2, <3>3, <3>5, <3>6
    <3>8. s + f = room
      BY <1>2, <3>7
    <3> QED
      BY <1>1, <1>2, <3>1, <3>7, <3>8 DEF Larger, Smaller, room
  <2> QED
    BY <1>2, <2>1, <2>2
<1> QED
  BY <1>3, <1>4, <1>5

\* The values of the buckets of two nodes, and zero, have a greatest and a least.
Values(w, v) == {0} \cup {x[i] : i \in Bucket, x \in {w, v}}

LEMMA ScaleReaches ==
    ASSUME NEW w, NEW v, \A i \in Bucket : w[i] \in Int /\ v[i] \in Int
    PROVE  /\ SetOps!Max(Values(w, v)) \in Values(w, v)
           /\ SetOps!Min(Values(w, v)) \in Values(w, v)
           /\ \A x \in Values(w, v) : SetOps!Min(Values(w, v)) <= x /\ x <= SetOps!Max(Values(w, v))
           /\ Values(w, v) \subseteq Int /\ 0 \in Values(w, v)
           /\ \A i \in Bucket : w[i] \in Values(w, v) /\ v[i] \in Values(w, v)
<1> DEFINE W == {w[i] : i \in Bucket}
           V == {v[i] : i \in Bucket}
           all == Values(w, v)
<1>1. IsFiniteSet(Bucket)
  <2>1. BucketCount - 1 \in Int
    <3>1. BucketCount \in Nat
      BY ProxyChartsConstants, Zenon
    <3> QED
      BY <3>1
  <2> QED
    BY <2>1, FS_Interval DEF Bucket
<1>2. ASSUME NEW x PROVE IsFiniteSet({x[i] : i \in Bucket})
  <2> DEFINE f == [i \in Bucket |-> x[i]]
             X == {x[i] : i \in Bucket}
  <2>1. f \in Surjection(Bucket, X)
    BY DEF Surjection
  <2> HIDE DEF f, X
  <2>2. IsFiniteSet(X)
    BY <1>1, <2>1, FS_Surjection
  <2> QED
    BY <2>2 DEF X
<1>3. IsFiniteSet(W) /\ IsFiniteSet(V)
  BY <1>2
<1>4. all = (W \cup V) \cup {0}
  BY SMT DEF Values
<1>5. W \subseteq Int /\ V \subseteq Int /\ \A i \in Bucket : w[i] \in W /\ v[i] \in V
  OBVIOUS
<1> HIDE DEF W, V, all
<1>6. all \subseteq Int /\ 0 \in all /\ \A i \in Bucket : w[i] \in all /\ v[i] \in all
  BY <1>4, <1>5
<1>7. IsFiniteSet(all)
  <2>1. IsFiniteSet(W \cup V)
    BY <1>3, FS_Union
  <2> QED
    BY <1>4, <2>1, FS_AddElement
<1>8. /\ SetOps!Max(all) \in all /\ \A x \in all : x <= SetOps!Max(all)
      /\ SetOps!Min(all) \in all /\ \A x \in all : SetOps!Min(all) <= x
  BY <1>6, <1>7, ExtremesExist
<1> QED
  BY <1>6, <1>8, Zenon DEF all

\* What is reported, for one node of the samples.
LEMMA ReportsAre ==
    ASSUME NEW values, NEW reports \in Reports(values)
    PROVE  DOMAIN reports \subseteq Int /\ \A x \in DOMAIN reports : reports[x] \in values
<1>1. ReportTick \subseteq Int
  BY ProxyChartsConstants, Zenon
<1>2. PICK ticks \in SUBSET ReportTick : reports \in [ticks -> values]
  BY Zenon DEF Reports
<1>3. DOMAIN reports = ticks /\ \A x \in ticks : reports[x] \in values
  BY <1>2
<1> QED
  BY <1>1, <1>3

BarsSample ==
    [what : {"bars"}, reports : Reports(ActivityReport), others : [Bucket -> {[success |-> 0, failure |-> 0]} \cup
                                                             {[success |-> SetOps!Max(ReportCount), failure |-> 1]}]]

LEMMA BarsFill == ASSUME chartSample \in BarsSample PROVE BarsFillCell
<1> DEFINE reports == chartSample.reports
           others == chartSample.others
           buckets == NormalizeActivityBuckets(reports)
           scaleMax == ScaleMax(buckets, others)
           cells == RequestTrendCell(buckets, scaleMax)
           counted == {x \in DOMAIN reports : x \in {2 * i : i \in Bucket}}
<1>1. /\ reports \in Reports(ActivityReport)
      /\ others \in [Bucket -> {[success |-> 0, failure |-> 0]} \cup
                               {[success |-> SetOps!Max(ReportCount), failure |-> 1]}]
  BY DEF BarsSample
<1>2. ReportCount \subseteq Nat /\ SetOps!Max(ReportCount) \in Nat
  <2>1. ReportCount \subseteq Nat /\ \E most \in ReportCount : \A c \in ReportCount : c <= most
    BY ProxyChartsConstants, Zenon
  <2>2. \E most \in ReportCount : \A c \in ReportCount : most >= c
    BY <2>1
  <2>3. SetOps!Max(ReportCount) \in ReportCount
    BY <2>2, Zenon DEF SetOps!Max
  <2> QED
    BY <2>1, <2>3
<1>3. /\ DOMAIN reports \subseteq Int
      /\ \A x \in DOMAIN reports : reports[x].success \in Nat /\ reports[x].failure \in Nat
  <2> HIDE DEF reports
  <2>1. DOMAIN reports \subseteq Int /\ \A x \in DOMAIN reports : reports[x] \in ActivityReport
    BY <1>1, ReportsAre
  <2>2. \A r \in ActivityReport : r.success \in Nat /\ r.failure \in Nat
    BY <1>2 DEF ActivityReport
  <2> QED
    BY <2>1, <2>2
<1>4. \A i \in Bucket : others[i].success \in Nat /\ others[i].failure \in Nat
  <2> HIDE DEF others
  <2>1. \A i \in Bucket : \/ others[i] = [success |-> 0, failure |-> 0]
                          \/ others[i] = [success |-> SetOps!Max(ReportCount), failure |-> 1]
    BY <1>1
  <2> QED
    BY <1>2, <2>1
<1> HIDE DEF reports, others
<1>5. \A i \in Bucket : buckets[i].success \in Nat /\ buckets[i].failure \in Nat
  BY <1>3 DEF NormalizeActivityBuckets
<1>6. SummarizeActivity(buckets).failure = SetOps!MapThenSumSet(LAMBDA x : reports[x].failure, counted)
  <2>1. SummarizeActivity(buckets).failure = Total(buckets, Bucket)
    BY Zenon DEF SummarizeActivity, Total
  <2>2. Total(reports, counted) = SetOps!MapThenSumSet(LAMBDA x : reports[x].failure, counted)
    BY Zenon DEF Total
  <2>3. Total(buckets, Bucket) = Total(reports, counted)
    BY <1>3, FailuresCounted
  <2> QED
    BY <2>1, <2>2, <2>3, Zenon
<1> HIDE DEF buckets
<1>7. /\ scaleMax \in Nat
      /\ \A i \in Bucket : buckets[i].success + buckets[i].failure <= scaleMax
  <2> DEFINE w == [i \in Bucket |-> buckets[i].success + buckets[i].failure]
             v == [i \in Bucket |-> others[i].success + others[i].failure]
             sums == {0} \cup {b[i].success + b[i].failure : i \in Bucket, b \in {buckets, others}}
             all == Values(w, v)
  <2>1. \A i \in Bucket : w[i] \in Nat /\ v[i] \in Nat
    BY <1>4, <1>5
  <2>2. \A i \in Bucket : w[i] = buckets[i].success + buckets[i].failure /\ v[i] = others[i].success + others[i].failure
    OBVIOUS
  <2> HIDE DEF w, v
  <2>3. all = sums
    <3>1. \A n : n \in sums <=> n = 0 \/ \E i \in Bucket : \/ n = buckets[i].success + buckets[i].failure
                                                     \/ n = others[i].success + others[i].failure
      BY SMT
    <3>2. \A n : n \in all <=> n = 0 \/ \E i \in Bucket : n = w[i] \/ n = v[i]
      BY SMT DEF Values
    <3> HIDE DEF sums, all
    <3>3. \A n : n \in sums <=> n \in all
      BY <2>2, <3>1, <3>2
    <3> QED
      BY <3>3
  <2>4. scaleMax = SetOps!Max(sums)
    BY DEF ScaleMax
  <2>5. \A x \in all : x \in Nat
    BY <2>1 DEF Values
  <2>6. SetOps!Max(all) \in all /\ \A i \in Bucket : w[i] <= SetOps!Max(all)
    <3>1. \A i \in Bucket : w[i] \in Int /\ v[i] \in Int
      BY <2>1
    <3> QED
      BY <3>1, ScaleReaches, Zenon
  <2> HIDE DEF all, sums, scaleMax
  <2> QED
    BY <2>2, <2>3, <2>4, <2>5, <2>6
<1> HIDE DEF scaleMax
<1>8. ASSUME NEW i \in Bucket, scaleMax > 0
      PROVE  /\ cells[i].success + cells[i].failure + cells[i].empty = scaleMax * CellHeight
             /\ buckets[i].success > 0 => cells[i].success >= scaleMax
             /\ buckets[i].failure > 0 => cells[i].failure >= scaleMax
             /\ buckets[i].success >= buckets[i].failure => cells[i].success >= cells[i].failure
  <2>1. cells[i] = BuildVisibleBarHeights(buckets[i].success, buckets[i].failure, scaleMax)
    BY Zenon DEF RequestTrendCell
  <2>2. buckets[i].success \in Nat /\ buckets[i].failure \in Nat /\ buckets[i].success + buckets[i].failure <= scaleMax
    BY <1>5, <1>7
  <2> HIDE DEF cells
  <2> QED
    BY <1>7, <1>8, <2>1, <2>2, BarHeights
<1> QED
  BY <1>6, <1>8, Zenon DEF BarsFillCell, reports, others, buckets, scaleMax

\* The buckets a report has been taken for up to one of the range.
Known(reports, i) == {t \in DOMAIN reports : t % 2 = 0 /\ 0 <= t /\ t <= 2 * i}
\* The last weight known then.
LastWeight(reports, fallback, i) ==
    IF Known(reports, i) = {} THEN fallback ELSE reports[SetOps!Max(Known(reports, i))]

LEMMA LastWeightCarries ==
    ASSUME NEW reports, DOMAIN reports \subseteq Int, NEW fallback, NEW i \in Nat
    PROVE  LastWeight(reports, fallback, i) =
               IF 2 * i \in DOMAIN reports THEN reports[2 * i]
               ELSE IF i = 0 THEN fallback ELSE LastWeight(reports, fallback, i - 1)
<1>1. CASE 2 * i \in DOMAIN reports
  <2> DEFINE known == Known(reports, i)
  <2>1. 2 * i \in known /\ known \subseteq Int /\ \A t \in known : t <= 2 * i
    BY <1>1 DEF Known
  <2>2. IsFiniteSet(known)
    <3>1. known \subseteq 0 .. 2 * i
      BY DEF Known
    <3>2. IsFiniteSet(0 .. 2 * i)
      <4>1. 2 * i \in Int
        OBVIOUS
      <4> QED
        BY <4>1, FS_Interval
    <3> HIDE DEF known
    <3> QED
      BY <3>1, <3>2, FS_Subset
  <2> HIDE DEF known
  <2>3. SetOps!Max(known) \in known /\ 2 * i <= SetOps!Max(known)
    BY <2>1, <2>2, ExtremesExist
  <2>4. SetOps!Max(known) = 2 * i
    <3>1. SetOps!Max(known) \in Int /\ SetOps!Max(known) <= 2 * i
      BY <2>1, <2>3
    <3> QED
      BY <2>3, <3>1
  <2>5. LastWeight(reports, fallback, i) = reports[2 * i]
    BY <2>1, <2>4 DEF LastWeight, known
  <2> QED
    BY <1>1, <2>5
<1>2. CASE 2 * i \notin DOMAIN reports /\ i = 0
  <2>1. Known(reports, i) = {}
    BY <1>2 DEF Known
  <2> QED
    BY <1>2, <2>1 DEF LastWeight
<1>3. CASE 2 * i \notin DOMAIN reports /\ i # 0
  <2>1. Known(reports, i) = Known(reports, i - 1)
    <3>1. ASSUME NEW t \in DOMAIN reports PROVE t \in Known(reports, i) <=> t \in Known(reports, i - 1)
      <4>1. t \in Int /\ t # 2 * i
        BY <1>3
      <4>2. t % 2 = 0 => (t <= 2 * i <=> t <= 2 * (i - 1))
        BY <4>1
      <4> QED
        BY <4>2 DEF Known
    <3> QED
      BY <3>1 DEF Known
  <2> QED
    BY <1>3, <2>1 DEF LastWeight
<1> QED
  BY <1>1, <1>2, <1>3

\* What the recursion over the buckets returns.
CarriesOn(weight, reports, fallback) ==
    weight = [i \in Bucket |-> IF 2 * i \in DOMAIN reports THEN reports[2 * i]
                               ELSE IF i = 0 THEN fallback ELSE weight[i - 1]]

LEMMA WeightsAreLast ==
    ASSUME NEW reports, DOMAIN reports \subseteq Int, NEW fallback, NEW i \in Bucket
    PROVE  NormalizeWeightBuckets(reports, fallback)[i] = LastWeight(reports, fallback, i)
<1> DEFINE last(j) == LastWeight(reports, fallback, j)
           g == [j \in Bucket |-> last(j)]
           weight == NormalizeWeightBuckets(reports, fallback)
<1>1. BucketCount \in Nat
  BY ProxyChartsConstants, Zenon
<1>2. \A j \in Bucket : j \in Nat /\ (j # 0 => j - 1 \in Bucket)
  BY <1>1 DEF Bucket
<1>3. \A j \in Bucket : last(j) = IF 2 * j \in DOMAIN reports THEN reports[2 * j]
                                  ELSE IF j = 0 THEN fallback ELSE last(j - 1)
  BY <1>2, LastWeightCarries
<1>4. CarriesOn(g, reports, fallback)
  <2> HIDE DEF last
  <2>1. \A j \in Bucket : g[j] = IF 2 * j \in DOMAIN reports THEN reports[2 * j]
                                 ELSE IF j = 0 THEN fallback ELSE g[j - 1]
    BY <1>2, <1>3
  <2>2. g = [j \in Bucket |-> g[j]]
    OBVIOUS
  <2> HIDE DEF g
  <2> QED
    BY <2>1, <2>2, Zenon DEF CarriesOn
<1>5. weight = CHOOSE w : CarriesOn(w, reports, fallback)
  BY Zenon DEF NormalizeWeightBuckets, CarriesOn
<1>6. CarriesOn(weight, reports, fallback)
  <2> HIDE DEF weight, g
  <2> QED
    BY <1>4, <1>5, Zenon
<1> HIDE DEF weight, g
<1>7. \A j \in Bucket : weight[j] = IF 2 * j \in DOMAIN reports THEN reports[2 * j]
                                    ELSE IF j = 0 THEN fallback ELSE weight[j - 1]
  BY <1>6, Zenon DEF CarriesOn
<1> DEFINE T == {j \in Nat : j \in Bucket => weight[j] = last(j)}
<1>8. 0 \in T
  <2> HIDE DEF last
  <2>1. 0 \in Bucket => weight[0] = last(0)
    BY <1>3, <1>7
  <2> QED
    BY <2>1
<1>9. ASSUME NEW j \in T, j < i PROVE j + 1 \in T
  <2> HIDE DEF last
  <2>1. j \in Nat /\ i \in Nat /\ j + 1 \in Nat /\ j + 1 # 0 /\ (j + 1) - 1 = j
    BY <1>2
  <2>2. j \in Bucket /\ j + 1 \in Bucket
    BY <1>1, <1>9, <2>1 DEF Bucket
  <2>3. weight[j] = last(j)
    BY <2>2
  <2>4. weight[j + 1] = last(j + 1)
    BY <1>3, <1>7, <2>1, <2>2, <2>3
  <2> QED
    BY <2>1, <2>4
<1>10. i \in Nat /\ T \in SUBSET Nat
  BY <1>2
<1> HIDE DEF T
<1>11. 0 .. i \subseteq T
  BY <1>8, <1>9, <1>10, StepsUpTo
<1>12. i \in T
  BY <1>10, <1>11
<1> QED
  BY <1>12 DEF T, weight

LineSample == [what : {"line"}, reports : Reports(ReportWeight), weight : ReportWeight, others : [Bucket -> ReportWeight]]

LEMMA LineShows == ASSUME chartSample \in LineSample PROVE LineShowsWeights
<1> DEFINE reports == chartSample.reports
           others == chartSample.others
           weights == NormalizeWeightBuckets(reports, chartSample.weight)
           scale == WeightTrendScale(weights, others)
           cell == WeightTrendCell(weights, scale)
           known(i) == {t \in DOMAIN reports : t % 2 = 0 /\ 0 <= t /\ t <= 2 * i}
           most == SetOps!Max(Values(weights, others))
           least == SetOps!Min(Values(weights, others))
           padding == Larger((most - least) * 8, 20)
           span == scale.max - scale.min
           ratio(w) == Larger(0, Smaller(span, w * 100 - scale.min))
<1>1. /\ reports \in Reports(ReportWeight) /\ chartSample.weight \in ReportWeight
      /\ others \in [Bucket -> ReportWeight]
  BY DEF LineSample
<1>2. ReportWeight \subseteq Int
  BY ProxyChartsConstants, Zenon
<1> HIDE DEF reports, others
<1>3. DOMAIN reports \subseteq Int /\ \A x \in DOMAIN reports : reports[x] \in Int
  BY <1>1, <1>2, ReportsAre
<1>4. \A i \in Bucket : weights[i] = LastWeight(reports, chartSample.weight, i)
  BY <1>3, WeightsAreLast
<1>5. ASSUME NEW i \in Bucket
      PROVE  weights[i] = IF known(i) = {} THEN chartSample.weight ELSE reports[SetOps!Max(known(i))]
  BY <1>4, Zenon DEF LastWeight, Known
<1>6. \A i \in Bucket : weights[i] \in Int /\ others[i] \in Int
  <2>1. ASSUME NEW i \in Bucket PROVE weights[i] \in Int
    <3>1. i \in Int
      <4>1. BucketCount \in Nat
        BY ProxyChartsConstants, Zenon
      <4> QED
        BY <4>1 DEF Bucket
    <3>2. known(i) \subseteq 0 .. 2 * i /\ 2 * i \in Int /\ known(i) \subseteq DOMAIN reports
      BY <1>3, <3>1
    <3>3. IsFiniteSet(known(i))
      <4> HIDE DEF known
      <4>1. IsFiniteSet(0 .. 2 * i)
        BY <3>2, FS_Interval
      <4> QED
        BY <3>2, <4>1, FS_Subset
    <3> HIDE DEF known
    <3>4. known(i) # {} => SetOps!Max(known(i)) \in DOMAIN reports
      BY <1>3, <3>2, <3>3, ExtremesExist
    <3> HIDE DEF weights
    <3> QED
      BY <1>1, <1>2, <1>3, <1>5, <3>4
  <2> HIDE DEF weights
  <2> QED
    BY <1>1, <1>2, <2>1
<1> HIDE DEF weights
<1>7. /\ most \in Int /\ least \in Int /\ least <= 0 /\ 0 <= most
      /\ \A i \in Bucket : least <= weights[i] /\ weights[i] <= most
  BY <1>6, ScaleReaches
<1>8. scale.min = least * 100 - padding /\ scale.max = most * 100 + padding
  BY SMT DEF WeightTrendScale, Values
<1> HIDE DEF most, least, scale
<1>9. padding \in Int /\ padding >= 20
  BY <1>7 DEF Larger
<1> HIDE DEF padding
<1>10. scale.min \in Int /\ span \in Int /\ span = (most - least) * 100 + 2 * padding /\ span > 0
  BY <1>7, <1>8, <1>9
<1>11. ASSUME NEW w \in Int, least <= w, w <= most
       PROVE  /\ ratio(w) = (w - least) * 100 + padding
              /\ 0 < ratio(w) /\ ratio(w) < span
  <2>1. w * 100 - scale.min = (w - least) * 100 + padding
    BY <1>7, <1>8, <1>9
  <2>2. 0 < (w - least) * 100 + padding /\ (w - least) * 100 + padding < span
    BY <1>7, <1>9, <1>10, <1>11
  <2> HIDE DEF span
  <2> QED
    BY <1>7, <1>9, <1>10, <2>1, <2>2 DEF Larger, Smaller
<1>12. /\ cell.span = span /\ cell.zeroY = CellHeight * span - ratio(0) * CellHeight
       /\ \A i \in Bucket : cell.y[i] = CellHeight * span - ratio(weights[i]) * CellHeight
  BY Zenon DEF WeightTrendCell, BuildWeightTrendGeometry
<1> HIDE DEF cell, span, ratio
<1>13. ratio(0) = padding - least * 100 /\ 0 < ratio(0) /\ ratio(0) < span
  BY <1>7, <1>9, <1>11
<1>14. ASSUME NEW i \in Bucket
       PROVE  /\ 0 < cell.y[i] /\ cell.y[i] < CellHeight * cell.span
              /\ 0 < cell.zeroY /\ cell.zeroY < CellHeight * cell.span
              /\ weights[i] > 0 <=> cell.y[i] < cell.zeroY
  <2>1. weights[i] \in Int /\ ratio(weights[i]) = (weights[i] - least) * 100 + padding
        /\ 0 < ratio(weights[i]) /\ ratio(weights[i]) < span
    BY <1>6, <1>7, <1>11
  <2>2. cell.y[i] = 40 * span - 40 * ratio(weights[i]) /\ cell.zeroY = 40 * span - 40 * ratio(0)
        /\ CellHeight * cell.span = 40 * span
    BY <1>7, <1>9, <1>10, <1>12, <1>13, <2>1 DEF CellHeight
  <2> QED
    BY <1>7, <1>9, <1>10, <1>13, <2>1, <2>2
<1> QED
  BY <1>5, <1>14, Zenon DEF LineShowsWeights, reports, others, weights, scale, cell, known

\* Whatever the server reports is shown as it should be.
LEMMA ChartsShow ==
    ASSUME chartSample = NoChart \/ ChartInit
    PROVE  ChartTypeOK /\ RowsRankNodes /\ BarsFillCell /\ LineShowsWeights
<1>1. CASE chartSample = NoChart
  <2>1. chartSample.what = "none"
    BY <1>1 DEF NoChart
  <2> QED
    BY <2>1 DEF ChartTypeOK, RowsRankNodes, BarsFillCell, LineShowsWeights
<1>2. CASE chartSample \in NodesSample
  <2>1. chartSample.what = "nodes"
    BY <1>2 DEF NodesSample
  <2>2. RowsRankNodes
    BY <1>2, RowsRank
  <2> QED
    BY <2>1, <2>2 DEF ChartTypeOK, BarsFillCell, LineShowsWeights
<1>3. CASE chartSample \in BarsSample
  <2>1. chartSample.what = "bars"
    BY <1>3 DEF BarsSample
  <2>2. BarsFillCell
    BY <1>3, BarsFill
  <2> QED
    BY <2>1, <2>2 DEF ChartTypeOK, RowsRankNodes, LineShowsWeights
<1>4. CASE chartSample \in LineSample
  <2>1. chartSample.what = "line"
    BY <1>4 DEF LineSample
  <2>2. LineShowsWeights
    BY <1>4, LineShows
  <2> QED
    BY <2>1, <2>2 DEF ChartTypeOK, RowsRankNodes, BarsFillCell
<1>5. ChartInit => \/ chartSample \in NodesSample \/ chartSample \in BarsSample
                   \/ chartSample \in LineSample
  BY Zenon DEF ChartInit, NodesSample, BarsSample, LineSample
<1> QED
  BY <1>1, <1>2, <1>3, <1>4, <1>5
==============================================================================
