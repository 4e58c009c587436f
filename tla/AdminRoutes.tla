---------------------------- MODULE AdminRoutes ----------------------------
(***************************************************************************)
(* The address of the admin page and the lists it carries                   *)
(* (web/src/admin/routes.ts, navigate* of web/src/AdminDashboard.tsx).  The  *)
(* page of a user, token, key or tag is opened with the query, page, sort   *)
(* and filters of the list it was opened from in its own address, so that   *)
(* its Back button can rebuild the list.  The state of a list is read from  *)
(* the address only when the route changes: pressing a pager or a filter    *)
(* sets the state and writes the address itself, and the user search box    *)
(* sets the state after 250 ms without writing any address.                 *)
(* A path is the sequence of its segments after /admin; an id is encoded    *)
(* and thus one segment.  A sort is a field with its direction.             *)
(***************************************************************************)
EXTENDS Integers, Sequences

CONSTANTS
    RouteId,         \* ids of users, tokens, keys and tags
    QueryText,       \* what can be searched for, trimmed
    RouteTag,        \* tags a users list can be filtered by
    OverviewSort,    \* fields the users list sorts by
    UsageSort,       \* further fields of the users' usage list
    TokenSort,       \* fields of the usage list of unbound tokens
    KeyFilter,       \* <<"group" | "status" | "region", value>> of the keys list
    KeysPerPage,     \* page sizes of the keys list
    DefaultSort,     \* the fields the lists are sorted by, descending, unless a sort is picked
    MaxRoutePage,    \* bound: pages
    Tour             \* bound: sets of routes, one of which a session stays in

NothingTyped == ""
OnlySpaces == " "
ASSUME AdminRoutesConstants ==
    /\ RouteId \cap {"tags", "usage", "new", "leaderboard"} = {} /\ OverviewSort \cap UsageSort = {}
    /\ NothingTyped \notin QueryText /\ OnlySpaces \notin QueryText /\ MaxRoutePage \in Nat \ {0}
    /\ 20 \in KeysPerPage /\ KeysPerPage \subseteq 1 .. 100   \* what the pager offers
    /\ Tour # {} /\ \A t \in Tour : "dashboard" \in t
\* The facets of the server have no blank status or region, only a blank group.
ASSUME FacetsAssumption == \A v \in KeyFilter : v[1] = "group" \/ v[2] # NothingTyped

VARIABLES
    address,         \* window.location: its path and its parameters
    adminRoute,      \* route
    usersList,       \* usersQuery, usersTagFilterId, usersPage, usersSort, usersSortOrder
    unboundList,     \* the same of the unbound token usage list
    keysList,        \* keysPage, keysPerPage, selectedKey*
    searchInput,     \* usersQueryInput, unboundTokenUsageQueryInput, keyRegistrationIpInput
    cameFrom,        \* ghost: the list the page was opened from, as it was shown, or NoList
    tour             \* bound: the routes of this session

routeVars == <<address, adminRoute, usersList, unboundList, keysList, searchInput, cameFrom, tour>>

NoId == "none"
NoSort == <<"none", "none">>
AnyTag == "none"
NoList == [list |-> "none"]
Direction == {"asc", "desc"}
SortsBy(fields) == {NoSort} \cup (fields \X Direction)
Text == QueryText \cup {NothingTyped}
Typed == Text \cup {OnlySpaces}
Trim(t) == IF t = OnlySpaces THEN NothingTyped ELSE t
Page == 1 .. MaxRoutePage
ListState == [q : Text, tagId : RouteTag \cup {AnyTag}, page : Page,
              sort : SortsBy(OverviewSort \cup UsageSort)]
TokenListState == [q : Text, page : Page, sort : SortsBy(TokenSort)]
KeysState == [page : Page, perPage : KeysPerPage, picked : SUBSET KeyFilter, ip : Text]

---------------------------------------------------------------------------
\* Routes and paths.

Module == {"dashboard", "tokens", "keys", "requests", "jobs", "users", "alerts", "proxy-settings"}
At(name, id) == [name |-> name, id |-> id]

\* parseAdminPath: the remainder of a path is an id if it is one segment.
ParseUsersPath(p) ==
    LET n == Len(p) IN
    IF n >= 2 /\ p[2] = "tags"
    THEN IF n # 3 THEN At("user-tags", NoId)
         ELSE IF p[3] = "new" THEN At("user-tag-create", NoId) ELSE At("user-tag-edit", p[3])
    ELSE IF n # 2 THEN At("users", NoId)
         ELSE IF p[2] = "usage" THEN At("user-usage", NoId) ELSE At("user", p[2])
ParseAdminPath(p) ==
    LET n == Len(p) IN
    CASE n = 0 -> At("dashboard", NoId)
      [] n > 0 /\ p[1] = "tokens" ->
             IF n # 2 THEN At("tokens", NoId)
             ELSE IF p[2] = "leaderboard" THEN At("unbound-token-usage", NoId) ELSE At("token", p[2])
      [] n > 0 /\ p[1] = "keys" -> IF n = 2 THEN At("key", p[2]) ELSE At("keys", NoId)
      [] n > 0 /\ p[1] = "users" -> ParseUsersPath(p)
      [] OTHER -> IF n = 1 /\ p[1] \in Module THEN At(p[1], NoId) ELSE At("dashboard", NoId)

IsSameAdminRoute(left, right) == left.name = right.name /\ left.id = right.id

NoParams == [q |-> NothingTyped, tagId |-> AnyTag, page |-> 1, sort |-> NoSort, view |-> "none",
             perPage |-> 20, picked |-> {}, registrationIp |-> NothingTyped]
Address(path, params) == [path |-> path, params |-> params]

\* appendUsersContext: /users/usage needs no view parameter.
AppendUsersContext(path, u, collection) ==
    Address(path, [NoParams EXCEPT !.q = Trim(u.q), !.tagId = u.tagId, !.page = u.page, !.sort = u.sort,
                   !.view = IF collection = "usage" /\ path # <<"users", "usage">> THEN "usage" ELSE "none"])
AppendTokensContext(path, t, collection) ==
    Address(path, [NoParams EXCEPT !.q = Trim(t.q), !.page = t.page, !.sort = t.sort,
                   !.view = IF collection = "unbound-usage" THEN "unbound-usage" ELSE "none"])
\* Values of a status or a region that are blank are dropped, a blank group is the keys without one.
NormalizeKeyContextValues(picked) == {v \in picked : v[1] = "group" \/ v[2] # NothingTyped}

\* Mutant: the page size is left out of the address.
AppendKeysContextNoSize(path, k) ==
    Address(path, [NoParams EXCEPT !.page = k.page, !.picked = NormalizeKeyContextValues(k.picked),
                   !.registrationIp = Trim(k.ip)])

AppendKeysContext(path, k) ==
    Address(path, [NoParams EXCEPT !.page = k.page, !.perPage = k.perPage,
                   !.picked = NormalizeKeyContextValues(k.picked), !.registrationIp = Trim(k.ip)])

BuildAdminUsersPath(u) == AppendUsersContext(<<"users">>, u, "users")
UserUsagePath(u) == AppendUsersContext(<<"users", "usage">>, u, "usage")
UserDetailPath(id, u, collection) == AppendUsersContext(<<"users", id>>, u, collection)
UserTagsPath(u, collection) == AppendUsersContext(<<"users", "tags">>, u, collection)
UserTagCreatePath(u, collection) == AppendUsersContext(<<"users", "tags", "new">>, u, collection)
UserTagEditPath(id, u, collection) == AppendUsersContext(<<"users", "tags", id>>, u, collection)
TokenDetailPath(id, t) == AppendTokensContext(<<"tokens", id>>, t, "unbound-usage")
UnboundTokenUsagePath(t) == AppendTokensContext(<<"tokens", "leaderboard">>, t, "tokens")
BuildAdminKeysPath(k) == AppendKeysContext(<<"keys">>, k)
KeyDetailPath(id, k) == AppendKeysContext(<<"keys", id>>, k)

---------------------------------------------------------------------------
\* What the lists read back: a sort by an unknown field is none.

UsersFrom(a) ==
    [q |-> Trim(a.params.q), tagId |-> a.params.tagId, page |-> a.params.page,
     sort |-> IF a.params.sort \in SortsBy(OverviewSort \cup UsageSort) THEN a.params.sort ELSE NoSort]
UnboundFrom(a) ==
    [q |-> Trim(a.params.q), page |-> a.params.page,
     sort |-> IF a.params.sort \in SortsBy(TokenSort) THEN a.params.sort ELSE NoSort]
KeysFrom(a) ==
    [page |-> a.params.page, perPage |-> IF a.params.perPage > 100 THEN 100 ELSE a.params.perPage,
     picked |-> NormalizeKeyContextValues(a.params.picked), ip |-> Trim(a.params.registrationIp)]
UsersCollection(a) == IF a.params.view = "usage" THEN "usage" ELSE "users"

\* The list of users shows only the sorts it has columns for.
OverviewOnly(sort) == IF sort \in SortsBy(OverviewSort) THEN sort ELSE NoSort
OnUsage == adminRoute.name = "user-usage"
Collection == IF OnUsage \/ UsersCollection(address) = "usage" THEN "usage" ELSE "users"
UsersCollectionRoute(r) == r.name \in {"users", "user-usage"}

\* The effects of a new route: the list it shows reads its state from the address.
UsersShownAt(r, a) ==
    LET u == UsersFrom(a) IN IF r.name = "users" THEN [u EXCEPT !.sort = OverviewOnly(u.sort)] ELSE u
SyncUsers(r, a) == IF UsersCollectionRoute(r) THEN UsersShownAt(r, a) ELSE usersList
SyncUnbound(r, a) == IF r.name = "unbound-token-usage" THEN UnboundFrom(a) ELSE unboundList
SyncKeys(r, a) == IF r.name = "keys" THEN KeysFrom(a) ELSE keysList
SyncInput(r, a) ==
    CASE UsersCollectionRoute(r) -> [searchInput EXCEPT !.users = UsersFrom(a).q]
      [] r.name = "unbound-token-usage" -> [searchInput EXCEPT !.unbound = UnboundFrom(a).q]
      [] r.name = "keys" -> [searchInput EXCEPT !.keys = KeysFrom(a).ip]
      [] OTHER -> searchInput

Sync(r, a) ==
    /\ usersList' = SyncUsers(r, a) /\ unboundList' = SyncUnbound(r, a) /\ keysList' = SyncKeys(r, a)
    /\ searchInput' = SyncInput(r, a)

\* A list as it is shown at route r.
ShownList(r, u, t, k) ==
    CASE UsersCollectionRoute(r) -> [list |-> r.name, state |-> u]
      [] r.name = "unbound-token-usage" -> [list |-> r.name, state |-> t]
      [] r.name = "keys" -> [list |-> r.name, state |-> k]
      [] OTHER -> NoList

\* A page of its own keeps the list it came from through the tag pages, which can be walked.
CameFrom(r) ==
    CASE r.name \in {"user-tags", "user-tag-create", "user-tag-edit"} ->
             IF adminRoute.name = "users" THEN ShownList(adminRoute, usersList, unboundList, keysList)
             ELSE IF adminRoute.name \in {"user", "user-tags", "user-tag-create", "user-tag-edit"} THEN cameFrom
             ELSE NoList
      [] r.name = "user" /\ UsersCollectionRoute(adminRoute) ->
             ShownList(adminRoute, usersList, unboundList, keysList)
      [] r.name = "token" /\ adminRoute.name = "unbound-token-usage" ->
             ShownList(adminRoute, usersList, unboundList, keysList)
      [] r.name = "key" /\ adminRoute.name = "keys" -> ShownList(adminRoute, usersList, unboundList, keysList)
      [] OTHER -> NoList

\* navigateToPath to another route: the route object is new and the effects run.
NavigateToPath(a) ==
    LET r == ParseAdminPath(a.path) IN
    /\ r.name \in tour /\ address' = a /\ UNCHANGED tour
    /\ IF IsSameAdminRoute(adminRoute, r)
       THEN UNCHANGED <<adminRoute, usersList, unboundList, keysList, searchInput, cameFrom>>
       ELSE adminRoute' = r /\ Sync(r, a) /\ cameFrom' = CameFrom(r)

---------------------------------------------------------------------------
\* Navigation.

NavigateModule(target) ==
    NavigateToPath(IF target = "user-usage" THEN UserUsagePath(UsersFrom(address))
                   ELSE Address(<<target>>, NoParams))

\* A key opened from its list takes the list along, from a token's page it does not.
NavigateKey(id) ==
    CASE adminRoute.name = "keys" -> NavigateToPath(KeyDetailPath(id, keysList))
      [] adminRoute.name = "token" -> NavigateToPath(Address(<<"keys", id>>, NoParams))
      [] OTHER -> FALSE

\* A token opened from the usage list takes the list along, any other does not.
NavigateToken(id) ==
    CASE adminRoute.name = "unbound-token-usage" -> NavigateToPath(TokenDetailPath(id, unboundList))
      [] adminRoute.name \in {"tokens", "user"} -> NavigateToPath(Address(<<"tokens", id>>, NoParams))
      [] OTHER -> FALSE

BackFromToken ==
    IF address.params.view = "unbound-usage" THEN UnboundTokenUsagePath(UnboundFrom(address))
    ELSE Address(<<"tokens">>, NoParams)
NavigateBackFromTokenDetail == adminRoute.name = "token" /\ NavigateToPath(BackFromToken)

\* From the lists of users, from the users bound to a key (with the list left last) and,
\* without a list, from the page of a token.
NavigateUser(id) ==
    \/ /\ UsersCollectionRoute(adminRoute) \/ adminRoute.name = "key"
       /\ NavigateToPath(UserDetailPath(id, usersList, Collection))
    \/ adminRoute.name = "token" /\ NavigateToPath(Address(<<"users", id>>, NoParams))

BuildUsersCollectionPath(u) == IF Collection = "usage" THEN UserUsagePath(u) ELSE BuildAdminUsersPath(u)

\* Back of a user's page and of the tags.
BackToUsers == BuildUsersCollectionPath(UsersFrom(address))
NavigateBackToUsers ==
    adminRoute.name \in {"user", "user-tags", "user-tag-create", "user-tag-edit"} /\ NavigateToPath(BackToUsers)

BackFromKey == BuildAdminKeysPath(KeysFrom(address))
NavigateBackFromKey == adminRoute.name = "key" /\ NavigateToPath(BackFromKey)

\* Back of the usage list of users: its sort is kept if the list of users has it.
BackFromUsage ==
    OnUsage /\ NavigateToPath(BuildAdminUsersPath([usersList EXCEPT !.sort = OverviewOnly(usersList.sort)]))

NavigateUserTags ==
    /\ adminRoute.name \in {"users", "user", "user-tag-create", "user-tag-edit"}
    /\ NavigateToPath(UserTagsPath(IF adminRoute.name = "users" THEN usersList ELSE UsersFrom(address), Collection))
OnTags == adminRoute.name \in {"user-tags", "user-tag-create", "user-tag-edit"}
NavigateUserTagCreate ==
    OnTags /\ NavigateToPath(UserTagCreatePath(UsersFrom(address), UsersCollection(address)))
NavigateUserTagEdit(id) ==
    OnTags /\ NavigateToPath(UserTagEditPath(id, UsersFrom(address), UsersCollection(address)))
NavigateUnboundTokenUsage ==
    adminRoute.name = "tokens" /\ NavigateToPath(UnboundTokenUsagePath([q |-> NothingTyped, page |-> 1, sort |-> NoSort]))

---------------------------------------------------------------------------
\* The lists.

\* navigateUsersSearch: the state is set and the address written; on a new route the effects read it again.
NavigateUsersSearch(u) ==
    LET a == BuildUsersCollectionPath(u)
        r == ParseAdminPath(a.path)
    IN /\ r.name \in tour /\ address' = a /\ adminRoute' = r /\ cameFrom' = NoList
       /\ usersList' = IF IsSameAdminRoute(adminRoute, r) THEN u ELSE UsersShownAt(r, a)
       /\ searchInput' = [searchInput EXCEPT !.users = u.q]
       /\ UNCHANGED <<unboundList, keysList, tour>>

GoToUsersPage(p) == UsersCollectionRoute(adminRoute) /\ NavigateUsersSearch([usersList EXCEPT !.page = p])
ApplyUserSearch ==
    /\ UsersCollectionRoute(adminRoute)
    /\ NavigateUsersSearch([usersList EXCEPT !.q = Trim(searchInput.users), !.page = 1])
ResetUserSearch ==
    /\ UsersCollectionRoute(adminRoute)
    /\ NavigateUsersSearch([usersList EXCEPT !.q = NothingTyped, !.tagId = AnyTag, !.page = 1])
\* desc, then asc, then the default order.
NextSort(sort, field) ==
    CASE sort = <<field, "desc">> \/ (sort = NoSort /\ field \in DefaultSort) -> <<field, "asc">>
      [] sort = <<field, "asc">> -> NoSort
      [] OTHER -> <<field, "desc">>
ToggleUsersSort(field) ==
    /\ field \in OverviewSort \/ OnUsage
    /\ UsersCollectionRoute(adminRoute)
    /\ NavigateUsersSearch([usersList EXCEPT !.page = 1, !.sort = NextSort(usersList.sort, field)])
\* "users" of a tag's card searches the users of the tag.
ShowUsersOfTag(tag, text) ==
    OnTags /\ NavigateUsersSearch([usersList EXCEPT !.q = text, !.tagId = tag, !.page = 1])

NavigateUnboundTokenUsageSearch(t) ==
    /\ adminRoute.name = "unbound-token-usage"
    /\ unboundList' = t /\ searchInput' = [searchInput EXCEPT !.unbound = t.q]
    /\ address' = UnboundTokenUsagePath(t)
    /\ UNCHANGED <<adminRoute, usersList, keysList, cameFrom, tour>>
GoToUnboundPage(p) == NavigateUnboundTokenUsageSearch([unboundList EXCEPT !.page = p])
ApplyUnboundSearch ==
    NavigateUnboundTokenUsageSearch([unboundList EXCEPT !.q = Trim(searchInput.unbound), !.page = 1])
ResetUnboundSearch == NavigateUnboundTokenUsageSearch([unboundList EXCEPT !.q = NothingTyped, !.page = 1])
ToggleUnboundSort(field) ==
    NavigateUnboundTokenUsageSearch([unboundList EXCEPT !.page = 1, !.sort = NextSort(unboundList.sort, field)])

NavigateKeysList(k) ==
    /\ adminRoute.name = "keys"
    /\ keysList' = k /\ searchInput' = [searchInput EXCEPT !.keys = k.ip]
    /\ address' = BuildAdminKeysPath(k)
    /\ UNCHANGED <<adminRoute, usersList, unboundList, cameFrom, tour>>
GoToKeysPage(p) == NavigateKeysList([keysList EXCEPT !.page = p])
ChangeKeysPerPage(n) == NavigateKeysList([keysList EXCEPT !.page = 1, !.perPage = n])
ToggleKeyFilter(v) ==
    NavigateKeysList([keysList EXCEPT !.page = 1,
                      !.picked = IF v \in @ THEN @ \ {v} ELSE @ \cup {v}])
ClearKeyFilters(kind) ==
    NavigateKeysList([keysList EXCEPT !.page = 1, !.picked = {v \in @ : v[1] # kind}])
ClearKeyRegistrationIp == NavigateKeysList([keysList EXCEPT !.page = 1, !.ip = NothingTyped])

\* Typing into a search box; 250 ms later, on any page, the list of users takes the text and the
\* keys list, if it is still shown, goes where a search goes.
TypeSearch(box, t) ==
    /\ box = "users" => UsersCollectionRoute(adminRoute)
    /\ box = "unbound" => adminRoute.name = "unbound-token-usage"
    /\ box = "keys" => adminRoute.name = "keys"
    /\ searchInput' = [searchInput EXCEPT ![box] = t]
    /\ UNCHANGED <<address, adminRoute, usersList, unboundList, keysList, cameFrom, tour>>
UsersQueryDebounced ==
    /\ Trim(searchInput.users) # usersList.q
    /\ usersList' = [usersList EXCEPT !.q = Trim(searchInput.users), !.page = 1]
    /\ UNCHANGED <<address, adminRoute, unboundList, keysList, searchInput, cameFrom, tour>>
KeyIpDebounced ==
    /\ Trim(searchInput.keys) # keysList.ip
    /\ NavigateKeysList([keysList EXCEPT !.page = 1, !.ip = Trim(searchInput.keys)])

\* onPopState: the browser goes to an address of its history: always a new route object.
HistoryEntry ==
    {Address(<<m>>, NoParams) : m \in {"tokens", "users", "keys"}}
    \cup {BuildAdminUsersPath(u) : u \in {x \in ListState : x.q = NothingTyped /\ x.page = 1}}
    \cup {BuildAdminKeysPath(k) : k \in {x \in KeysState : x.ip = NothingTyped /\ x.page = 1}}
OnPopState(a) ==
    LET r == ParseAdminPath(a.path) IN
    /\ r.name \in tour
    /\ address' = a /\ adminRoute' = r /\ Sync(r, a) /\ cameFrom' = NoList /\ UNCHANGED tour

---------------------------------------------------------------------------
\* Page loaded at any list: every list starts with what the address says.
RouteInit ==
    /\ tour \in Tour
    /\ address \in {Address(<<"dashboard">>, NoParams), Address(<<"users">>, NoParams)}
                   \cup {BuildAdminKeysPath(k) : k \in KeysState}
    /\ adminRoute = ParseAdminPath(address.path) /\ adminRoute.name \in tour
    /\ usersList = UsersFrom(address) /\ unboundList = UnboundFrom(address) /\ keysList = KeysFrom(address)
    /\ searchInput = [users |-> UsersFrom(address).q, unbound |-> UnboundFrom(address).q,
                      keys |-> KeysFrom(address).ip]
    /\ cameFrom = NoList

RouteNext ==
    \/ \E target \in Module \cup {"user-usage"} : NavigateModule(target)
    \/ \E id \in RouteId : NavigateKey(id) \/ NavigateToken(id) \/ NavigateUser(id) \/ NavigateUserTagEdit(id)
    \/ NavigateBackFromTokenDetail \/ NavigateBackToUsers \/ NavigateBackFromKey \/ BackFromUsage
    \/ NavigateUserTags \/ NavigateUserTagCreate \/ NavigateUnboundTokenUsage
    \/ \E p \in Page : GoToUsersPage(p) \/ GoToUnboundPage(p) \/ GoToKeysPage(p)
    \/ ApplyUserSearch \/ ResetUserSearch \/ ApplyUnboundSearch \/ ResetUnboundSearch
    \/ \E f \in OverviewSort \cup UsageSort : ToggleUsersSort(f)
    \/ \E f \in TokenSort : ToggleUnboundSort(f)
    \/ \E tag \in RouteTag, text \in QueryText : ShowUsersOfTag(tag, text)
    \/ \E n \in KeysPerPage : ChangeKeysPerPage(n)
    \/ \E v \in KeyFilter : ToggleKeyFilter(v)
    \/ \E kind \in {"group", "status", "region"} : ClearKeyFilters(kind)
    \/ ClearKeyRegistrationIp
    \/ \E box \in {"users", "unbound", "keys"}, t \in Typed : TypeSearch(box, t)
    \/ UsersQueryDebounced \/ KeyIpDebounced
    \/ \E a \in HistoryEntry : OnPopState(a)

RouteSpec == RouteInit /\ [][RouteNext]_routeVars

---------------------------------------------------------------------------
RouteTypeOK ==
    /\ adminRoute.name \in Module \cup {"token", "unbound-token-usage", "user-usage", "user", "user-tags",
                                        "user-tag-create", "user-tag-edit", "key"}
    /\ usersList \in ListState /\ unboundList \in TokenListState /\ keysList \in KeysState
    /\ searchInput \in [users : Typed, unbound : Typed, keys : Typed]

\* The page that is shown is the page of the address, although navigateToPath keeps the
\* route object when it takes the new route for the same one.
RouteOfAddress == adminRoute = ParseAdminPath(address.path)

\* A page opened from a list leads back to that list as it was: the same query, tag, page,
\* sort, filters and page size, through the address of the page and of the tag pages
\* walked on the way, whatever was typed or searched meanwhile.
BackShowsList ==
    cameFrom # NoList =>
        LET back == CASE adminRoute.name = "token" -> BackFromToken
                      [] adminRoute.name = "key" -> BackFromKey
                      [] OTHER -> BackToUsers
            r == ParseAdminPath(back.path)
        IN ShownList(r, SyncUsers(r, back), SyncUnbound(r, back), SyncKeys(r, back)) = cameFrom
=============================================================================
