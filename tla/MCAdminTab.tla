----------------------------- MODULE MCAdminTab -----------------------------
(***************************************************************************)
(* The parts of the admin dashboard (web/src/AdminDashboard.tsx and the     *)
(* proxy settings module) on small instances.                               *)
(*                                                                          *)
(* The parts keep their state in hooks of their own and have no variable in *)
(* common, so a property of one of them is violated in the tab only if it   *)
(* is violated while that part alone moves.  A behaviour is therefore about *)
(* one part, chosen at the start; the others stay as they start.            *)
(***************************************************************************)
EXTENDS AdminLists, AdminFeed, KeysImport, UserEdits, TagEdits, RowEdits, SecretCopy,
        AdminRoutes, BrokenKeys, Registration, ProxySettings, ProxyProgress, ProxyCharts, TLC

CONSTANTS t1, b1, b2, fAll, fOne, fNone

VARIABLE focus   \* the part this behaviour is about

TabPart == {"lists", "feed", "import", "users", "tags", "rows", "secrets", "routes", "broken",
            "registration", "proxy", "progress", "charts"}
tabVars == <<focus, listVars, feedVars, importVars, userVars, tagVars, rowVars, secretVars,
             routeVars, brokenVars, regVars, proxyVars, progressVars, chartVars>>

-----------------------------------------------------------------------------
(* Values of constants.                                                       *)

\* Two pages without a filter, one with it, none under a quick filter that matches no kind.
MCPages == fAll :> 2 @@ fOne :> 1 @@ fNone :> 0
\* Two buttons copy the same token.  (An upstream key is a token that is never rotated.)
MCSecretOf == b1 :> t1 @@ b2 :> t1

MCKeyFilter == {<<"group", "">>}
\* Routes that lead to each other: users, tokens and keys with their detail pages, the rest.
MCTour ==
    {{"dashboard", "users", "user-usage", "user", "user-tags", "user-tag-create", "user-tag-edit"},
     {"dashboard", "tokens", "token", "unbound-token-usage", "user-usage", "user", "key"},
     {"dashboard", "keys", "key", "user"},
     {"dashboard", "requests", "jobs", "alerts", "proxy-settings"}}

Node(source, penalized, weight) ==
    [source |-> source, penalized |-> penalized, available |-> TRUE, weight |-> weight]
MCKind == {Node("manual", FALSE, 1), Node("manual", TRUE, 2), Node("direct", FALSE, 1),
           Node("direct", TRUE, 3)}
MCTick == {-2, 0, 1, 4}
MCWeight == {-1, 0, 9}

-----------------------------------------------------------------------------
\* A part the behaviour is not about has one initial state.
Waits(part, state) == focus = part \/ state

TabInit ==
    /\ focus \in TabPart
    /\ ListInit /\ Waits("lists", list = "jobs")
    /\ FeedInit /\ Waits("feed", ~dashboard)
    /\ ImportInit /\ UserInit /\ SecretInit /\ ProxyInit /\ ProgressInit
    /\ TagInit /\ Waits("tags", serverTags = {})
    /\ RowInit /\ Waits("rows", keyStatus = [k \in KeyRow |-> "active"])
    /\ RouteInit /\ Waits("routes", adminRoute.name = "dashboard" /\ tour = CHOOSE t \in Tour : TRUE)
    /\ BrokenInit /\ Waits("broken", brokenOnServer = [s \in BrokenSubject |-> 0])
    /\ RegInit /\ Waits("registration", regServer = "on")
    /\ IF focus = "charts" THEN ChartInit ELSE chartSample = NoChart

TabNext ==
    /\ UNCHANGED <<focus, chartVars>>
    /\ IF focus = "lists" THEN ListNext ELSE UNCHANGED listVars
    /\ IF focus = "feed" THEN FeedNext ELSE UNCHANGED feedVars
    /\ IF focus = "import" THEN ImportNext ELSE UNCHANGED importVars
    /\ IF focus = "users" THEN UserNext ELSE UNCHANGED userVars
    /\ IF focus = "tags" THEN TagNext ELSE UNCHANGED tagVars
    /\ IF focus = "rows" THEN RowNext ELSE UNCHANGED rowVars
    /\ IF focus = "secrets" THEN SecretNext ELSE UNCHANGED secretVars
    /\ IF focus = "routes" THEN RouteNext ELSE UNCHANGED routeVars
    /\ IF focus = "broken" THEN BrokenNext ELSE UNCHANGED brokenVars
    /\ IF focus = "registration" THEN RegNext ELSE UNCHANGED regVars
    /\ IF focus = "proxy" THEN ProxyNext ELSE UNCHANGED proxyVars
    /\ IF focus = "progress" THEN ProgressNext ELSE UNCHANGED progressVars

TabSpec == TabInit /\ [][TabNext]_tabVars

\* Every part keeps to its types.
TabTypeOK ==
    CASE focus = "lists" -> ListTypeOK
      [] focus = "feed" -> FeedTypeOK
      [] focus = "import" -> ImportTypeOK
      [] focus = "users" -> UserTypeOK
      [] focus = "tags" -> TagTypeOK
      [] focus = "rows" -> RowTypeOK
      [] focus = "secrets" -> SecretTypeOK
      [] focus = "routes" -> RouteTypeOK
      [] focus = "broken" -> BrokenTypeOK
      [] focus = "registration" -> RegTypeOK
      [] focus = "proxy" -> ProxyTypeOK
      [] focus = "progress" -> ProgressTypeOK
      [] focus = "charts" -> ChartTypeOK

-----------------------------------------------------------------------------
(* What the pages promise, across the parts that promise the same.            *)

\* A list shows the rows its query was answered with, and "nothing here" only where there is
\* nothing, and the drawer of broken keys holds those of its subject: effects, refreshes, polls,
\* aborted requests and pages in any order.  The refreshes that ask for another query and the
\* reloads after an edit are excepted where the parts say so.
ListsShowQuery == RowsAskedByQuery /\ ReadyEmptyIsEmpty /\ DrawerShowsSubject

\* What spins is running: the rows of an import, the switches and dialogs of tokens and keys, the
\* validation of proxies and the steps of its progress, through failures, aborts, retries and
\* operations on several rows at once.  The other way round, a deletion, a note and a new token
\* hold their button while they run, and a switch or the clearing of a quarantine does unless
\* another of its kind overlaps it.
BusyIsTrue ==
    /\ PendingIsBeingChecked
    /\ BusyIsRunning /\ AloneHoldsSlot /\ OneAtATime
    /\ SpinsWhileValidating /\ SpinsOnlyWhileRunning

\* A form saves to the tag or account of its page, through late loads, reloads of the catalogue
\* and saves, but for the form of an account into which the reload after a save of another account
\* has put that account's values.
EditsKeepSubject == FormIsOfPage /\ SaveMeansCard

\* A copy button yields the secret that works: rotations invalidate what is cached or on its way,
\* the pointer that leaves does not cancel a copy, and copies share one request.
CopiesAreCurrent == CachedSecretIsCurrent /\ CopyNeverCancelled /\ TokenFetchedOnce

\* The page is that of the address, and Back leads to the list it was opened from as it was.
PagesOfAddress == RouteOfAddress /\ BackShowsList

\* The settings on the screen are those of the server, and a save changes what was edited.
SettingsAreServers == SwitchSaysServer /\ SaveEditsOneField /\ AddsWhatIsTyped

\* The table of proxy nodes ranks every node once, its bars and its line draw the reports.
ChartsShowReports == RowsRankNodes /\ BarsFillCell /\ LineShowsWeights
=============================================================================
