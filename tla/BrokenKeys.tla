----------------------------- MODULE BrokenKeys -----------------------------
(***************************************************************************)
(* The drawer with the keys a user or a token broke this month              *)
(* (web/src/AdminDashboard.tsx, admin/fetchAllMonthlyBrokenKeyItems.ts):    *)
(* opening it loads the first page of the subject's list and then, at once, *)
(* every page its total promises; the pages may be answered in any order,   *)
(* one may fail, the drawer may be opened on another subject meanwhile, and *)
(* the list on the server may change between the pages.  It is opened from  *)
(* the pages of a user and of the two usage lists, and drawn on the others. *)
(* The list of a subject on the server is n..1, the newest of n keys first. *)
(***************************************************************************)
EXTENDS Integers, Sequences, FiniteSets

CONSTANTS
    BrokenSubject,     \* users and tokens
    NoSubject,         \* no drawer
    MaxBroken,         \* bound: keys a subject broke
    BrokenPageSize,    \* keys on a page of the server
    MaxBrokenChanges   \* bound: keys broken while the drawer loads
ASSUME BrokenKeysConstants ==
    NoSubject \notin BrokenSubject /\ MaxBroken \in Nat /\ BrokenPageSize \in Nat \ {0} /\ MaxBrokenChanges \in Nat

VARIABLES
    brokenOnServer,    \* external: keys each subject broke
    brokenPage,        \* the route: a page that lists subjects, or a module
    brokenDrawer,      \* monthlyBrokenDrawer: the subject
    brokenItems,       \* monthlyBrokenDrawerItems: <<subject, entry>>
    brokenState,       \* monthlyBrokenDrawerLoadState
    brokenLoad,        \* the load: its total, the pages asked and the pages answered
    brokenChanged      \* ghost: the lists changed since the drawer was opened, and how often ever

brokenVars == <<brokenOnServer, brokenPage, brokenDrawer, brokenItems, brokenState, brokenLoad, brokenChanged>>

BrokenPages == 1 .. MaxBroken + 1
IdleLoad == [asked |-> {}, total |-> 0, pages |-> <<>>]
WholeList(s) == [i \in 1 .. brokenOnServer[s] |-> <<s, brokenOnServer[s] + 1 - i>>]
\* External: page p of the list of s.
ServerPage(s, p) ==
    LET last == p * BrokenPageSize
        n == brokenOnServer[s]
    IN SubSeq(WholeList(s), (p - 1) * BrokenPageSize + 1, IF last > n THEN n ELSE last)

BrokenTypeOK ==
    /\ brokenOnServer \in [BrokenSubject -> 0 .. MaxBroken]
    /\ brokenPage \in {"subjects", "module"} /\ brokenDrawer \in BrokenSubject \cup {NoSubject}
    /\ brokenState \in {"initial_loading", "ready", "error"}
    /\ brokenLoad.asked \subseteq BrokenPages /\ brokenLoad.total \in 0 .. MaxBroken

BrokenInit ==
    /\ brokenOnServer \in [BrokenSubject -> 0 .. MaxBroken]
    /\ brokenPage = "subjects" /\ brokenDrawer = NoSubject
    /\ brokenItems = <<>> /\ brokenState = "initial_loading"
    /\ brokenLoad = IdleLoad /\ brokenChanged = [now |-> FALSE, times |-> 0]

\* The count of a subject: the effect of the new drawer aborts the load before and starts its own.
OpenMonthlyBrokenDrawer(s) ==
    /\ brokenPage = "subjects"
    /\ brokenDrawer' = s /\ brokenState' = "initial_loading"
    /\ brokenLoad' = [IdleLoad EXCEPT !.asked = {1}] /\ brokenChanged' = [brokenChanged EXCEPT !.now = FALSE]
    /\ UNCHANGED <<brokenOnServer, brokenPage, brokenItems>>

\* The drawer is part of what the modules draw; the pages that list subjects return before it.
DrawerDrawn == brokenPage = "module" /\ brokenDrawer # NoSubject
ChangePage ==
    /\ brokenPage' = IF brokenPage = "module" THEN "subjects" ELSE "module"
    /\ UNCHANGED <<brokenOnServer, brokenDrawer, brokenItems, brokenState, brokenLoad, brokenChanged>>

CloseMonthlyBrokenDrawer ==
    /\ DrawerDrawn
    /\ brokenDrawer' = NoSubject /\ brokenItems' = <<>> /\ brokenState' = "initial_loading"
    /\ brokenLoad' = IdleLoad
    /\ UNCHANGED <<brokenOnServer, brokenPage, brokenChanged>>

ClampTotal(total, items) == IF total < items THEN items ELSE total
TotalPages(total) == IF total = 0 THEN 1 ELSE (total + BrokenPageSize - 1) \div BrokenPageSize

\* The pages one after the other, up to each of them.
Joined(pages, n) ==
    LET all[i \in 0 .. n] == IF i = 0 THEN <<>> ELSE all[i - 1] \o pages[i] IN all
AllItems(pages, n, total) ==
    LET items == Joined(pages, n)[n] IN SubSeq(items, 1, IF Len(items) < total THEN Len(items) ELSE total)

\* The load is complete: its items are shown.
ShowItems(pages, n, total) ==
    /\ brokenItems' = AllItems(pages, n, total) /\ brokenState' = "ready" /\ brokenLoad' = IdleLoad
    /\ UNCHANGED <<brokenOnServer, brokenPage, brokenDrawer, brokenChanged>>

\* The first page tells the total: the other pages are asked for at once.
FirstBrokenPageAnswered ==
    /\ brokenLoad.asked = {1} /\ brokenLoad.pages = <<>>
    /\ LET page == ServerPage(brokenDrawer, 1)
           total == ClampTotal(brokenOnServer[brokenDrawer], Len(page))
           n == TotalPages(total)
       IN IF n = 1 THEN ShowItems([i \in {1} |-> page], 1, total)
          ELSE /\ brokenLoad' = [asked |-> 2 .. n, total |-> total, pages |-> [i \in 1 .. n |-> IF i = 1 THEN page ELSE <<>>]]
               /\ UNCHANGED <<brokenOnServer, brokenPage, brokenDrawer, brokenItems, brokenState, brokenChanged>>

\* One of the others arrives, the last one completes the load.
PageAnswered(p) ==
    /\ p \in brokenLoad.asked /\ brokenLoad.pages # <<>>
    /\ LET pages == [brokenLoad.pages EXCEPT ![p] = ServerPage(brokenDrawer, p)]
       IN IF brokenLoad.asked = {p} THEN ShowItems(pages, Len(pages), brokenLoad.total)
          ELSE /\ brokenLoad' = [brokenLoad EXCEPT !.asked = @ \ {p}, !.pages = pages]
               /\ UNCHANGED <<brokenOnServer, brokenPage, brokenDrawer, brokenItems, brokenState, brokenChanged>>

\* Any page failing fails the load, whatever the others bring.
PageFails ==
    /\ brokenLoad.asked # {}
    /\ brokenItems' = <<>> /\ brokenState' = "error" /\ brokenLoad' = IdleLoad
    /\ UNCHANGED <<brokenOnServer, brokenPage, brokenDrawer, brokenChanged>>

\* External: a subject breaks another key.
KeyBreaks(s) ==
    /\ brokenOnServer[s] < MaxBroken /\ brokenChanged.times < MaxBrokenChanges
    /\ brokenOnServer' = [brokenOnServer EXCEPT ![s] = @ + 1]
    /\ brokenChanged' = [now |-> TRUE, times |-> brokenChanged.times + 1]
    /\ UNCHANGED <<brokenPage, brokenDrawer, brokenItems, brokenState, brokenLoad>>

BrokenNext ==
    \/ \E s \in BrokenSubject : OpenMonthlyBrokenDrawer(s) \/ KeyBreaks(s)
    \/ ChangePage \/ CloseMonthlyBrokenDrawer \/ FirstBrokenPageAnswered \/ PageFails
    \/ \E p \in BrokenPages : PageAnswered(p)

BrokenSpec == BrokenInit /\ [][BrokenNext]_brokenVars

---------------------------------------------------------------------------
\* What the drawer, as a table or as cards, shows: the keys, that there are none, or neither.
DrawerShows ==
    IF brokenState # "ready" THEN "region" ELSE IF brokenItems = <<>> THEN "empty" ELSE "keys"

\* The keys a drawer holds are those of its own subject, never those of the one it was opened on
\* before, and, unless a key broke since it was opened, each key of the list once: "no broken
\* keys" is said only of a subject without any, and the last, shorter page is not forgotten.
\* This is said of what the state holds on every page; that it is seen on the module pages alone
\* (DrawerDrawn) contradicts docs/specs/ksbxf-monthly-broken-key-attribution.
DrawerShowsSubject ==
    /\ DrawerShows = "keys" => \A i \in DOMAIN brokenItems : brokenItems[i][1] = brokenDrawer
    /\ DrawerShows # "region" /\ ~brokenChanged.now => brokenItems = WholeList(brokenDrawer)
=============================================================================
