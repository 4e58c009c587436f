----------------------------- MODULE PublicHome -----------------------------
(***************************************************************************)
(* The page before login (web/src/PublicHome.tsx): the token in its box,    *)
(* where it comes from (address, storage, the visitor's account, the        *)
(* dialog), and the figures and request records that are shown with it.     *)
(*                                                                          *)
(* A text is a full token, the four characters of a token's id, or another  *)
(* text.  Storage is shared with other tabs.  The dialog and the copy       *)
(* button are in HomeAccess; here they only bring texts.                    *)
(***************************************************************************)
EXTENDS Naturals

CONSTANTS
    HomeToken,      \* full tokens
    HomeId,         \* ids of tokens
    OtherText,      \* texts that are neither
    NoText,         \* the empty text, and null
    TokenIdOf,      \* the id in a full token
    AccountToken,   \* external: what fetchUserToken answers
    MaxSameRequests \* bound: equal requests on their way

HomeText == HomeToken \cup HomeId \cup OtherText \cup {NoText}
TokenOrNull == HomeToken \cup {NoText}

ASSUME HomeAssumption ==
    /\ TokenIdOf \in [HomeToken -> HomeId] /\ AccountToken \in HomeToken
    /\ HomeToken \cap HomeId = {} /\ NoText \notin HomeToken \cup HomeId
    /\ MaxSameRequests \in Nat \ {0}

VARIABLES
    home,           \* the state of the page; crossed: when its token was accepted, records of
                    \* another one were on their way or still to be asked for
    homeStore,      \* localStorage: the map of tokens and the last one
    homeRequests    \* requests on their way: how many of each

homeVars == <<home, homeStore, homeRequests>>

\* A poll is a request for metrics too.  One whose effect was cleaned up no longer counts and is
\* not in homeRequests.
HomeRequest == [what : {"metrics", "poll", "logs"}, of : HomeToken]
MetricsOf(token) == [what |-> "metrics", of |-> token]
RecordsOf(token) == [what |-> "logs", of |-> token]

HomeTypeOK ==
    /\ home \in [box : HomeText, hash : HomeText, accepted : TokenOrNull, initial : TokenOrNull,
                 loading : BOOLEAN, visitor : {"unknown", "out", "asking", "in"},
                 metrics : {"none", "load", "poll", "stray"},
                 logs : TokenOrNull, logsLoading : BOOLEAN, crossed : BOOLEAN, invalid : BOOLEAN]
    /\ homeStore \in [map : [HomeId -> TokenOrNull], last : TokenOrNull]
    /\ homeRequests \in [HomeRequest -> 0 .. MaxSameRequests]

-----------------------------------------------------------------------------
(* The token and where it is kept.                                            *)

IsFullToken(text) == text \in HomeToken
NormalizeTokenHash(text) == IF IsFullToken(text) THEN TokenIdOf[text] ELSE text

\* The token a page starts with: the one in its address, the one stored under the id in its
\* address, the last one.
InitialToken(hash, store) ==
    CASE IsFullToken(hash) -> hash
      [] hash \in HomeId /\ store.map[hash] # NoText -> store.map[hash]
      [] OTHER -> store.last

Stored(store, token) == [map |-> [store.map EXCEPT ![TokenIdOf[token]] = token], last |-> token]

\* Mutant: a text is accepted without a look at its form.
AcceptAnyText(page, text) ==
    [page EXCEPT !.box = text, !.hash = NormalizeTokenHash(text), !.accepted = text,
                 !.invalid = FALSE, !.logsLoading = TRUE]

\* The page after persistToken, which takes any text.
Accept(page, text) ==
    LET at == [page EXCEPT !.box = text, !.hash = NormalizeTokenHash(text)]
    IN  IF IsFullToken(text)
        THEN [at EXCEPT !.accepted = text, !.invalid = FALSE, !.logsLoading = TRUE]
        ELSE [at EXCEPT !.metrics = "none", !.logs = NoText, !.invalid = TRUE]

\* The effect of a new token: the poll of the token before no longer counts, and one is sent.
TokenEffect(requests, text) ==
    IF text = home.box THEN requests
    ELSE [q \in HomeRequest |-> IF q.what = "poll" THEN (IF q.of = text THEN 1 ELSE 0)
                                ELSE requests[q]]

HomeAsks(requests, asked) ==
    [q \in HomeRequest |-> IF q \in asked THEN requests[q] + 1 ELSE requests[q]]
Told(requests, q) == [requests EXCEPT ![q] = @ - 1]
Bounded == homeRequests' \in [HomeRequest -> 0 .. MaxSameRequests]

\* The records of another token may arrive under text, which is accepted now.
Crossed(page, text) ==
    \/ page.initial \notin {NoText, text}
    \/ \E t \in HomeToken \ {text} : homeRequests[RecordsOf(t)] > 0

PersistToken(page, text) ==
    /\ home' = [Accept(page, text) EXCEPT !.crossed = IF IsFullToken(text) THEN Crossed(page, text) ELSE @]
    /\ homeStore' = IF IsFullToken(text) THEN Stored(homeStore, text) ELSE homeStore
    /\ homeRequests' = HomeAsks(TokenEffect(homeRequests, text),
                              IF IsFullToken(text) THEN {MetricsOf(text), RecordsOf(text)} ELSE {})
    /\ Bounded

-----------------------------------------------------------------------------
(* The page is opened or reloaded.                                            *)

BlankPage(hash) ==
    [box |-> NoText, hash |-> hash, accepted |-> NoText, initial |-> NoText, loading |-> TRUE,
     visitor |-> "unknown", metrics |-> "none", logs |-> NoText, logsLoading |-> FALSE,
     crossed |-> FALSE, invalid |-> FALSE]

MountedPage(hash, store) ==
    LET token == InitialToken(hash, store)
        page == [BlankPage(hash) EXCEPT !.initial = token]
    IN  IF token = NoText THEN page ELSE Accept(page, token)

MountedStore(hash, store) ==
    LET token == InitialToken(hash, store)
    IN  IF token = NoText THEN store ELSE Stored(store, token)

\* The load of the page is in its field loading; these are what persistToken and the poll send.
MountedRequests(token) == [q \in HomeRequest |-> IF q.of = token THEN 1 ELSE 0]

\* Storage as pages leave it: the last token is the one under its id.
HomeInit ==
    \E hash \in HomeText, map \in [HomeId -> TokenOrNull], last \in TokenOrNull :
        LET store == [map |-> map, last |-> last]
        IN  /\ \A i \in HomeId : map[i] # NoText => TokenIdOf[map[i]] = i
            /\ IF last = NoText THEN \A i \in HomeId : map[i] = NoText ELSE map[TokenIdOf[last]] = last
            /\ home = MountedPage(hash, store) /\ homeStore = MountedStore(hash, store)
            /\ homeRequests = MountedRequests(InitialToken(hash, store))

HomeReload ==
    /\ home' = MountedPage(home.hash, homeStore) /\ homeStore' = MountedStore(home.hash, homeStore)
    /\ homeRequests' = MountedRequests(InitialToken(home.hash, homeStore))

\* Public figures, profile, summary and the token's metrics settle together.  A visitor who is
\* logged in is asked for the account's token, and a page that began with a token asks for its
\* records, whatever is in the box by then.
HomeLoaded(visitor, tokenOk) ==
    LET with == home.initial # NoText
    IN  /\ home.loading
        /\ home' = [home EXCEPT !.loading = FALSE, !.initial = NoText, !.visitor = visitor,
                                !.invalid = ~with /\ @, !.logsLoading = with \/ @,
                                !.metrics = IF with /\ tokenOk THEN "load" ELSE @]
        /\ homeRequests' = HomeAsks(homeRequests, IF with THEN {RecordsOf(home.initial)} ELSE {}) /\ Bounded
        /\ UNCHANGED homeStore

\* The account's token takes the place of the one in the box.
Hydrated == home.visitor = "asking" /\ PersistToken([home EXCEPT !.visitor = "in"], AccountToken)

HydrationFails ==
    /\ home.visitor = "asking" /\ home' = [home EXCEPT !.visitor = "in"]
    /\ UNCHANGED <<homeStore, homeRequests>>

-----------------------------------------------------------------------------
(* Figures and records.                                                       *)

\* Where figures come from that the poll or the stream bring for a token.
PolledFigures(token) == IF token = home.box THEN "poll" ELSE "stray"

\* The stream is opened again for every token and carries the metrics of a full one.
StreamMetrics ==
    /\ IsFullToken(home.box)
    /\ home' = [home EXCEPT !.metrics = PolledFigures(home.box)]
    /\ UNCHANGED <<homeStore, homeRequests>>

HomePoll ==
    /\ IsFullToken(home.box)
    /\ homeRequests' = HomeAsks(homeRequests, {[what |-> "poll", of |-> home.box]}) /\ Bounded
    /\ UNCHANGED <<home, homeStore>>

\* A failed poll is ignored, a failed request of persistToken empties the figures.
MetricsSettle(q, ok) ==
    /\ q.what # "logs" /\ homeRequests[q] > 0
    /\ homeRequests' = Told(homeRequests, q)
    /\ home' = [home EXCEPT !.metrics =
                   CASE q.what = "poll" /\ ok -> PolledFigures(q.of)
                     [] q.what = "poll" /\ ~ok -> @
                     [] OTHER -> IF ok THEN "load" ELSE "none"]
    /\ UNCHANGED homeStore

\* Records arrive; the server refuses the token, or the request breaks off.
RecordsSettle(q, outcome) ==
    LET settled == [home EXCEPT !.logsLoading = FALSE]
    IN  /\ q.what = "logs" /\ homeRequests[q] > 0
        /\ homeRequests' = Told(homeRequests, q)
        /\ home' = IF outcome = "ok"
                   THEN [settled EXCEPT !.logs = q.of, !.invalid = FALSE]
                   ELSE [settled EXCEPT !.logs = NoText, !.invalid = outcome = "refused"]
        /\ UNCHANGED homeStore

-----------------------------------------------------------------------------
(* What the visitor does.                                                     *)

HideTokenPanels == home.box = NoText /\ (home.loading \/ home.visitor = "out")

\* Each key pressed in the box, and a copy that fails, is a new token to the effects; it is
\* accepted when the box loses the focus.
SetToken(text) ==
    /\ ~HideTokenPanels /\ text # home.box
    /\ home' = [home EXCEPT !.box = text]
    /\ homeRequests' = TokenEffect(homeRequests, text)
    /\ UNCHANGED homeStore

LeaveBox == ~HideTokenPanels /\ PersistToken(home, home.box)

\* The dialog, which can be opened where the panels are hidden, brings a full token.
ConfirmToken(token) == PersistToken(home, token)

\* External: the same page in another tab accepts a token.
OtherTabPersists(token) ==
    /\ homeStore' = Stored(homeStore, token)
    /\ UNCHANGED <<home, homeRequests>>

HomeNext ==
    \/ \E v \in {"unknown", "out", "asking"}, ok \in BOOLEAN : HomeLoaded(v, ok)
    \/ Hydrated \/ HydrationFails \/ HomeReload \/ StreamMetrics \/ HomePoll \/ LeaveBox
    \/ \E q \in HomeRequest : \/ \E ok \in BOOLEAN : MetricsSettle(q, ok)
                              \/ \E o \in {"ok", "refused", "broken"} : RecordsSettle(q, o)
    \/ \E v \in HomeText : SetToken(v)
    \/ \E t \in HomeToken : ConfirmToken(t) \/ OtherTabPersists(t)

HomeSpec == HomeInit /\ [][HomeNext]_homeVars

-----------------------------------------------------------------------------
(* What the page shows.                                                       *)

LogsRegion ==
    IF HideTokenPanels THEN "hidden"
    ELSE IF ~IsFullToken(home.box) \/ home.invalid THEN "noToken"
    ELSE IF home.logsLoading THEN "loading"
    ELSE IF home.logs = NoText THEN "none" ELSE "records"

\* The records on the page are of the token that was accepted, unless, when it was accepted, a
\* request for those of another was on its way or the load of the page still had to send one:
\* what is answered after it overwrites what is there (persistToken and the load of the page).
\* The panel does not wait for records that were not asked for.
RecordsOfToken ==
    /\ LogsRegion = "records" /\ home.box = home.accepted /\ ~home.crossed => home.logs = home.box
    /\ home.logsLoading => \E q \in HomeRequest : q.what = "logs" /\ homeRequests[q] > 0

\* The poll and the stream put figures on the page only of the token in the box at that time,
\* although the token changes with every key that is pressed.
PollsOfToken == home.metrics # "stray"

\* A page that is loaded again comes back to the token of its address, whatever other tabs have
\* stored as the last token meanwhile: the accepted one, or the secret that replaced it.
ReloadKeepsToken ==
    home.accepted # NoText /\ home.hash = TokenIdOf[home.accepted] =>
        LET token == InitialToken(home.hash, homeStore)
        IN  token # NoText /\ TokenIdOf[token] = home.hash
=============================================================================
