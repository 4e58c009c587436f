--------------------------- MODULE ConsoleTokens ---------------------------
(***************************************************************************)
(* The secrets of a user's tokens in the user console                       *)
(* (web/src/UserConsole.tsx): the field of a token's page, the copy buttons *)
(* with their prefetch and short-lived cache, the client guide that can     *)
(* show the secret, and what leaving a page does to all of them.  A secret  *)
(* is named by its token.                                                   *)
(***************************************************************************)
EXTENDS Integers, FiniteSets

CONSTANTS
    ConsoleToken,   \* the user's tokens
    NoToken,
    MaxReveals,     \* bound: reveals on their way
    MaxCopies,      \* bound: copies on their way
    MaxBaseLoads    \* bound: loads of the profile and the lists

ASSUME ConsoleConstants ==
    /\ NoToken \notin ConsoleToken
    /\ ConsoleToken \cap {"landing", "dashboard", "tokens"} = {}
    /\ {MaxReveals, MaxCopies} \subseteq Nat /\ MaxBaseLoads \in Nat \ {0}

VARIABLES
    consolePage,    \* route: a section of the landing page, or a token
    availability,   \* resolveUserConsoleAvailability(profile)
    ownTokens,      \* tokens
    consoleLoad,       \* the request reloadBase waits for, and how many loads there were
    secretField,    \* tokenSecretTokenId, tokenSecretValue, tokenSecretVisible, tokenSecretLoading
    reveals,        \* runs of toggleTokenSecretVisibility that wait for the secret
    consoleSecrets,    \* tokenSecretCacheRef
    pendingSecret,  \* tokenSecretRequestRef; "uncached": tokenSecretRunIdRef has moved on
    warmTimers,     \* tokenSecretWarmTimerRef, with what the timer's closure knows
    warmOwned,      \* tokenSecretWarmAbortRef: requests a leaving pointer aborts
    consoleCopies,  \* runs of copyToken
    manualBubble,   \* manualCopyBubble
    guide,          \* guideTokenValue, revealedGuideContextKey, guideTokenLoading
    guideRuns       \* runs of toggleGuideTokenVisibility that wait for the secret

consoleVars == <<consolePage, availability, ownTokens, consoleLoad, secretField, reveals,
                 consoleSecrets, pendingSecret, warmTimers, warmOwned, consoleCopies, manualBubble,
                 guide, guideRuns>>
fieldVars == <<secretField, reveals>>
requestVars == <<consoleSecrets, pendingSecret, warmTimers, warmOwned>>
guideVars == <<guide, guideRuns>>
baseVars == <<consolePage, availability, ownTokens, consoleLoad>>

LandingSection == {"landing", "dashboard", "tokens"}
ConsolePage == LandingSection \cup ConsoleToken
OptToken == ConsoleToken \cup {NoToken}
NoField == [id |-> NoToken, value |-> NoToken, visible |-> FALSE, loading |-> FALSE]
ContextKey == [page : ConsolePage, tokens : SUBSET ConsoleToken]
NoKey == [page |-> "landing", tokens |-> {}]
NoGuide == [value |-> NoToken, key |-> NoKey, loading |-> FALSE]

ConsoleTypeOK ==
    /\ consolePage \in ConsolePage
    /\ availability \in {"unknown", "enabled", "disabled", "logged_out"}
    /\ ownTokens \subseteq ConsoleToken
    /\ consoleLoad \in [waits : {"profile", "lists", "none"}, sent : 1 .. MaxBaseLoads]
    /\ secretField \in [id : OptToken, value : OptToken, visible : BOOLEAN, loading : BOOLEAN]
    /\ reveals \subseteq [token : ConsoleToken, stale : BOOLEAN]
    /\ consoleSecrets \subseteq ConsoleToken
    /\ pendingSecret \in [ConsoleToken -> {"none", "sent", "uncached"}]
    /\ warmTimers \subseteq [token : ConsoleToken, inline : BOOLEAN]
    /\ warmOwned \subseteq ConsoleToken
    /\ consoleCopies \subseteq [token : ConsoleToken, page : ConsolePage, sameId : BOOLEAN,
                         cached : BOOLEAN, phase : {"resolving", "writing"}]
    /\ manualBubble \in OptToken
    /\ guide \in [value : OptToken, key : ContextKey, loading : BOOLEAN]
    /\ guideRuns \subseteq [token : ConsoleToken, key : ContextKey, stale : BOOLEAN]

\* parseUserConsoleHash of the address the console is opened with.
ConsoleInit ==
    /\ consolePage \in ConsolePage
    /\ availability = "unknown" /\ ownTokens = {}
    /\ consoleLoad = [waits |-> "profile", sent |-> 1]
    /\ secretField = NoField /\ reveals = {}
    /\ consoleSecrets = {} /\ pendingSecret = [t \in ConsoleToken |-> "none"]
    /\ warmTimers = {} /\ warmOwned = {}
    /\ consoleCopies = {} /\ manualBubble = NoToken
    /\ guide = NoGuide /\ guideRuns = {}

-----------------------------------------------------------------------------
(* What the page shows.                                                       *)

ConsoleUnavailable == availability \in {"disabled", "logged_out"}
TokenPage == ~ConsoleUnavailable /\ consolePage \in ConsoleToken
LandingPage == ~ConsoleUnavailable /\ consolePage \in LandingSection

ResolveGuideTokenId(page, tokens) ==
    CASE page \in ConsoleToken -> page
      [] page \notin ConsoleToken /\ Cardinality(tokens) = 1 -> CHOOSE t \in tokens : TRUE
      [] OTHER -> NoToken
GuideTokenId == ResolveGuideTokenId(consolePage, ownTokens)

ResolveGuideRevealContextKey(page, tokens) ==
    [page |-> page, tokens |-> IF page \in ConsoleToken THEN {} ELSE tokens]
GuideKey == ResolveGuideRevealContextKey(consolePage, ownTokens)

GuideTokenVisible ==
    /\ availability = "enabled" /\ guide.value # NoToken
    /\ GuideTokenId # NoToken /\ guide.key = GuideKey

\* The guide is a panel of a token's page, and of the landing page of a user with one token.
GuideShown == TokenPage \/ (LandingPage /\ Cardinality(ownTokens) = 1)
GuideOffered == GuideShown /\ GuideTokenId # NoToken /\ ~guide.loading
\* Where the guide of a client has the secret, or the masked token in its place: in its steps,
\* or in its samples.
GuideClient == {"codex", "claude", "vscode", "claudeDesktop", "cursor", "windsurf",
                "cherryStudio", "other"}
StepsWith(token, client) ==
    IF client \in {"codex", "vscode", "cherryStudio", "other"} THEN {token} ELSE {}
SamplesWith(token, client) ==
    IF client \in {"codex", "cherryStudio"} THEN {} ELSE {token}
BuildGuideContent(token) == UNION {StepsWith(token, c) \cup SamplesWith(token, c) : c \in GuideClient}
GuideShows == IF GuideShown /\ GuideTokenVisible THEN BuildGuideContent(guide.value) ELSE {}

\* The field of a token's page.
DetailTokenVisible ==
    TokenPage /\ secretField.id = consolePage /\ secretField.visible /\ secretField.value # NoToken
DetailTokenLoading == TokenPage /\ secretField.id = consolePage /\ secretField.loading
FieldShows == IF DetailTokenVisible THEN {secretField.value} ELSE {}
ToggleOffered == TokenPage /\ ~DetailTokenLoading

\* The copy buttons: rows and cards of the landing page, the field of a token's page.
RowCopies == IF LandingPage THEN ownTokens ELSE {}
CardCopies == IF LandingPage THEN ownTokens ELSE {}
FieldCopies == IF TokenPage THEN {consolePage} ELSE {}
ConsoleCopyOffered(t) == t \in RowCopies \cup CardCopies \cup FieldCopies

-----------------------------------------------------------------------------
(* Effects.                                                                   *)

\* ++tokenSecretRunIdRef: reveals on their way are passed, requests no longer fill the cache.
PassReveals ==
    /\ reveals' = {[r EXCEPT !.stale = TRUE] : r \in reveals}
PassedRequests == [t \in ConsoleToken |->
                      IF pendingSecret[t] = "none" THEN "none" ELSE "uncached"]
PassGuideRuns(rs) == {[r EXCEPT !.stale = TRUE] : r \in rs}

\* Mutant: leaving a page forgets the field but not the cache.
ResetFieldOnly ==
    /\ PassReveals /\ secretField' = NoField
    /\ warmTimers' = {} /\ warmOwned' = {}
    /\ UNCHANGED consoleSecrets
    /\ pendingSecret' = [t \in ConsoleToken |-> "none"]
    /\ consoleCopies' = {c \in consoleCopies : c.phase = "writing"}

\* The effect on a new page or availability.  The requests are aborted: copies that wait for
\* one fail.
ResetSecrets ==
    /\ PassReveals /\ secretField' = NoField
    /\ warmTimers' = {} /\ warmOwned' = {} /\ consoleSecrets' = {}
    /\ pendingSecret' = [t \in ConsoleToken |-> "none"]
    /\ consoleCopies' = {c \in consoleCopies : c.phase = "writing"}

\* The page a secret belongs to: all sections of the landing page are one.
SecretScope(page) == IF page \in ConsoleToken THEN page ELSE "landing"

\* The effects of a new page p, availability a and list of tokens ts, in their order.
RunConsoleEffects(p, a, ts) ==
    LET passed == SecretScope(p) # SecretScope(consolePage) \/ a # availability
        GuideScope(page, tokens) == ResolveGuideRevealContextKey(page, tokens)
        regated == a # availability \/ GuideScope(p, ts) # GuideScope(consolePage, ownTokens)
        kept == IF passed THEN {} ELSE guideRuns    \* the others reject with their request
    IN /\ consolePage' = p /\ availability' = a /\ ownTokens' = ts
       /\ manualBubble' = IF p # consolePage THEN NoToken ELSE manualBubble
       /\ IF passed THEN ResetSecrets ELSE UNCHANGED <<fieldVars, requestVars, consoleCopies>>
       /\ guide' = IF regated THEN NoGuide ELSE guide
       /\ guideRuns' = IF regated THEN PassGuideRuns(kept) ELSE guideRuns

-----------------------------------------------------------------------------
(* Pages and base data.                                                       *)

\* navigateToRoute, and a hash set by the browser's buttons.
NavigateToRoute(p) ==
    /\ p # consolePage /\ availability # "logged_out"
    /\ RunConsoleEffects(p, availability, ownTokens)
    /\ UNCHANGED consoleLoad

\* reloadBase has the profile.
ProfileAnswered(a) ==
    /\ consoleLoad.waits = "profile"
    /\ RunConsoleEffects(consolePage, a, IF a = "disabled" THEN {} ELSE ownTokens)
    /\ consoleLoad' = [consoleLoad EXCEPT !.waits = IF a = "enabled" THEN "lists" ELSE "none"]

ListsAnswered(ts) ==
    /\ consoleLoad.waits = "lists"
    /\ RunConsoleEffects(consolePage, availability, ts)
    /\ consoleLoad' = [consoleLoad EXCEPT !.waits = "none"]

\* (A 401 leaves the console, which is then gone.)
BaseFails ==
    /\ consoleLoad.waits # "none"
    /\ consoleLoad' = [consoleLoad EXCEPT !.waits = "none"]
    /\ UNCHANGED <<consolePage, availability, ownTokens, fieldVars, requestVars, consoleCopies,
                   manualBubble, guideVars>>

\* Another language: reloadBase is a new function, and its effect loads again.
ChangeLanguage ==
    /\ consoleLoad.sent < MaxBaseLoads /\ availability # "logged_out"
    /\ consoleLoad' = [waits |-> "profile", sent |-> consoleLoad.sent + 1]
    /\ UNCHANGED <<consolePage, availability, ownTokens, fieldVars, requestVars, consoleCopies,
                   manualBubble, guideVars>>

-----------------------------------------------------------------------------
(* The field.                                                                 *)

HideTokenSecret ==
    /\ secretField' = NoField
    /\ PassReveals
    /\ pendingSecret' = PassedRequests

RevealTokenSecret ==
    /\ Cardinality(reveals) < MaxReveals
    /\ secretField' = [NoField EXCEPT !.id = consolePage, !.loading = TRUE]
    /\ reveals' = {[r EXCEPT !.stale = TRUE] : r \in reveals} \cup
                      {[token |-> consolePage, stale |-> FALSE]}
    /\ pendingSecret' = PassedRequests

ToggleTokenSecretVisibility ==
    /\ ToggleOffered
    /\ IF secretField.visible THEN HideTokenSecret
       ELSE ~secretField.loading /\ RevealTokenSecret
    /\ UNCHANGED <<baseVars, consoleSecrets, warmTimers, warmOwned, consoleCopies, manualBubble, guideVars>>

RevealIsCurrent(r) == ~r.stale

RevealAnswered(r, ok) ==
    /\ r \in reveals /\ reveals' = reveals \ {r}
    /\ \/ ~RevealIsCurrent(r) /\ UNCHANGED <<secretField, consoleSecrets>>
       \/ /\ RevealIsCurrent(r) /\ ok
          /\ secretField' = [id |-> r.token, value |-> r.token, visible |-> TRUE, loading |-> FALSE]
          /\ consoleSecrets' = consoleSecrets \cup {r.token}
       \/ /\ RevealIsCurrent(r) /\ ~ok
          /\ secretField' = [NoField EXCEPT !.id = r.token]
          /\ UNCHANGED consoleSecrets
    /\ UNCHANGED <<baseVars, pendingSecret, warmTimers, warmOwned, consoleCopies, manualBubble, guideVars>>

-----------------------------------------------------------------------------
(* The shared requests, their prefetch and their cache.                       *)

\* Whether the field of the page holds the secret of t.
Inline(t) == consolePage = t /\ secretField.id = t /\ secretField.value # NoToken

\* resolveTokenSecret without the secret at hand: join the request for t, or send one.
AskFor(t) == pendingSecret' = [pendingSecret EXCEPT ![t] = IF @ = "none" THEN "sent" ELSE @]

WarmTokenSecret(t, inline) ==
    /\ warmTimers' = {w \in warmTimers : w.token # t}
    /\ \/ /\ t \in consoleSecrets \/ pendingSecret[t] # "none"
          /\ UNCHANGED <<consoleSecrets, pendingSecret, warmOwned>>
       \/ /\ ~(t \in consoleSecrets \/ pendingSecret[t] # "none") /\ inline
          /\ consoleSecrets' = consoleSecrets \cup {t}
          /\ UNCHANGED <<pendingSecret, warmOwned>>
       \/ /\ ~(t \in consoleSecrets \/ pendingSecret[t] # "none") /\ ~inline
          /\ warmOwned' = warmOwned \cup {t}
          /\ AskFor(t)
          /\ UNCHANGED consoleSecrets

\* scheduleWarmTokenSecret: the pointer is over a copy button.
ScheduleWarmTokenSecret(t) ==
    /\ availability = "enabled" /\ ConsoleCopyOffered(t)
    /\ t \notin consoleSecrets /\ pendingSecret[t] = "none"
    /\ warmTimers' = {w \in warmTimers : w.token # t} \cup {[token |-> t, inline |-> Inline(t)]}
    /\ UNCHANGED <<baseVars, fieldVars, consoleSecrets, pendingSecret, warmOwned, consoleCopies,
                   manualBubble, guideVars>>

WarmTimerElapses(w) ==
    /\ w \in warmTimers
    /\ WarmTokenSecret(w.token, w.inline)
    /\ UNCHANGED <<baseVars, fieldVars, consoleCopies, manualBubble, guideVars>>

\* A copy button of the landing page is pressed down.
PressCopy(t) ==
    /\ availability = "enabled" /\ t \in RowCopies \cup CardCopies
    /\ WarmTokenSecret(t, Inline(t))
    /\ UNCHANGED <<baseVars, fieldVars, consoleCopies, manualBubble, guideVars>>

\* Mutant: the guide does not hear of the failure.
WaitersFailQuietly(t) ==
    /\ consoleCopies' = {c \in consoleCopies : c.token # t \/ c.phase = "writing"}
    /\ guideRuns' = {r \in guideRuns : r.token # t}
    /\ UNCHANGED guide

\* What a request for t that fails, or is aborted, does to those that wait for it.
WaitersFail(t) ==
    /\ consoleCopies' = {c \in consoleCopies : c.token # t \/ c.phase = "writing"}
    /\ guideRuns' = {r \in guideRuns : r.token # t}
    /\ guide' = IF \E r \in guideRuns : r.token = t /\ ~r.stale THEN NoGuide ELSE guide

\* cancelWarmTokenSecret: the pointer has left.
CancelWarmTokenSecret(t) ==
    /\ ConsoleCopyOffered(t) /\ (t \in warmOwned \/ \E w \in warmTimers : w.token = t)
    /\ warmTimers' = {w \in warmTimers : w.token # t}
    /\ warmOwned' = warmOwned \ {t}
    /\ IF t \in warmOwned
       THEN pendingSecret' = [pendingSecret EXCEPT ![t] = "none"] /\ WaitersFail(t)
       ELSE UNCHANGED <<pendingSecret, consoleCopies, guideVars>>
    /\ UNCHANGED <<baseVars, fieldVars, consoleSecrets, manualBubble>>

\* The request for t is answered: the cache is filled, and everyone who waits goes on.
SecretAnswered(t) ==
    /\ pendingSecret[t] # "none"
    /\ pendingSecret' = [pendingSecret EXCEPT ![t] = "none"]
    /\ consoleSecrets' = consoleSecrets \cup
          (IF pendingSecret[t] = "sent" \/ t \in warmOwned THEN {t} ELSE {})
    /\ warmOwned' = warmOwned \ {t}
    /\ consoleCopies' = {IF c.token = t THEN [c EXCEPT !.phase = "writing"] ELSE c : c \in consoleCopies}
    /\ guideRuns' = {r \in guideRuns : r.token # t}
    /\ guide' = IF \E r \in guideRuns : r.token = t /\ ~r.stale
                THEN LET r == CHOOSE r \in guideRuns : r.token = t /\ ~r.stale
                     IN [value |-> t, key |-> r.key, loading |-> FALSE]
                ELSE guide
    /\ UNCHANGED <<baseVars, fieldVars, warmTimers, manualBubble>>

SecretFails(t) ==
    /\ pendingSecret[t] # "none"
    /\ pendingSecret' = [pendingSecret EXCEPT ![t] = "none"]
    /\ warmOwned' = warmOwned \ {t}
    /\ WaitersFail(t)
    /\ UNCHANGED <<baseVars, fieldVars, consoleSecrets, warmTimers, manualBubble>>

\* The timer of USER_CONSOLE_SECRET_CACHE_TTL_MS.
CacheElapses(t) ==
    /\ t \in consoleSecrets
    /\ consoleSecrets' = consoleSecrets \ {t}
    /\ UNCHANGED <<baseVars, fieldVars, pendingSecret, warmTimers, warmOwned, consoleCopies,
                   manualBubble, guideVars>>

-----------------------------------------------------------------------------
(* Copies.                                                                    *)

CommitWarmTokenSecret(t) ==
    /\ warmTimers' = {w \in warmTimers : w.token # t}
    /\ warmOwned' = warmOwned \ {t}

CopyToken(t) ==
    LET cached == Inline(t) \/ t \in consoleSecrets
    IN /\ ConsoleCopyOffered(t) /\ Cardinality(consoleCopies) < MaxCopies
       /\ manualBubble' = NoToken
       /\ CommitWarmTokenSecret(t)
       /\ consoleCopies' = consoleCopies \cup
             {[token |-> t, page |-> consolePage, sameId |-> secretField.id = t, cached |-> cached,
               phase |-> IF cached THEN "writing" ELSE "resolving"]}
       /\ IF cached THEN UNCHANGED pendingSecret ELSE AskFor(t)
       /\ UNCHANGED <<baseVars, fieldVars, consoleSecrets, guideVars>>

\* revealDetailTokenForManualCopy, and else the bubble.
ShowForManualCopy(c) ==
    IF c.page = c.token
    THEN /\ secretField' = [id |-> c.token, value |-> c.token, visible |-> TRUE, loading |-> FALSE]
         /\ UNCHANGED manualBubble
    ELSE /\ manualBubble' = c.token
         /\ UNCHANGED secretField

\* copyText has returned.
CopyWritten(c, ok) ==
    /\ c \in consoleCopies /\ c.phase = "writing"
    /\ consoleCopies' = consoleCopies \ {c}
    /\ consoleSecrets' = IF c.cached /\ ~c.sameId THEN consoleSecrets \ {c.token} ELSE consoleSecrets
    /\ IF ok THEN manualBubble' = NoToken /\ UNCHANGED secretField ELSE ShowForManualCopy(c)
    /\ UNCHANGED <<baseVars, reveals, pendingSecret, warmTimers, warmOwned, guideVars>>

CloseManualBubble ==
    /\ manualBubble # NoToken
    /\ manualBubble' = NoToken
    /\ UNCHANGED <<baseVars, fieldVars, requestVars, consoleCopies, guideVars>>

-----------------------------------------------------------------------------
(* The guide.                                                                 *)

HideGuideToken ==
    /\ guide' = NoGuide /\ guideRuns' = PassGuideRuns(guideRuns)
    /\ UNCHANGED pendingSecret

RevealGuideToken ==
    LET t == GuideTokenId
    IN IF Inline(t) \/ t \in consoleSecrets
       THEN /\ guide' = [value |-> t, key |-> GuideKey, loading |-> FALSE]
            /\ guideRuns' = PassGuideRuns(guideRuns)
            /\ UNCHANGED pendingSecret
       ELSE /\ guide' = [NoGuide EXCEPT !.loading = TRUE]
            /\ guideRuns' = PassGuideRuns(guideRuns) \cup
                   {[token |-> t, key |-> GuideKey, stale |-> FALSE]}
            /\ AskFor(t)

ToggleGuideTokenVisibility ==
    /\ GuideOffered
    /\ IF GuideTokenVisible THEN HideGuideToken ELSE RevealGuideToken
    /\ UNCHANGED <<baseVars, fieldVars, consoleSecrets, warmTimers, warmOwned, consoleCopies, manualBubble>>

-----------------------------------------------------------------------------
FieldProgress == \E r \in reveals, ok \in BOOLEAN : RevealAnswered(r, ok)
RequestProgress(t) == SecretAnswered(t) \/ SecretFails(t)

ConsoleNext ==
    \/ \E p \in ConsolePage : NavigateToRoute(p)
    \/ \E a \in {"enabled", "disabled", "logged_out"} : ProfileAnswered(a)
    \/ \E ts \in SUBSET ConsoleToken : ListsAnswered(ts)
    \/ BaseFails \/ ChangeLanguage
    \/ ToggleTokenSecretVisibility \/ ToggleGuideTokenVisibility \/ CloseManualBubble
    \/ FieldProgress
    \/ \E w \in warmTimers : WarmTimerElapses(w)
    \/ \E c \in consoleCopies, ok \in BOOLEAN : CopyWritten(c, ok)
    \/ \E t \in ConsoleToken :
          \/ ScheduleWarmTokenSecret(t) \/ PressCopy(t) \/ CancelWarmTokenSecret(t)
          \/ RequestProgress(t) \/ CacheElapses(t) \/ CopyToken(t)

ConsoleSpec == ConsoleInit /\ [][ConsoleNext]_consoleVars

-----------------------------------------------------------------------------
\* A secret stays with its page: what a token's page shows or keeps in the cache is its own
\* token's, the guide shows the token it is about, and nothing is kept once the account is
\* disabled (the run ids and the resets of UserConsole.tsx, whatever is still on its way).
SecretsStayOnPage ==
    /\ FieldShows \subseteq {consolePage}
    /\ GuideShows \subseteq {GuideTokenId}
    /\ consolePage \in ConsoleToken => consoleSecrets \subseteq {consolePage}
    /\ availability = "disabled" => consoleSecrets = {}

\* A click on a copy button is not undone by the pointer that leaves the button: the request
\* the copy waits for is no longer the prefetch's (commitWarmTokenSecret).
CopyHoldsRequest ==
    \A c \in consoleCopies : c.phase = "resolving" =>
        pendingSecret[c.token] # "none" /\ c.token \notin warmOwned
=============================================================================
