----------------------------- MODULE SecretCopy -----------------------------
(***************************************************************************)
(* The copy buttons of the admin dashboard (web/src/AdminDashboard.tsx).    *)
(* A secret (an access token or an upstream key) is fetched on demand,      *)
(* kept in a per-tab cache, and may be fetched early ("warmed") while the   *)
(* pointer hovers over a button, because some browsers only let a page      *)
(* write to the clipboard synchronously in the click.  A warm-up can be     *)
(* cancelled when the pointer leaves; a click adopts it.  A token's secret  *)
(* can be rotated from the detail page while fetches are on their way.      *)
(*                                                                          *)
(* A secret is its version number on the server.  Requests are numbered in  *)
(* the order they are sent; a promise and its AbortController are the       *)
(* number of their request.                                                 *)
(***************************************************************************)
EXTENDS Integers, FiniteSets

CONSTANTS
    Token,          \* access tokens: their secret can be rotated
    ApiKey,         \* upstream keys: their secret is fixed
    Button,         \* the copy and share buttons on the page
    SecretOf,       \* SecretOf[b]: the token or key button b copies
    CopyOp,         \* slots for copies in progress
    MaxFetches,     \* bound: requests sent in a behaviour
    MaxRotations,   \* bound: rotations of a token
    MaxCopyTimers   \* bound: pending timers that reset a button

ASSUME SecretConstants ==
    /\ SecretOf \in [Button -> Token \cup ApiKey] /\ Button # {}
    /\ Token \cap ApiKey = {}
    /\ MaxFetches \in Nat /\ MaxRotations \in Nat /\ MaxCopyTimers \in Nat

VARIABLES
    secret,         \* server: the current version of each secret
    rotating,       \* tokens whose rotation the server did and the page does not know of
    secretCache,    \* secretCacheRef, tokenSecretCacheRef: version, or 0 when absent
    secretRequest,  \* secretRequestCacheRef, tokenSecretRequestCacheRef: request, or 0
    secretVersion,  \* tokenSecretVersionRef
    warmTimer,      \* secretWarmTimerRef: ids with a pending 120 ms timer
    warmAbort,      \* secretWarmAbortRef: the request whose controller is held, or 0
    fetches,        \* fetches[r]: request r
    fetchCount,     \* requests sent so far
    copies,         \* copies[o]: a copy in progress
    copyState,      \* copyState: what each button shows
    copyTimers,     \* pending setTimeout(..., 2000) per button
    bubble          \* manualCopyBubble: 0, or the value shown for manual copying

secretVars == <<secret, rotating, secretCache, secretRequest, secretVersion,
                warmTimer, warmAbort, fetches, fetchCount, copies, copyState,
                copyTimers, bubble>>

Secret == Token \cup ApiKey
FetchId == 1 .. MaxFetches
Version == 1 .. MaxRotations + 1
FetchStatus == {"unused", "sent", "read", "aborted", "settled"}
NoFetch == [id |-> CHOOSE s \in Secret : TRUE, version |-> 0, status |-> "unused", value |-> 0]
NoCopy == [button |-> CHOOSE b \in Button : TRUE, phase |-> "idle", fetch |-> 0,
           value |-> 0, cached |-> FALSE]

SecretTypeOK ==
    /\ secret \in [Secret -> Version]
    /\ rotating \subseteq Token
    /\ secretCache \in [Secret -> Version \cup {0}]
    /\ secretRequest \in [Secret -> FetchId \cup {0}]
    /\ secretVersion \in [Secret -> 0 .. MaxRotations]
    /\ warmTimer \subseteq Secret
    /\ warmAbort \in [Secret -> FetchId \cup {0}]
    /\ fetches \in [FetchId -> [id : Secret, version : 0 .. MaxRotations,
                                status : FetchStatus, value : Version \cup {0}]]
    /\ fetchCount \in 0 .. MaxFetches
    /\ copies \in [CopyOp -> [button : Button, phase : {"idle", "resolving", "writing"},
                              fetch : FetchId \cup {0}, value : Version \cup {0},
                              cached : BOOLEAN]]
    /\ copyState \in [Button -> {"none", "loading", "copied"}]
    /\ copyTimers \in [Button -> 0 .. MaxCopyTimers]
    /\ bubble \in Version \cup {0}

SecretInit ==
    /\ secret = [s \in Secret |-> 1]
    /\ rotating = {}
    /\ secretCache = [s \in Secret |-> 0]
    /\ secretRequest = [s \in Secret |-> 0]
    /\ secretVersion = [s \in Secret |-> 0]
    /\ warmTimer = {}
    /\ warmAbort = [s \in Secret |-> 0]
    /\ fetches = [r \in FetchId |-> NoFetch]
    /\ fetchCount = 0
    /\ copies = [o \in CopyOp |-> NoCopy]
    /\ copyState = [b \in Button |-> "none"]
    /\ copyTimers = [b \in Button |-> 0]
    /\ bubble = 0

-----------------------------------------------------------------------------
(* resolveApiKeySecret and resolveTokenSecret once neither cache has the id:  *)
(* send a request and remember its promise.                                   *)
SendFetch(s) ==
    /\ fetchCount < MaxFetches
    /\ fetchCount' = fetchCount + 1
    /\ fetches' = [fetches EXCEPT ![fetchCount + 1] =
                      [id |-> s, version |-> secretVersion[s], status |-> "sent", value |-> 0]]
    /\ secretRequest' = [secretRequest EXCEPT ![s] = fetchCount + 1]

\* warmTokenSecret, warmApiKeySecret: a request of its own, held by a controller,
\* unless the secret is cached or already being fetched.
WarmSecret(s) ==
    /\ warmTimer' = warmTimer \ {s}
    /\ IF secretCache[s] # 0 \/ secretRequest[s] # 0
       THEN UNCHANGED <<warmAbort, fetches, fetchCount, secretRequest>>
       ELSE /\ SendFetch(s)
            /\ warmAbort' = [warmAbort EXCEPT ![s] = fetchCount + 1]

\* The pointer enters a button: scheduleSecretWarm (re)starts the 120 ms timer.
PointerEnter(s) ==
    /\ warmTimer' = warmTimer \cup {s}
    /\ UNCHANGED <<secret, rotating, secretCache, secretRequest, secretVersion, warmAbort,
                   fetches, fetchCount, copies, copyState, copyTimers, bubble>>

\* The timer fires, or the pointer or an Enter or Space key goes down on the button.
WarmStarts(s) ==
    /\ WarmSecret(s)
    /\ UNCHANGED <<secret, rotating, secretCache, secretVersion, copies, copyState,
                   copyTimers, bubble>>

WarmTimerFires(s) == s \in warmTimer /\ WarmStarts(s)

CopyIntent(s) == WarmStarts(s)

\* The pointer leaves or the button loses focus: cancelSecretWarm aborts the request
\* whose controller is still held, and forgets its promise (dropSecretWarmRequest).
CancelSecretWarm(s) ==
    /\ warmTimer' = warmTimer \ {s}
    /\ IF warmAbort[s] = 0
       THEN UNCHANGED <<warmAbort, fetches, secretRequest>>
       ELSE /\ warmAbort' = [warmAbort EXCEPT ![s] = 0]
            /\ secretRequest' = [secretRequest EXCEPT ![s] = 0]
            /\ fetches' = [fetches EXCEPT ![warmAbort[s]].status =
                              IF @ \in {"sent", "read"} THEN "aborted" ELSE @]
    /\ UNCHANGED <<secret, rotating, secretCache, secretVersion, fetchCount, copies,
                   copyState, copyTimers, bubble>>

-----------------------------------------------------------------------------
\* The button is clickable unless it shows the spinner.
CopyOffered(b) == copyState[b] # "loading"

\* commitSecretWarm: the click adopts the warm-up: no timer, no controller to abort it.
CommitSecretWarm(s) ==
    /\ warmTimer' = warmTimer \ {s}
    /\ warmAbort' = [warmAbort EXCEPT ![s] = 0]

\* handleCopySecret, handleCopyToken and handleShareToken up to their first await.
BeginCopy(o, b) ==
    LET s == SecretOf[b]
        begun(phase, r, v) == [button |-> b, phase |-> phase, fetch |-> r, value |-> v,
                               cached |-> secretCache[s] # 0]
    IN /\ copies[o].phase = "idle"
       /\ CopyOffered(b)
       /\ bubble' = 0
       /\ CommitSecretWarm(s)
       /\ copyState' = [copyState EXCEPT ![b] = "loading"]
       /\ \/ /\ secretCache[s] # 0
             /\ copies' = [copies EXCEPT ![o] = begun("writing", 0, secretCache[s])]
             /\ UNCHANGED <<fetches, fetchCount, secretRequest>>
          \/ /\ secretCache[s] = 0 /\ secretRequest[s] # 0
             /\ copies' = [copies EXCEPT ![o] = begun("resolving", secretRequest[s], 0)]
             /\ UNCHANGED <<fetches, fetchCount, secretRequest>>
          \/ /\ secretCache[s] = 0 /\ secretRequest[s] = 0
             /\ SendFetch(s)
             /\ copies' = [copies EXCEPT ![o] = begun("resolving", fetchCount + 1, 0)]
       /\ UNCHANGED <<secret, rotating, secretCache, secretVersion, copyTimers>>

-----------------------------------------------------------------------------
\* The server reads the secret for request r.
ServeFetch(r) ==
    /\ fetches[r].status = "sent"
    /\ fetches' = [fetches EXCEPT ![r].status = "read", ![r].value = secret[fetches[r].id]]
    /\ UNCHANGED <<secret, rotating, secretCache, secretRequest, secretVersion, warmTimer,
                   warmAbort, fetchCount, copies, copyState, copyTimers, bubble>>

\* The finally of the promise of request r: a token's entry is removed only if it is
\* still r's; a key's entry is removed whatever it holds.
ForgetFetch(r) ==
    LET s == fetches[r].id
    IN secretRequest' = [secretRequest EXCEPT ![s] = IF s \in Token /\ @ # r THEN @ ELSE 0]

\* Mutant: every answer is cached.
AnyVersion(r) == r \in FetchId

\* Whether the answer of r may be cached: the requestVersion check for tokens.
VersionUnchanged(r) == secretVersion[fetches[r].id] = fetches[r].version

\* The answer of r arrives: the promise callbacks cache it unless the token was rotated
\* since r was sent, and the copies that wait for it go on to the clipboard.
FetchAnswered(r) ==
    LET s == fetches[r].id
        v == fetches[r].value
    IN /\ fetches[r].status = "read"
       /\ fetches' = [fetches EXCEPT ![r].status = "settled"]
       /\ secretCache' = [secretCache EXCEPT ![s] =
                             IF VersionUnchanged(r) THEN v ELSE @]
       /\ ForgetFetch(r)
       /\ warmAbort' = [warmAbort EXCEPT ![s] = IF @ = r THEN 0 ELSE @]
       /\ copies' = [o \in CopyOp |->
                        IF copies[o].phase = "resolving" /\ copies[o].fetch = r
                        THEN [copies[o] EXCEPT !.phase = "writing", !.value = v, !.fetch = 0]
                        ELSE copies[o]]
       /\ UNCHANGED <<secret, rotating, secretVersion, warmTimer, fetchCount, copyState,
                      copyTimers, bubble>>

\* Request r rejects: it was aborted, or the network or the server failed.  The copies
\* that wait for it end with an error message and a button that can be pressed again.
FetchRejected(r) ==
    LET s == fetches[r].id
        waiting == {o \in CopyOp : copies[o].phase = "resolving" /\ copies[o].fetch = r}
    IN /\ fetches[r].status \in {"sent", "read", "aborted"}
       /\ fetches' = [fetches EXCEPT ![r].status = "settled"]
       /\ ForgetFetch(r)
       /\ warmAbort' = [warmAbort EXCEPT ![s] = IF @ = r THEN 0 ELSE @]
       /\ copies' = [o \in CopyOp |-> IF o \in waiting THEN NoCopy ELSE copies[o]]
       /\ copyState' = [b \in Button |-> IF \E o \in waiting : copies[o].button = b
                                         THEN "none" ELSE copyState[b]]
       /\ UNCHANGED <<secret, rotating, secretCache, secretVersion, warmTimer, fetchCount,
                      copyTimers, bubble>>

-----------------------------------------------------------------------------
\* copyText: execCommand first when the value was at hand in the click, the clipboard
\* API otherwise, each the fallback of the other.
CopyText(preferExecCommand, execOk, clipboardOk) ==
    LET order == IF preferExecCommand THEN <<execOk, clipboardOk>> ELSE <<clipboardOk, execOk>>
        name == IF preferExecCommand THEN <<"execCommand", "clipboard">>
                ELSE <<"clipboard", "execCommand">>
    IN CASE order[1] -> name[1] [] ~order[1] /\ order[2] -> name[2] [] OTHER -> "none"

\* A copy reaches the clipboard, or the value is shown for manual copying.
FinishCopy(o, execOk, clipboardOk) ==
    LET b == copies[o].button
        copied == CopyText(copies[o].cached, execOk, clipboardOk) # "none"
    IN /\ copies[o].phase = "writing"
       /\ copied => copyTimers[b] < MaxCopyTimers
       /\ copies' = [copies EXCEPT ![o] = NoCopy]
       /\ copyState' = [copyState EXCEPT ![b] = IF copied THEN "copied" ELSE "none"]
       /\ copyTimers' = [copyTimers EXCEPT ![b] = IF copied THEN @ + 1 ELSE @]
       /\ bubble' = IF copied THEN 0 ELSE copies[o].value
       /\ UNCHANGED <<secret, rotating, secretCache, secretRequest, secretVersion, warmTimer,
                      warmAbort, fetches, fetchCount>>

\* Two seconds after a successful copy the button is reset, whatever it shows by then.
CopyTimerFires(b) ==
    /\ copyTimers[b] > 0
    /\ copyTimers' = [copyTimers EXCEPT ![b] = @ - 1]
    /\ copyState' = [copyState EXCEPT ![b] = "none"]
    /\ UNCHANGED <<secret, rotating, secretCache, secretRequest, secretVersion, warmTimer,
                   warmAbort, fetches, fetchCount, copies, bubble>>

\* The bubble is closed by a click outside, Escape, its buttons, or a change of route.
CloseBubble ==
    /\ bubble # 0
    /\ bubble' = 0
    /\ UNCHANGED <<secret, rotating, secretCache, secretRequest, secretVersion, warmTimer,
                   warmAbort, fetches, fetchCount, copies, copyState, copyTimers>>

-----------------------------------------------------------------------------
\* The detail page asks the server for a new secret of token t ...
RotateOnServer(t) ==
    /\ t \notin rotating
    /\ secret[t] <= MaxRotations
    /\ secret' = [secret EXCEPT ![t] = @ + 1]
    /\ rotating' = rotating \cup {t}
    /\ UNCHANGED <<secretCache, secretRequest, secretVersion, warmTimer, warmAbort, fetches,
                   fetchCount, copies, copyState, copyTimers, bubble>>

\* ... and handleTokenSecretRotated receives it.
TokenSecretRotated(t) ==
    /\ t \in rotating
    /\ rotating' = rotating \ {t}
    /\ secretVersion' = [secretVersion EXCEPT ![t] = @ + 1]
    /\ secretRequest' = [secretRequest EXCEPT ![t] = 0]
    /\ secretCache' = [secretCache EXCEPT ![t] = secret[t]]
    /\ UNCHANGED <<secret, warmTimer, warmAbort, fetches, fetchCount, copies, copyState,
                   copyTimers, bubble>>

-----------------------------------------------------------------------------
SecretNext ==
    \/ \E s \in Secret : \/ PointerEnter(s) \/ WarmTimerFires(s) \/ CopyIntent(s)
                         \/ CancelSecretWarm(s)
    \/ \E o \in CopyOp : \/ \E b \in Button : BeginCopy(o, b)
                         \/ \E e, c \in BOOLEAN : FinishCopy(o, e, c)
    \/ \E r \in FetchId : ServeFetch(r) \/ FetchAnswered(r) \/ FetchRejected(r)
    \/ \E b \in Button : CopyTimerFires(b)
    \/ \E t \in Token : RotateOnServer(t) \/ TokenSecretRotated(t)
    \/ CloseBubble

SecretSpec == SecretInit /\ [][SecretNext]_secretVars

-----------------------------------------------------------------------------
\* Once the page knows of every rotation of a token, what it has cached for the token is
\* its current secret: an answer that was on its way when the secret was rotated is never
\* cached (the requestVersion checks of resolveTokenSecret and warmTokenSecret).
CachedSecretIsCurrent ==
    \A s \in Secret : s \notin rotating /\ secretCache[s] # 0 => secretCache[s] = secret[s]

\* A pointer that leaves the button never cancels a copy: no copy waits for a request
\* that was aborted (commitSecretWarm before the first await of the copy handlers).
CopyNeverCancelled ==
    \A o \in CopyOp : copies[o].phase = "resolving" => fetches[copies[o].fetch].status # "aborted"

\* A token's secret is fetched at most once at a time: two requests for the same version
\* of it are on their way only if one of them was aborted (the identity check in the
\* finally of resolveTokenSecret).
TokenFetchedOnce ==
    \A r, q \in FetchId :
        /\ r # q /\ fetches[r].id = fetches[q].id /\ fetches[r].id \in Token
        /\ fetches[r].status \in {"sent", "read"}
        => fetches[q].status \notin {"sent", "read"}
=============================================================================
