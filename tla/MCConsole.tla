------------------------------ MODULE MCConsole ------------------------------
(***************************************************************************)
(* The pages of a user on small instances: the console                      *)
(* (web/src/UserConsole.tsx) with its probes and secrets, and the page      *)
(* before login (web/src/PublicHome.tsx).                                   *)
(*                                                                          *)
(* As in MCAdminTab, the parts have no variable in common, and a behaviour  *)
(* is about one of them.                                                    *)
(***************************************************************************)
EXTENDS ConsoleProbe, ConsoleTokens, PublicHome, HomeAccess, TLC

CONSTANTS search, other, t1, t2, ida, idb, padded

VARIABLE focus   \* the part this behaviour is about

UserPart == {"probe", "console", "home", "access"}
userPageVars == <<focus, probeVars, consoleVars, homeVars, accessVars>>

-----------------------------------------------------------------------------
(* Values of constants.                                                       *)

MCAdvertised == {<<search, other>>}
MCTokenId == t1 :> ida @@ t2 :> idb
MCTrim == [v \in AccessText |-> IF v = padded THEN t1 ELSE v]

-----------------------------------------------------------------------------
\* A part the behaviour is not about has one initial state.
Waits(part, state) == focus = part \/ state

UserPagesInit ==
    /\ focus \in UserPart
    /\ ProbeInit /\ Waits("probe", quotaSpent = {})
    /\ ConsoleInit /\ Waits("console", consolePage = CHOOSE p \in ConsolePage : TRUE)
    /\ HomeInit /\ Waits("home", home.hash = NoText /\ homeStore.last = NoText)
    /\ AccessInit

UserPagesNext ==
    /\ UNCHANGED focus
    /\ IF focus = "probe" THEN ProbeNext ELSE UNCHANGED probeVars
    /\ IF focus = "console" THEN ConsoleNext ELSE UNCHANGED consoleVars
    /\ IF focus = "home" THEN HomeNext ELSE UNCHANGED homeVars
    /\ IF focus = "access" THEN AccessNext ELSE UNCHANGED accessVars

UserPagesSpec == UserPagesInit /\ [][UserPagesNext]_userPageVars

\* Every part keeps to its types.
UserPagesTypeOK ==
    CASE focus = "probe" -> ProbeTypeOK
      [] focus = "console" -> ConsoleTypeOK
      [] focus = "home" -> HomeTypeOK
      [] focus = "access" -> AccessTypeOK

-----------------------------------------------------------------------------
(* What the pages promise, across the parts that promise the same.            *)

\* A page shows its own token: a probe belongs to the page of its token, spins while it runs and
\* leaves out the billable calls only of a token without quota.  Before login the figures of the
\* poll and the stream are of the token in the box, and the records are of it when, as it was
\* accepted, no records of another token were on their way or still to be asked for: late answers
\* are not told apart (persistToken).
ShowsItsToken ==
    /\ SpinsWithRun /\ ShowsOwnToken /\ HeldBackOnlyIfSpent
    /\ RecordsOfToken /\ PollsOfToken

\* Secrets stay with the page and the token they belong to, a copy keeps the request it waits
\* for, a page that is loaded again finds its own token, and one that is masked stays masked.
SecretsAreHeld ==
    /\ SecretsStayOnPage /\ CopyHoldsRequest
    /\ ReloadKeepsToken /\ ClearOnlyIfAsked
=============================================================================
