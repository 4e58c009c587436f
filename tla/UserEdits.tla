------------------------------ MODULE UserEdits ------------------------------
(***************************************************************************)
(* The account page of the admin dashboard (web/src/AdminDashboard.tsx):    *)
(* loading an account, and saving its quota, its limit of broken keys and   *)
(* its tags.  A save is a write followed by a reload of the account it was  *)
(* for; the page may show another account by then.                          *)
(*                                                                          *)
(* What a form holds is the account its values were loaded from.            *)
(***************************************************************************)
EXTENDS Integers, FiniteSets

CONSTANTS
    Account,          \* accounts
    NoAccount,
    MaxUserRequests   \* bound: loads and saves on their way at once

ASSUME UserConstants == NoAccount \notin Account /\ MaxUserRequests \in Nat

VARIABLES
    page,            \* the account in the route, NoAccount on other pages
    detail,          \* selectedUserDetail
    draft,           \* userQuotaDraft, userQuotaSnapshot, userBrokenLimitDraft
    detailLoading,   \* userDetailLoading
    detailLoads,     \* loads of the route's effect on their way
    saves,           \* saves that have not returned
    overwritten      \* history: what is in state was put there by the reload of a save of an account
                     \* other than the page's

userVars == <<page, detail, draft, detailLoading, detailLoads, saves, overwritten>>

EditKind == {"quota", "brokenLimit", "binding"}

UserTypeOK ==
    /\ page \in Account \cup {NoAccount} /\ detail \in Account \cup {NoAccount}
    /\ draft \in Account \cup {NoAccount}
    /\ detailLoading \in BOOLEAN /\ overwritten \in BOOLEAN
    /\ detailLoads \subseteq [account : Account, aborted : BOOLEAN]
    /\ saves \subseteq [kind : EditKind, account : Account, phase : {"write", "reload"}]

UserInit ==
    /\ page = NoAccount /\ detail = NoAccount /\ draft = NoAccount
    /\ detailLoading = FALSE /\ detailLoads = {}
    /\ saves = {} /\ overwritten = FALSE

UserRoom == Cardinality(detailLoads) + Cardinality(saves) < MaxUserRequests
\* savingUserQuota, savingUserBrokenLimit, savingUserTagBinding.
Saving(kind) == \E s \in saves : s.kind = kind

-----------------------------------------------------------------------------
(* The page: what it shows, and the buttons its sections offer.               *)

UserPage ==
    CASE page = NoAccount -> "other"
      [] page # NoAccount /\ detailLoading -> "loading"
      [] page # NoAccount /\ ~detailLoading /\ detail = NoAccount -> "notFound"
      [] OTHER -> "forms"

\* The header names the account of the route; the sections are those of the detail.
IdentitySection == IF UserPage = "forms" THEN detail ELSE NoAccount
EffectiveQuotaSection == IF UserPage = "forms" THEN detail ELSE NoAccount
UserTokensSection == IF UserPage = "forms" THEN detail ELSE NoAccount
TagsSection == UserPage = "forms" /\ ~Saving("binding")
QuotaSection == UserPage = "forms" /\ ~Saving("quota")
BrokenLimitSection == UserPage = "forms" /\ ~Saving("brokenLimit")

\* Mutant: the effect of the route has no cleanup.
AbortNoLoad(ls) == ls

-----------------------------------------------------------------------------
AbortLoads(ls) == {[l EXCEPT !.aborted = TRUE] : l \in ls}

\* The route shows account a: the effect's cleanup aborts the load before, and a new one
\* is sent.  The account in state stays until the answer is there.
OpenUser(a) ==
    /\ page # a /\ UserRoom
    /\ page' = a
    /\ detailLoading' = TRUE
    /\ detailLoads' = AbortLoads(detailLoads) \cup {[account |-> a, aborted |-> FALSE]}
    /\ overwritten' = FALSE
    /\ UNCHANGED <<detail, draft, saves>>

LeaveUser ==
    /\ page # NoAccount
    /\ page' = NoAccount
    /\ detailLoads' = AbortLoads(detailLoads)
    /\ UNCHANGED <<detail, draft, detailLoading, saves, overwritten>>

\* An answer: everything the page edits is set at once, or emptied after a failure.
UserLoaded(l, ok) ==
    /\ l \in detailLoads
    /\ detailLoads' = detailLoads \ {l}
    /\ IF l.aborted THEN UNCHANGED <<detail, draft, detailLoading, overwritten>>
       ELSE /\ detail' = IF ok THEN l.account ELSE NoAccount
            /\ draft' = detail'
            /\ detailLoading' = FALSE /\ overwritten' = FALSE
    /\ UNCHANGED <<page, saves>>

\* A save of the account in the route begins; it writes what the form holds.
BeginSave(kind) ==
    /\ UserRoom
    /\ saves' = saves \cup {[kind |-> kind, account |-> page, phase |-> "write"]}
    /\ UNCHANGED <<page, detail, draft, detailLoading, detailLoads, overwritten>>

SaveUserQuota == QuotaSection /\ draft # NoAccount /\ BeginSave("quota")
SaveUserBrokenLimit == BrokenLimitSection /\ draft # NoAccount /\ BeginSave("brokenLimit")
BindSelectedUserTag == TagsSection /\ BeginSave("binding")
UnbindSelectedUserTag == TagsSection /\ BeginSave("binding")

\* The server has written; the account that was saved is reloaded.
Written(s) ==
    /\ s \in saves /\ s.phase = "write"
    /\ saves' = (saves \ {s}) \cup {[s EXCEPT !.phase = "reload"]}
    /\ UNCHANGED <<page, detail, draft, detailLoading, detailLoads, overwritten>>

\* The write fails, or one of the reloads after it: an error is shown.
SaveFails(s) ==
    /\ s \in saves
    /\ saves' = saves \ {s}
    /\ UNCHANGED <<page, detail, draft, detailLoading, detailLoads, overwritten>>

\* refreshUserDetail sets the page, whichever account it shows.
RefreshUserDetail(s) ==
    /\ s \in saves /\ s.phase = "reload"
    /\ saves' = saves \ {s}
    /\ detail' = s.account /\ draft' = s.account
    /\ overwritten' = (page # s.account)
    /\ UNCHANGED <<page, detailLoading, detailLoads>>

UserAnswers ==
    \/ \E l \in detailLoads, ok \in BOOLEAN : UserLoaded(l, ok)
    \/ \E s \in saves : Written(s) \/ SaveFails(s) \/ RefreshUserDetail(s)

UserNext ==
    \/ \E a \in Account : OpenUser(a)
    \/ LeaveUser
    \/ SaveUserQuota \/ SaveUserBrokenLimit \/ BindSelectedUserTag \/ UnbindSelectedUserTag
    \/ UserAnswers

UserSpec == UserInit /\ [][UserNext]_userVars

-----------------------------------------------------------------------------
\* The sections and the form on the page of an account hold that account: no late load brings
\* another (the aborted checks of the detail's effect), and no account outlives its page.  One
\* thing does bring another, the reload after a save that was begun on its page; even then all
\* sections and the form hold the same account, until the page's own is loaded or saved again.
FormIsOfPage ==
    UserPage = "forms" =>
        /\ IdentitySection = draft /\ EffectiveQuotaSection = draft /\ UserTokensSection = draft
        /\ ~overwritten => draft = page
=============================================================================
