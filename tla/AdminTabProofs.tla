---------------------------- MODULE AdminTabProofs ----------------------------
(***************************************************************************)
(* Proofs about the admin dashboard, for every value of the constants.  The *)
(* parts of the tab have no variable in common, so what a part proves of    *)
(* itself holds of the tab (TabSpec).                                       *)
(***************************************************************************)
EXTENDS MCAdminTab, AdminListsProofs, FiniteSetTheorems, SequenceTheorems, WellFoundedInduction, TLAPS

------------------------------------------------------------------------------
(* The account page (UserEdits).                                              *)

LEMMA MembershipIsBoolean == ASSUME NEW x, NEW S PROVE (x \in S) \in BOOLEAN
<1>1. CASE x \in S
  <2>1. (x \in S) = TRUE
    BY <1>1
  <2> QED
    BY <2>1
<1>2. CASE x \notin S
  <2>1. (x \in S) = FALSE
    BY <1>2
  <2> QED
    BY <2>1
<1> QED
  BY <1>1, <1>2

\* Only the load of the page's own account has not been aborted, the form is that of the account
\* in state, and once the page has loaded, that account is its own unless a save put another there.
UserInv ==
    /\ UserTypeOK
    /\ \A l \in detailLoads : ~l.aborted => l.account = page
    /\ draft = detail
    /\ page # NoAccount /\ ~detailLoading /\ ~overwritten => detail \in {page, NoAccount}

LEMMA UserInitInv == UserInit => UserInv
<1> SUFFICES ASSUME UserInit PROVE UserInv
  OBVIOUS
<1>1. {detailLoading, overwritten} \subseteq BOOLEAN
  BY Zenon DEF UserInit
<1> QED
  BY <1>1 DEF UserInit, UserInv, UserTypeOK

LEMMA UserStepInv == UserInv /\ [UserNext]_userVars => UserInv'
<1> SUFFICES ASSUME UserInv, [UserNext]_userVars PROVE UserInv'
  OBVIOUS
<1> USE UserConstants DEF UserInv, UserTypeOK
<1>1. ASSUME NEW a \in Account, OpenUser(a) PROVE UserInv'
  <2>1. {detailLoading', overwritten'} \subseteq BOOLEAN
    BY <1>1, Zenon DEF OpenUser
  <2>2. /\ AbortLoads(detailLoads) \subseteq [account : Account, aborted : BOOLEAN]
        /\ \A l \in AbortLoads(detailLoads) : l.aborted
    BY DEF AbortLoads
  <2> DEFINE new == [account |-> a, aborted |-> FALSE]
  <2>3. new \in [account : Account, aborted : BOOLEAN] /\ new.account = a
    OBVIOUS
  <2>4. detailLoads' = AbortLoads(detailLoads) \cup {new}
    BY <1>1 DEF OpenUser
  <2> HIDE DEF new
  <2>5. /\ detailLoads' \subseteq [account : Account, aborted : BOOLEAN]
        /\ \A l \in detailLoads' : ~l.aborted => l.account = a
    BY <2>2, <2>3, <2>4
  <2> QED
    BY <1>1, <2>1, <2>5 DEF OpenUser
<1>2. CASE LeaveUser
  <2>1. /\ AbortLoads(detailLoads) \subseteq [account : Account, aborted : BOOLEAN]
        /\ \A l \in AbortLoads(detailLoads) : l.aborted
    BY DEF AbortLoads
  <2> QED
    BY <1>2, <2>1 DEF LeaveUser
<1>3. ASSUME NEW l \in detailLoads, NEW ok \in BOOLEAN, UserLoaded(l, ok) PROVE UserInv'
  <2>1. CASE l.aborted
    BY <1>3, <2>1 DEF UserLoaded
  <2>2. CASE ~l.aborted
    <3>1. l.account = page /\ l.account \in Account
      BY <2>2
    <3>2. detailLoading' \in BOOLEAN
      BY <1>3, <2>2, Zenon DEF UserLoaded
    <3>3. detail' \in {page, NoAccount} /\ draft' = detail'
      BY <1>3, <2>2, <3>1 DEF UserLoaded
    <3> QED
      BY <1>3, <3>1, <3>2, <3>3 DEF UserLoaded
  <2> QED
    BY <2>1, <2>2
<1>4. ASSUME NEW kind \in EditKind, BeginSave(kind), page # NoAccount PROVE UserInv'
  BY <1>4 DEF BeginSave
<1>5. CASE SaveUserQuota \/ SaveUserBrokenLimit \/ BindSelectedUserTag \/ UnbindSelectedUserTag
  <2>1. UserPage = "forms" => page # NoAccount
    BY DEF UserPage
  <2> QED
    BY <1>4, <1>5, <2>1
    DEF SaveUserQuota, SaveUserBrokenLimit, BindSelectedUserTag, UnbindSelectedUserTag,
        QuotaSection, BrokenLimitSection, TagsSection, EditKind
<1>6. ASSUME NEW s \in saves, Written(s) PROVE UserInv'
  BY <1>6 DEF Written
<1>7. ASSUME NEW s \in saves, SaveFails(s) PROVE UserInv'
  BY <1>7 DEF SaveFails
<1>8. ASSUME NEW s \in saves, RefreshUserDetail(s) PROVE UserInv'
  <2>1. overwritten' \in BOOLEAN
    BY <1>8, Zenon DEF RefreshUserDetail
  <2>2. s.account \in Account
    OBVIOUS
  <2> QED
    BY <1>8, <2>1, <2>2 DEF RefreshUserDetail
<1>9. CASE UNCHANGED userVars
  BY <1>9 DEF userVars
<1> QED
  BY <1>1, <1>2, <1>3, <1>5, <1>6, <1>7, <1>8, <1>9 DEF UserNext, UserAnswers

LEMMA UserInvImplies == UserInv => FormIsOfPage
<1> SUFFICES ASSUME UserInv, UserPage = "forms"
             PROVE  detail = draft /\ (~overwritten => draft = page)
  BY DEF FormIsOfPage, IdentitySection, EffectiveQuotaSection, UserTokensSection
<1>1. page # NoAccount /\ ~detailLoading /\ detail # NoAccount
  BY DEF UserPage, UserInv, UserTypeOK
<1> QED
  BY <1>1 DEF UserInv

------------------------------------------------------------------------------
(* The catalog of tags (TagEdits).                                            *)

\* The form is that of the card being edited.
TagInv ==
    /\ TagTypeOK
    /\ activeEditor # NoTag => tagDraft = activeEditor
    /\ SaveMeansCard

LEMMA TagInitInv == TagInit => TagInv
<1> SUFFICES ASSUME TagInit PROVE TagInv
  OBVIOUS
<1>1. {tagCatalogLoading, tagCatalogLoadedOnce} \subseteq BOOLEAN
  BY Zenon DEF TagInit
<1> QED
  BY <1>1 DEF TagInit, TagInv, TagTypeOK, SaveMeansCard, TagRoute, CardId

\* The effect of the editor page opens a form for its card, or none.
LEMMA EditorOpens ==
    ASSUME NEW route \in TagRoute, NEW catalog \in SUBSET Tag, NEW loaded, NEW reads,
           activeEditor \in CardId \cup {NoTag}, tagDraft \in CardId,
           activeEditor # NoTag => tagDraft = activeEditor,
           OpenEditor(route, catalog, loaded, reads)
    PROVE  /\ activeEditor' \in CardId \cup {NoTag} /\ tagDraft' \in CardId
           /\ activeEditor' # NoTag => tagDraft' = activeEditor'
  BY TagConstants DEF OpenEditor, CardId

CatalogLoad == [aborted : BOOLEAN, served : BOOLEAN, read : SUBSET Tag]

LEMMA CatalogLoadTypes ==
    ASSUME NEW route, catalogLoads \subseteq CatalogLoad, tagCatalogLoading \in BOOLEAN,
           LoadTagCatalog(route)
    PROVE  catalogLoads' \subseteq CatalogLoad /\ tagCatalogLoading' \in BOOLEAN
<1> DEFINE aborted == {[l EXCEPT !.aborted = TRUE] : l \in catalogLoads}
<1>1. aborted \subseteq CatalogLoad
  BY DEF CatalogLoad
<1>2. [aborted |-> FALSE, served |-> FALSE, read |-> {}] \in CatalogLoad
  BY DEF CatalogLoad
<1>3. TRUE \in BOOLEAN
  OBVIOUS
<1> QED
  BY <1>1, <1>2, <1>3 DEF LoadTagCatalog

LEMMA CancelKeeps ==
    ASSUME NEW onEditor, CancelEdit(onEditor), TagTypeOK
    PROVE  /\ catalogLoads' \subseteq CatalogLoad /\ tagCatalogLoading' \in BOOLEAN
           /\ activeEditor' = NoTag /\ tagDraft' \in CardId /\ tagRoute' \in TagRoute
<1>1. catalogLoads' \subseteq CatalogLoad /\ tagCatalogLoading' \in BOOLEAN
  <2>1. CASE onEditor /\ tagRoute # "list"
    BY <2>1, CatalogLoadTypes DEF CancelEdit, TagTypeOK, CatalogLoad
  <2>2. CASE ~(onEditor /\ tagRoute # "list")
    BY <2>2 DEF CancelEdit, TagTypeOK, CatalogLoad
  <2> QED
    BY <2>1, <2>2
<1> QED
  BY <1>1 DEF CancelEdit, TagTypeOK, CardId, TagRoute

LEMMA TagStepInv == TagInv /\ [TagNext]_tagVars => TagInv'
<1> SUFFICES ASSUME TagInv, [TagNext]_tagVars PROVE TagInv'
  OBVIOUS
<1>0. TagTypeOK
  BY DEF TagInv
<1> USE TagConstants DEF TagInv
<1>1. ASSUME NEW r \in TagRoute, GoTagRoute(r) PROVE TagInv'
  <2>1. /\ activeEditor' \in CardId \cup {NoTag} /\ tagDraft' \in CardId
        /\ activeEditor' # NoTag => tagDraft' = activeEditor'
    BY <1>1, EditorOpens DEF GoTagRoute, TagTypeOK
  <2>2. catalogLoads' \subseteq CatalogLoad /\ tagCatalogLoading' \in BOOLEAN
    BY <1>1, CatalogLoadTypes DEF GoTagRoute, TagTypeOK, CatalogLoad
  <2> QED
    BY <1>1, <2>1, <2>2 DEF GoTagRoute, TagTypeOK, SaveMeansCard, CatalogLoad
<1>2. ASSUME NEW t \in Tag, RequestDelete(t) PROVE TagInv'
  BY <1>2 DEF RequestDelete, TagTypeOK, SaveMeansCard
<1>3. CASE CancelUserTagCatalogEdit
  <2>1. /\ catalogLoads' \subseteq CatalogLoad /\ tagCatalogLoading' \in BOOLEAN
        /\ activeEditor' = NoTag /\ tagDraft' \in CardId /\ tagRoute' \in TagRoute
    BY <1>0, <1>3, CancelKeeps DEF CancelUserTagCatalogEdit
  <2> QED
    BY <1>3, <2>1 DEF CancelUserTagCatalogEdit, TagTypeOK, SaveMeansCard, CatalogLoad
<1>4. CASE SaveUserTagCatalog
  <2>1. activeEditor # NoTag /\ activeEditor \in VisibleTagCards /\ tagDraft = activeEditor
    BY <1>4 DEF SaveUserTagCatalog, CardOffers
  <2>2. activeEditor = NewCard => tagDraft \notin tagCatalog
    BY <2>1 DEF TagTypeOK
  <2>3. activeEditor # NewCard => tagDraft \in tagCatalog
    BY <2>1 DEF VisibleTagCards
  <2> DEFINE e == [what |-> IF tagDraft \in tagCatalog THEN "update" ELSE "create", tag |-> tagDraft,
                   card |-> activeEditor, onEditor |-> tagRoute \in CardId, phase |-> "write"]
  <2>4. (tagRoute \in CardId) \in BOOLEAN
    BY MembershipIsBoolean
  <2>5. /\ e.card = activeEditor /\ e.tag = tagDraft
        /\ e.what = IF tagDraft \in tagCatalog THEN "update" ELSE "create"
        /\ e \in [what : {"update", "create", "delete"}, tag : CardId, card : CardId,
                  onEditor : BOOLEAN, phase : {"write", "reload"}]
    BY <2>1, <2>4 DEF TagTypeOK
  <2>6. tagEdits' = tagEdits \cup {e}
    BY <1>4 DEF SaveUserTagCatalog
  <2> HIDE DEF e
  <2> QED
    BY <1>4, <2>1, <2>2, <2>3, <2>5, <2>6 DEF SaveUserTagCatalog, TagTypeOK, SaveMeansCard
<1>5. CASE CloseDeleteDialog
  BY <1>5 DEF CloseDeleteDialog, TagTypeOK, SaveMeansCard
<1>6. CASE ConfirmTagDelete
  <2>1. (tagRoute \in CardId) \in BOOLEAN
    BY MembershipIsBoolean
  <2>2. pendingDelete \in CardId
    BY <1>6 DEF ConfirmTagDelete, DeleteDialogOffers, TagTypeOK, CardId
  <2> DEFINE e == [what |-> "delete", tag |-> pendingDelete, card |-> tagDraft,
                   onEditor |-> tagRoute \in CardId, phase |-> "write"]
  <2>3. /\ e.what = "delete"
        /\ e \in [what : {"update", "create", "delete"}, tag : CardId, card : CardId,
                  onEditor : BOOLEAN, phase : {"write", "reload"}]
    BY <2>1, <2>2 DEF TagTypeOK
  <2>4. tagEdits' = tagEdits \cup {e}
    BY <1>6 DEF ConfirmTagDelete
  <2> HIDE DEF e
  <2> QED
    BY <1>6, <2>3, <2>4 DEF ConfirmTagDelete, TagTypeOK, SaveMeansCard
<1>7. ASSUME NEW l \in catalogLoads, ServeCatalog(l) PROVE TagInv'
  <2>1. l \in CatalogLoad /\ serverTags \in SUBSET Tag
    BY DEF TagTypeOK, CatalogLoad
  <2>2. [l EXCEPT !.served = TRUE, !.read = serverTags] \in CatalogLoad
    BY <2>1 DEF CatalogLoad
  <2> QED
    BY <1>7, <2>2 DEF ServeCatalog, TagTypeOK, SaveMeansCard, CatalogLoad
<1>8. ASSUME NEW l \in catalogLoads, NEW ok \in BOOLEAN, CatalogAnswered(l, ok) PROVE TagInv'
  <2>1. CASE l.aborted
    BY <1>8, <2>1 DEF CatalogAnswered, TagTypeOK, SaveMeansCard
  <2>2. CASE ~l.aborted
    <3>1. /\ tagCatalog' \in SUBSET Tag
          /\ OpenEditor(tagRoute, tagCatalog', TRUE, FALSE)
      BY <1>8, <2>2 DEF CatalogAnswered, TagTypeOK
    <3>2. /\ activeEditor' \in CardId \cup {NoTag} /\ tagDraft' \in CardId
          /\ activeEditor' # NoTag => tagDraft' = activeEditor'
      BY <3>1, TagConstants DEF OpenEditor, CardId, TagTypeOK
    <3>3. {tagCatalogLoading', tagCatalogLoadedOnce'} \subseteq BOOLEAN
      BY <1>8, <2>2, Zenon DEF CatalogAnswered
    <3> QED
      BY <1>8, <3>1, <3>2, <3>3 DEF CatalogAnswered, TagTypeOK, SaveMeansCard
  <2> QED
    BY <2>1, <2>2
<1>9. ASSUME NEW e \in tagEdits, TagWritten(e) PROVE TagInv'
  <2>1. serverTags' \subseteq Tag
    BY <1>9 DEF TagWritten, TagTypeOK
  <2>2. [e EXCEPT !.phase = "reload"] \in [what : {"update", "create", "delete"}, tag : CardId,
            card : CardId, onEditor : BOOLEAN, phase : {"write", "reload"}]
    BY DEF TagTypeOK
  <2>3. \A f \in tagEdits' : f \in tagEdits \/ (f.what = e.what /\ f.tag = e.tag /\ f.card = e.card)
    BY <1>9 DEF TagWritten, TagTypeOK
  <2> QED
    BY <1>9, <2>1, <2>2, <2>3 DEF TagWritten, TagTypeOK, SaveMeansCard
<1>10. ASSUME NEW e \in tagEdits, TagEditFails(e) PROVE TagInv'
  BY <1>10 DEF TagEditFails, TagTypeOK, SaveMeansCard
<1>11. ASSUME NEW e \in tagEdits, TagEditDone(e) PROVE TagInv'
  <2>1. pendingDelete' \in Tag \cup {NoTag}
    BY <1>11 DEF TagEditDone, TagTypeOK
  <2>2. /\ catalogLoads' \subseteq CatalogLoad /\ tagCatalogLoading' \in BOOLEAN
        /\ activeEditor' \in CardId \cup {NoTag} /\ tagDraft' \in CardId /\ tagRoute' \in TagRoute
        /\ activeEditor' # NoTag => tagDraft' = activeEditor'
    <3>1. CASE e.what # "delete" \/ e.card = e.tag
      <4>1. CancelEdit(e.onEditor)
        BY <1>11, <3>1 DEF TagEditDone
      <4> QED
        BY <1>0, <4>1, CancelKeeps
    <3>2. CASE ~(e.what # "delete" \/ e.card = e.tag)
      <4>1. /\ OpenEditor(tagRoute, serverTags, tagCatalogLoadedOnce, tagCatalogLoading)
            /\ UNCHANGED <<tagRoute, catalogLoads, tagCatalogLoading>>
        BY <1>11, <3>2 DEF TagEditDone
      <4>2. serverTags \subseteq Tag
        BY DEF TagTypeOK
      <4>3. /\ activeEditor' \in CardId \cup {NoTag} /\ tagDraft' \in CardId
            /\ activeEditor' # NoTag => tagDraft' = activeEditor'
        BY <4>1, <4>2 DEF OpenEditor, CardId, TagTypeOK
      <4> QED
        BY <4>1, <4>3 DEF TagTypeOK, CatalogLoad
    <3> QED
      BY <3>1, <3>2
  <2> QED
    BY <1>11, <2>1, <2>2 DEF TagEditDone, TagTypeOK, SaveMeansCard, CatalogLoad
<1>12. CASE UNCHANGED tagVars
  BY <1>12 DEF tagVars, TagTypeOK, SaveMeansCard
<1> QED
  BY <1>1, <1>2, <1>3, <1>4, <1>5, <1>6, <1>7, <1>8, <1>9, <1>10, <1>11, <1>12 DEF TagNext, TagAnswers

------------------------------------------------------------------------------
(* The copy buttons (SecretCopy).                                             *)

OnItsWay(r) == fetches[r].status \in {"sent", "read"}

\* The page counts the rotations it knows of, the server has done at most one more.
VersionsAgree ==
    \A s \in Secret : secret[s] = secretVersion[s] + (IF s \in rotating THEN 2 ELSE 1)

\* What the server has read for a request is no older than the version the request was sent
\* under, and no newer than the secret there is.
ReadsAreTimed ==
    \A r \in FetchId : OnItsWay(r) =>
        /\ fetches[r].version <= secretVersion[fetches[r].id]
        /\ fetches[r].status = "read" => /\ fetches[r].version + 1 <= fetches[r].value
                                         /\ fetches[r].value <= secret[fetches[r].id]

\* Requests are numbered as they are sent.
FetchesCounted == \A r \in FetchId : r > fetchCount => fetches[r].status = "unused"

\* The promise and the controller that are held are those of requests on their way.
HeldAreOnTheirWay ==
    \A s \in Secret :
        /\ secretRequest[s] # 0 => fetches[secretRequest[s]].id = s /\ OnItsWay(secretRequest[s])
        /\ warmAbort[s] # 0 => fetches[warmAbort[s]].id = s /\ OnItsWay(warmAbort[s])

\* A copy waits for a request on its way whose controller nobody holds.
CopiesAreAdopted ==
    \A o \in CopyOp : copies[o].phase = "resolving" =>
        /\ copies[o].fetch # 0 /\ OnItsWay(copies[o].fetch)
        /\ \A s \in Secret : warmAbort[s] # copies[o].fetch

\* Until a token's secret is cached, its promise is that of its request.
PromiseIsKept ==
    \A r \in FetchId : OnItsWay(r) /\ fetches[r].id \in Token =>
        secretCache[fetches[r].id] # 0 \/ secretRequest[fetches[r].id] = r

SecretInv ==
    /\ SecretTypeOK
    /\ VersionsAgree /\ ReadsAreTimed /\ FetchesCounted /\ HeldAreOnTheirWay /\ CopiesAreAdopted
    /\ PromiseIsKept
    /\ CachedSecretIsCurrent /\ TokenFetchedOnce

FetchRecord == [id : Secret, version : 0 .. MaxRotations, status : FetchStatus,
                value : Version \cup {0}]
CopyRecord == [button : Button, phase : {"idle", "resolving", "writing"}, fetch : FetchId \cup {0},
               value : Version \cup {0}, cached : BOOLEAN]

LEMMA SecretRanges ==
    /\ MaxFetches \in Nat /\ MaxRotations \in Nat /\ MaxCopyTimers \in Nat
    /\ 0 \in 0 .. MaxRotations /\ 1 \in Version /\ 0 \notin FetchId /\ FetchId \subseteq Nat
    /\ Version \subseteq Nat /\ 0 .. MaxRotations \subseteq Nat
    /\ NoFetch \in FetchRecord /\ NoFetch.status = "unused"
    /\ NoCopy \in CopyRecord /\ NoCopy.phase = "idle"
<1>1. /\ MaxFetches \in Nat /\ MaxRotations \in Nat /\ MaxCopyTimers \in Nat
      /\ 0 \in 0 .. MaxRotations /\ 1 \in Version /\ 0 \notin FetchId /\ FetchId \subseteq Nat
      /\ Version \subseteq Nat /\ 0 .. MaxRotations \subseteq Nat
  BY SecretConstants DEF Version, FetchId
<1>2. PICK b \in Button : TRUE
  BY SecretConstants
<1>3. SecretOf[b] \in Secret
  BY <1>2, SecretConstants DEF Secret
<1>4. (CHOOSE s \in Secret : TRUE) \in Secret /\ (CHOOSE c \in Button : TRUE) \in Button
  BY <1>2, <1>3
<1> DEFINE s == CHOOSE x \in Secret : TRUE
           c == CHOOSE x \in Button : TRUE
<1> HIDE DEF s, c
<1>5. NoFetch = [id |-> s, version |-> 0, status |-> "unused", value |-> 0]
  BY DEF NoFetch, s
<1>6. NoCopy = [button |-> c, phase |-> "idle", fetch |-> 0, value |-> 0, cached |-> FALSE]
  BY DEF NoCopy, c
<1>7. s \in Secret /\ c \in Button
  BY <1>4 DEF s, c
<1>8. NoFetch \in FetchRecord /\ NoFetch.status = "unused"
  BY <1>1, <1>5, <1>7 DEF FetchRecord, FetchStatus
<1>9. NoCopy \in CopyRecord /\ NoCopy.phase = "idle"
  BY <1>6, <1>7 DEF CopyRecord
<1> QED
  BY <1>1, <1>8, <1>9

\* The same types, as facts about fields.
SecretTypes ==
    /\ secret \in [Secret -> Version] /\ rotating \subseteq Token
    /\ secretCache \in [Secret -> Version \cup {0}]
    /\ secretRequest \in [Secret -> FetchId \cup {0}]
    /\ secretVersion \in [Secret -> 0 .. MaxRotations]
    /\ warmTimer \subseteq Secret /\ warmAbort \in [Secret -> FetchId \cup {0}]
    /\ fetches \in [FetchId -> FetchRecord] /\ fetchCount \in 0 .. MaxFetches
    /\ copies \in [CopyOp -> CopyRecord]
ButtonTypes ==
    /\ copyState \in [Button -> {"none", "loading", "copied"}]
    /\ copyTimers \in [Button -> 0 .. MaxCopyTimers]
    /\ bubble \in Version \cup {0}

LEMMA SecretTypesOf == SecretTypeOK <=> SecretTypes /\ ButtonTypes
  BY DEF SecretTypeOK, SecretTypes, ButtonTypes, FetchRecord, CopyRecord

LEMMA SecretInitInv == SecretInit => SecretInv
<1> SUFFICES ASSUME SecretInit PROVE SecretInv
  OBVIOUS
<1>1. SecretTypeOK
  BY SecretRanges, SecretTypesOf DEF SecretInit, SecretTypes, ButtonTypes
<1>2. \A r \in FetchId : fetches[r].status = "unused"
  BY SecretRanges DEF SecretInit
<1>3. \A o \in CopyOp : copies[o].phase = "idle"
  BY SecretRanges DEF SecretInit
<1>4. VersionsAgree
  BY DEF SecretInit, VersionsAgree
<1> QED
  BY <1>1, <1>2, <1>3, <1>4
  DEF SecretInit, SecretInv, ReadsAreTimed, FetchesCounted, HeldAreOnTheirWay,
      CopiesAreAdopted, PromiseIsKept, CachedSecretIsCurrent, TokenFetchedOnce, OnItsWay

SecretCore ==
    /\ SecretTypes
    /\ VersionsAgree /\ ReadsAreTimed /\ FetchesCounted /\ HeldAreOnTheirWay /\ CopiesAreAdopted
    /\ PromiseIsKept
    /\ CachedSecretIsCurrent /\ TokenFetchedOnce

LEMMA SecretCoreOf == SecretInv <=> SecretCore /\ ButtonTypes
  BY SecretTypesOf DEF SecretInv, SecretCore

\* A request for s is sent: nothing of s was cached or on its way.
LEMMA SendingKeeps ==
    ASSUME SecretCore, NEW s \in Secret, SendFetch(s), secretCache[s] = 0, secretRequest[s] = 0,
           UNCHANGED <<secret, rotating, secretCache, secretVersion>>
    PROVE  /\ fetchCount + 1 \in FetchId /\ fetchCount' = fetchCount + 1
           /\ fetches' \in [FetchId -> FetchRecord] /\ fetchCount' \in 0 .. MaxFetches
           /\ secretRequest' \in [Secret -> FetchId \cup {0}]
           /\ \A r \in FetchId : r # fetchCount + 1 => fetches'[r] = fetches[r]
           /\ fetches'[fetchCount + 1].id = s /\ fetches'[fetchCount + 1].status = "sent"
           /\ ~OnItsWay(fetchCount + 1)
           /\ VersionsAgree' /\ ReadsAreTimed' /\ FetchesCounted' /\ PromiseIsKept'
           /\ CachedSecretIsCurrent' /\ TokenFetchedOnce'
           /\ \A t \in Secret : secretRequest'[t] # 0 =>
                 fetches'[secretRequest'[t]].id = t /\ fetches'[secretRequest'[t]].status \in {"sent", "read"}
<1> USE DEF SecretCore, SecretTypes
<1> DEFINE n == fetchCount + 1
           f == [id |-> s, version |-> secretVersion[s], status |-> "sent", value |-> 0]
<1>1. n \in FetchId /\ fetchCount' = n /\ n \in 0 .. MaxFetches /\ n > fetchCount
  BY SecretRanges DEF SendFetch, FetchId
<1>2. f \in FetchRecord /\ f.id = s /\ f.status = "sent" /\ f.version = secretVersion[s]
  BY DEF FetchRecord, FetchStatus
<1>3. fetches' = [fetches EXCEPT ![n] = f] /\ secretRequest' = [secretRequest EXCEPT ![s] = n]
  BY DEF SendFetch
<1> HIDE DEF n, f
<1>4. fetches' \in [FetchId -> FetchRecord] /\ secretRequest' \in [Secret -> FetchId \cup {0}]
  BY <1>1, <1>2, <1>3
<1>5. /\ \A r \in FetchId : r # n => fetches'[r] = fetches[r]
      /\ fetches'[n] = f
      /\ \A t \in Secret : t # s => secretRequest'[t] = secretRequest[t]
      /\ secretRequest'[s] = n
  BY <1>1, <1>3
<1>6. ~OnItsWay(n)
  BY <1>1 DEF FetchesCounted, OnItsWay
<1>7. \A r \in FetchId : OnItsWay(r)' <=> r = n \/ OnItsWay(r)
  BY <1>2, <1>5 DEF OnItsWay
<1>8. FetchesCounted'
  <2> SUFFICES ASSUME NEW r \in FetchId, r > n PROVE fetches'[r].status = "unused"
    BY <1>1 DEF FetchesCounted
  <2>1. r # n /\ r > fetchCount
    BY SecretRanges DEF n
  <2> QED
    BY <1>5, <2>1 DEF FetchesCounted
<1>9. VersionsAgree' /\ CachedSecretIsCurrent'
  BY DEF VersionsAgree, CachedSecretIsCurrent
<1>10. ReadsAreTimed'
  <2> SUFFICES ASSUME NEW r \in FetchId, OnItsWay(r)'
               PROVE  /\ fetches'[r].version <= secretVersion[fetches'[r].id]
                      /\ fetches'[r].status = "read" => /\ fetches'[r].version + 1 <= fetches'[r].value
                                                        /\ fetches'[r].value <= secret[fetches'[r].id]
    BY DEF ReadsAreTimed
  <2>1. CASE r = n
    <3>1. secretVersion[s] \in Nat
      BY SecretRanges
    <3> QED
      BY <1>2, <1>5, <2>1, <3>1
  <2>2. CASE r # n
    BY <1>5, <1>7, <2>2 DEF ReadsAreTimed
  <2> QED
    BY <2>1, <2>2
\* Nothing else is on its way for a token that is not cached.
<1>11. s \in Token => \A r \in FetchId : OnItsWay(r) => fetches[r].id # s
  BY SecretRanges DEF PromiseIsKept
<1>12. PromiseIsKept'
  <2> SUFFICES ASSUME NEW r \in FetchId, OnItsWay(r)', fetches'[r].id \in Token
               PROVE  secretCache[fetches'[r].id] # 0 \/ secretRequest'[fetches'[r].id] = r
    BY DEF PromiseIsKept
  <2>1. CASE r = n
    BY <1>2, <1>5, <2>1
  <2>2. CASE r # n
    <3>1. fetches[r].id # s /\ fetches[r].id \in Secret /\ OnItsWay(r) /\ fetches'[r] = fetches[r]
      BY <1>5, <1>7, <1>11, <2>2 DEF FetchRecord
    <3> QED
      BY <1>5, <3>1 DEF PromiseIsKept
  <2> QED
    BY <2>1, <2>2
<1>13. TokenFetchedOnce'
  <2> SUFFICES ASSUME NEW r \in FetchId, NEW q \in FetchId, r # q, fetches'[r].id = fetches'[q].id,
                      fetches'[r].id \in Token, OnItsWay(r)', OnItsWay(q)'
               PROVE  FALSE
    BY DEF TokenFetchedOnce, OnItsWay
  <2>1. CASE r = n
    BY <1>2, <1>5, <1>7, <1>11, <2>1
  <2>2. CASE q = n
    BY <1>2, <1>5, <1>7, <1>11, <2>2
  <2>3. CASE r # n /\ q # n
    BY <1>5, <1>7, <2>3 DEF TokenFetchedOnce, OnItsWay
  <2> QED
    BY <2>1, <2>2, <2>3
<1>14. \A t \in Secret : secretRequest'[t] # 0 =>
          fetches'[secretRequest'[t]].id = t /\ fetches'[secretRequest'[t]].status \in {"sent", "read"}
  <2> SUFFICES ASSUME NEW t \in Secret, secretRequest'[t] # 0
               PROVE  fetches'[secretRequest'[t]].id = t /\ fetches'[secretRequest'[t]].status \in {"sent", "read"}
    OBVIOUS
  <2>1. CASE t = s
    BY <1>1, <1>2, <1>5, <1>7, <2>1
  <2>2. CASE t # s
    <3>1. secretRequest[t] \in FetchId /\ fetches[secretRequest[t]].id = t /\ OnItsWay(secretRequest[t])
      BY <1>5, <2>2 DEF HeldAreOnTheirWay
    <3>2. secretRequest[t] # n /\ secretRequest'[t] = secretRequest[t]
      BY <1>5, <1>6, <2>2, <3>1
    <3> QED
      BY <1>5, <3>1, <3>2 DEF OnItsWay
  <2> QED
    BY <2>1, <2>2
<1> QED
  BY <1>1, <1>2, <1>4, <1>5, <1>6, <1>8, <1>9, <1>10, <1>12, <1>13, <1>14 DEF n

\* A step that leaves requests, secrets and what is held alone, apart from copies that begin to write
\* or end.
LEMMA CopiesMayEnd ==
    ASSUME SecretCore,
           UNCHANGED <<secret, rotating, secretCache, secretRequest, secretVersion, fetches,
                       fetchCount>>,
           warmTimer' \subseteq Secret,
           warmAbort' \in [Secret -> FetchId \cup {0}],
           \A s \in Secret : warmAbort'[s] = warmAbort[s] \/ warmAbort'[s] = 0,
           copies' \in [CopyOp -> CopyRecord],
           \A o \in CopyOp : copies'[o].phase = "resolving" =>
              \/ copies'[o] = copies[o]
              \/ /\ copies'[o].fetch # 0 /\ OnItsWay(copies'[o].fetch)
                 /\ \A s \in Secret : warmAbort'[s] # copies'[o].fetch
    PROVE  SecretCore'
<1> USE DEF SecretCore
<1>1. SecretTypes'
  BY DEF SecretTypes
<1>2. VersionsAgree' /\ ReadsAreTimed' /\ FetchesCounted' /\ PromiseIsKept'
  BY DEF VersionsAgree, ReadsAreTimed, FetchesCounted, PromiseIsKept, OnItsWay
<1>3. CachedSecretIsCurrent' /\ TokenFetchedOnce'
  BY DEF CachedSecretIsCurrent, TokenFetchedOnce
<1>4. HeldAreOnTheirWay'
  BY DEF HeldAreOnTheirWay, OnItsWay
<1>5. CopiesAreAdopted'
  BY DEF CopiesAreAdopted, OnItsWay
<1> QED
  BY <1>1, <1>2, <1>3, <1>4, <1>5

LEMMA WarmKeeps ==
    ASSUME SecretCore, NEW s \in Secret, WarmStarts(s)
    PROVE  SecretCore'
<1>1. CASE secretCache[s] # 0 \/ secretRequest[s] # 0
  <2>1. /\ UNCHANGED <<secret, rotating, secretCache, secretRequest, secretVersion, fetches,
                       fetchCount, warmAbort, copies>>
        /\ warmTimer' = warmTimer \ {s}
    BY <1>1 DEF WarmStarts, WarmSecret
  <2>2. warmTimer' \subseteq Secret /\ warmAbort' \in [Secret -> FetchId \cup {0}]
        /\ copies' \in [CopyOp -> CopyRecord]
    BY <2>1 DEF SecretCore, SecretTypes
  <2> QED
    BY <2>1, <2>2, CopiesMayEnd
<1>2. CASE secretCache[s] = 0 /\ secretRequest[s] = 0
  <2> DEFINE n == fetchCount + 1
  <2>1. /\ SendFetch(s) /\ warmAbort' = [warmAbort EXCEPT ![s] = n] /\ warmTimer' = warmTimer \ {s}
        /\ UNCHANGED <<secret, rotating, secretCache, secretVersion, copies>>
    BY <1>2 DEF WarmStarts, WarmSecret
  <2>2. /\ n \in FetchId /\ fetchCount' = n
        /\ fetches' \in [FetchId -> FetchRecord] /\ fetchCount' \in 0 .. MaxFetches
        /\ secretRequest' \in [Secret -> FetchId \cup {0}]
        /\ \A r \in FetchId : r # n => fetches'[r] = fetches[r]
        /\ fetches'[n].id = s /\ fetches'[n].status = "sent"
        /\ ~OnItsWay(n)
        /\ VersionsAgree' /\ ReadsAreTimed' /\ FetchesCounted' /\ PromiseIsKept'
        /\ CachedSecretIsCurrent' /\ TokenFetchedOnce'
        /\ \A t \in Secret : secretRequest'[t] # 0 =>
              fetches'[secretRequest'[t]].id = t /\ fetches'[secretRequest'[t]].status \in {"sent", "read"}
    BY <1>2, <2>1, SendingKeeps
  <2> HIDE DEF n
  <2>3. warmAbort \in [Secret -> FetchId \cup {0}] /\ copies \in [CopyOp -> CopyRecord]
    BY DEF SecretCore, SecretTypes
  <2>4. /\ warmAbort'[s] = n /\ \A t \in Secret : t # s => warmAbort'[t] = warmAbort[t]
        /\ warmAbort' \in [Secret -> FetchId \cup {0}]
    BY <2>1, <2>2, <2>3
  <2>5. SecretTypes'
    BY <2>1, <2>2, <2>4 DEF SecretCore, SecretTypes
  <2>6. \A t \in Secret : warmAbort'[t] # 0 =>
            fetches'[warmAbort'[t]].id = t /\ fetches'[warmAbort'[t]].status \in {"sent", "read"}
    <3> SUFFICES ASSUME NEW t \in Secret, warmAbort'[t] # 0
                 PROVE  fetches'[warmAbort'[t]].id = t /\ fetches'[warmAbort'[t]].status \in {"sent", "read"}
      OBVIOUS
    <3>1. CASE t = s
      BY <2>2, <2>4, <3>1
    <3>2. CASE t # s
      <4>1. warmAbort[t] \in FetchId /\ fetches[warmAbort[t]].id = t /\ OnItsWay(warmAbort[t])
        BY <2>3, <2>4, <3>2 DEF SecretCore, HeldAreOnTheirWay
      <4>2. warmAbort[t] # n /\ warmAbort'[t] = warmAbort[t]
        BY <2>2, <2>4, <3>2, <4>1
      <4>3. fetches'[warmAbort[t]] = fetches[warmAbort[t]]
        BY <2>2, <4>1, <4>2
      <4> QED
        BY <4>1, <4>2, <4>3 DEF OnItsWay
    <3> QED
      BY <3>1, <3>2
  <2>7. HeldAreOnTheirWay'
    BY <2>2, <2>6 DEF HeldAreOnTheirWay, OnItsWay
  <2>8. CopiesAreAdopted'
    <3> SUFFICES ASSUME NEW o \in CopyOp, copies[o].phase = "resolving"
                 PROVE  /\ copies[o].fetch # 0 /\ fetches'[copies[o].fetch].status \in {"sent", "read"}
                        /\ \A t \in Secret : warmAbort'[t] # copies[o].fetch
      BY <2>1 DEF CopiesAreAdopted, OnItsWay
    <3>1. /\ copies[o].fetch # 0 /\ OnItsWay(copies[o].fetch)
          /\ \A t \in Secret : warmAbort[t] # copies[o].fetch
      BY DEF SecretCore, CopiesAreAdopted
    <3>2. copies[o].fetch \in FetchId /\ copies[o].fetch # n
      BY <2>2, <2>3, <3>1 DEF CopyRecord
    <3> QED
      BY <2>2, <2>4, <3>1, <3>2 DEF OnItsWay
  <2> QED
    BY <2>2, <2>5, <2>7, <2>8 DEF SecretCore
<1> QED
  BY <1>1, <1>2

LEMMA BeginCopyKeeps ==
    ASSUME SecretCore, NEW o \in CopyOp, NEW b \in Button, BeginCopy(o, b)
    PROVE  SecretCore'
<1> DEFINE s == SecretOf[b]
           begun(phase, r, v) == [button |-> b, phase |-> phase, fetch |-> r, value |-> v,
                                  cached |-> secretCache[s] # 0]
<1>0. s \in Secret
  BY SecretConstants DEF Secret
<1>1. /\ warmTimer' = warmTimer \ {s} /\ warmAbort' = [warmAbort EXCEPT ![s] = 0]
      /\ UNCHANGED <<secret, rotating, secretCache, secretVersion>>
  BY DEF BeginCopy, CommitSecretWarm
<1>2. (secretCache[s] # 0) \in BOOLEAN
  <2>1. CASE secretCache[s] # 0
    BY <2>1
  <2>2. CASE secretCache[s] = 0
    BY <2>2
  <2> QED
    BY <2>1, <2>2
<1>3. /\ warmAbort \in [Secret -> FetchId \cup {0}] /\ copies \in [CopyOp -> CopyRecord]
      /\ secretCache[s] \in Version \cup {0} /\ secretRequest[s] \in FetchId \cup {0}
  BY <1>0 DEF SecretCore, SecretTypes
<1>4. /\ \A t \in Secret : t # s => warmAbort'[t] = warmAbort[t]
      /\ warmAbort'[s] = 0 /\ warmAbort' \in [Secret -> FetchId \cup {0}]
      /\ warmTimer' \subseteq Secret
  BY <1>0, <1>1, <1>3 DEF SecretCore, SecretTypes
<1>5. ASSUME NEW phase \in {"resolving", "writing"}, NEW r \in FetchId \cup {0}, NEW v \in Version \cup {0},
             copies' = [copies EXCEPT ![o] = begun(phase, r, v)]
      PROVE  /\ copies' \in [CopyOp -> CopyRecord]
             /\ \A p \in CopyOp : p # o => copies'[p] = copies[p]
             /\ copies'[o].phase = phase /\ copies'[o].fetch = r
  <2>1. /\ begun(phase, r, v) \in CopyRecord
        /\ begun(phase, r, v).phase = phase /\ begun(phase, r, v).fetch = r
    BY <1>2 DEF CopyRecord
  <2> DEFINE c == begun(phase, r, v)
  <2>2. copies' = [copies EXCEPT ![o] = c] /\ c \in CopyRecord /\ c.phase = phase /\ c.fetch = r
    BY <1>5, <2>1
  <2> HIDE DEF c
  <2> QED
    BY <1>3, <2>2
\* The promise is held, so its request is on its way, and it is not that of another secret.
<1>6. ASSUME secretCache[s] = 0, secretRequest[s] # 0 PROVE SecretCore'
  <2>1. /\ copies' = [copies EXCEPT ![o] = begun("resolving", secretRequest[s], 0)]
        /\ UNCHANGED <<fetches, fetchCount, secretRequest>>
    BY <1>6 DEF BeginCopy
  <2>2. 0 \in Version \cup {0} /\ "resolving" \in {"resolving", "writing"}
    OBVIOUS
  <2>3. /\ copies' \in [CopyOp -> CopyRecord]
        /\ \A p \in CopyOp : p # o => copies'[p] = copies[p]
        /\ copies'[o].phase = "resolving" /\ copies'[o].fetch = secretRequest[s]
    BY <1>3, <1>5, <2>1, <2>2
  <2>4. /\ OnItsWay(secretRequest[s]) /\ fetches[secretRequest[s]].id = s
    BY <1>0, <1>6 DEF SecretCore, HeldAreOnTheirWay
  <2>5. \A t \in Secret : warmAbort'[t] # secretRequest[s]
    BY <1>4, <1>6, <2>4 DEF SecretCore, HeldAreOnTheirWay
  <2>6. \A p \in CopyOp : copies'[p].phase = "resolving" =>
            \/ copies'[p] = copies[p]
            \/ /\ copies'[p].fetch # 0 /\ OnItsWay(copies'[p].fetch)
               /\ \A t \in Secret : warmAbort'[t] # copies'[p].fetch
    BY <1>6, <2>3, <2>4, <2>5
  <2>7. \A t \in Secret : warmAbort'[t] = warmAbort[t] \/ warmAbort'[t] = 0
    BY <1>4
  <2> QED
    BY <1>1, <1>4, <2>1, <2>3, <2>6, <2>7, CopiesMayEnd
<1>7. ASSUME secretCache[s] # 0 PROVE SecretCore'
  <2>1. /\ copies' = [copies EXCEPT ![o] = begun("writing", 0, secretCache[s])]
        /\ UNCHANGED <<fetches, fetchCount, secretRequest>>
    BY <1>7 DEF BeginCopy
  <2>2. 0 \in FetchId \cup {0} /\ "writing" \in {"resolving", "writing"}
    OBVIOUS
  <2>3. /\ copies' \in [CopyOp -> CopyRecord]
        /\ \A p \in CopyOp : p # o => copies'[p] = copies[p]
        /\ copies'[o].phase = "writing"
    BY <1>3, <1>5, <2>1, <2>2
  <2>4. \A p \in CopyOp : copies'[p].phase = "resolving" => copies'[p] = copies[p]
    BY <2>3
  <2>5. \A t \in Secret : warmAbort'[t] = warmAbort[t] \/ warmAbort'[t] = 0
    BY <1>4
  <2> QED
    BY <1>1, <1>4, <2>1, <2>3, <2>4, <2>5, CopiesMayEnd
<1>8. ASSUME secretCache[s] = 0, secretRequest[s] = 0 PROVE SecretCore'
  <2> DEFINE n == fetchCount + 1
  <2>1. SendFetch(s) /\ copies' = [copies EXCEPT ![o] = begun("resolving", n, 0)]
    BY <1>8 DEF BeginCopy
  <2>2. /\ n \in FetchId /\ fetchCount' = n
        /\ fetches' \in [FetchId -> FetchRecord] /\ fetchCount' \in 0 .. MaxFetches
        /\ secretRequest' \in [Secret -> FetchId \cup {0}]
        /\ \A r \in FetchId : r # n => fetches'[r] = fetches[r]
        /\ fetches'[n].id = s /\ fetches'[n].status = "sent"
        /\ ~OnItsWay(n)
        /\ VersionsAgree' /\ ReadsAreTimed' /\ FetchesCounted' /\ PromiseIsKept'
        /\ CachedSecretIsCurrent' /\ TokenFetchedOnce'
        /\ \A t \in Secret : secretRequest'[t] # 0 =>
              fetches'[secretRequest'[t]].id = t /\ fetches'[secretRequest'[t]].status \in {"sent", "read"}
    BY <1>0, <1>1, <1>8, <2>1, SendingKeeps
  <2> HIDE DEF n
  <2>3. n \in FetchId \cup {0} /\ 0 \in Version \cup {0} /\ "resolving" \in {"resolving", "writing"}
    BY <2>2
  <2>4. /\ copies' \in [CopyOp -> CopyRecord]
        /\ \A p \in CopyOp : p # o => copies'[p] = copies[p]
        /\ copies'[o].phase = "resolving" /\ copies'[o].fetch = n
    BY <1>5, <2>1, <2>3
  <2>5. SecretTypes'
    BY <1>1, <1>4, <2>2, <2>4 DEF SecretCore, SecretTypes
  <2>6. \A t \in Secret : warmAbort[t] # 0 => /\ warmAbort[t] # n /\ warmAbort[t] \in FetchId
                                               /\ OnItsWay(warmAbort[t]) /\ fetches[warmAbort[t]].id = t
    BY <1>3, <2>2 DEF SecretCore, HeldAreOnTheirWay
  <2>7. HeldAreOnTheirWay'
    <3>1. ASSUME NEW t \in Secret, warmAbort'[t] # 0
          PROVE  fetches'[warmAbort'[t]].id = t /\ fetches'[warmAbort'[t]].status \in {"sent", "read"}
      <4>1. warmAbort'[t] = warmAbort[t] /\ warmAbort[t] # 0
        BY <1>4, <3>1
      <4>2. fetches'[warmAbort[t]] = fetches[warmAbort[t]] /\ fetches[warmAbort[t]].id = t
            /\ OnItsWay(warmAbort[t])
        BY <2>2, <2>6, <4>1
      <4> QED
        BY <4>1, <4>2 DEF OnItsWay
    <3> QED
      BY <2>2, <3>1 DEF HeldAreOnTheirWay, OnItsWay
  <2>8. CopiesAreAdopted'
    <3> SUFFICES ASSUME NEW p \in CopyOp, copies'[p].phase = "resolving"
                 PROVE  /\ copies'[p].fetch # 0 /\ fetches'[copies'[p].fetch].status \in {"sent", "read"}
                        /\ \A t \in Secret : warmAbort'[t] # copies'[p].fetch
      BY DEF CopiesAreAdopted, OnItsWay
    <3>1. CASE p = o
      <4>1. n # 0
        BY <2>2, SecretRanges
      <4> QED
        BY <1>4, <2>2, <2>4, <2>6, <3>1, <4>1
    <3>2. CASE p # o
      <4>1. /\ copies'[p] = copies[p] /\ copies[p].fetch # 0 /\ OnItsWay(copies[p].fetch)
            /\ \A t \in Secret : warmAbort[t] # copies[p].fetch
        BY <2>4, <3>2 DEF SecretCore, CopiesAreAdopted
      <4>2. copies[p].fetch \in FetchId /\ copies[p].fetch # n
        BY <1>3, <2>2, <4>1 DEF CopyRecord
      <4>3. fetches'[copies[p].fetch] = fetches[copies[p].fetch]
        BY <2>2, <4>2
      <4> QED
        BY <1>4, <4>1, <4>3 DEF OnItsWay
    <3> QED
      BY <3>1, <3>2
  <2> QED
    BY <2>2, <2>5, <2>7, <2>8 DEF SecretCore
<1> QED
  BY <1>6, <1>7, <1>8

\* Request r ends, or is aborted: nothing held or awaited is r any more.
LEMMA FetchEnds ==
    ASSUME SecretCore, NEW r \in FetchId, NEW s \in Secret, fetches[r].id = s,
           UNCHANGED <<secret, rotating, secretVersion, fetchCount>>,
           warmTimer' \subseteq Secret,
           fetches' \in [FetchId -> FetchRecord],
           \A q \in FetchId : q # r => fetches'[q] = fetches[q],
           fetches'[r].status \in {"aborted", "settled"}, fetches[r].status # "unused",
           fetches'[r].id = s,
           secretRequest' \in [Secret -> FetchId \cup {0}],
           \A t \in Secret : t # s => secretRequest'[t] = secretRequest[t],
           \/ secretRequest'[s] = 0
           \/ secretRequest'[s] = secretRequest[s] /\ secretRequest[s] # r,
           s \in Token /\ OnItsWay(r) => secretRequest[s] \in {0, r},
           s \in Token /\ ~OnItsWay(r) /\ secretRequest[s] # r => secretRequest'[s] = secretRequest[s],
           warmAbort' \in [Secret -> FetchId \cup {0}],
           \A t \in Secret : t # s => warmAbort'[t] = warmAbort[t],
           \/ warmAbort'[s] = 0
           \/ warmAbort'[s] = warmAbort[s] /\ warmAbort[s] # r,
           copies' \in [CopyOp -> CopyRecord],
           \A o \in CopyOp : copies'[o].phase = "resolving" => copies'[o] = copies[o] /\ copies[o].fetch # r,
           secretCache' \in [Secret -> Version \cup {0}],
           \A t \in Secret : secretCache[t] # 0 => secretCache'[t] # 0,
           CachedSecretIsCurrent'
    PROVE  SecretCore'
<1>1. SecretTypes'
  BY DEF SecretCore, SecretTypes
<1>2. VersionsAgree'
  BY DEF SecretCore, VersionsAgree
<1>3. \A q \in FetchId : OnItsWay(q)' => q # r /\ OnItsWay(q) /\ fetches'[q] = fetches[q]
  BY DEF OnItsWay
<1>4. \A q \in FetchId : q # r /\ OnItsWay(q) => OnItsWay(q)'
  BY DEF OnItsWay
<1>5. ReadsAreTimed'
  BY <1>3 DEF SecretCore, ReadsAreTimed
<1>6. FetchesCounted'
  BY DEF SecretCore, FetchesCounted
<1>7. HeldAreOnTheirWay'
  <2>1. ASSUME NEW t \in Secret, NEW q \in FetchId, q # r, fetches[q].id = t, OnItsWay(q)
        PROVE  fetches'[q].id = t /\ OnItsWay(q)'
    BY <1>4, <2>1
  <2>2. ASSUME NEW t \in Secret, secretRequest'[t] # 0
        PROVE  fetches'[secretRequest'[t]].id = t /\ fetches'[secretRequest'[t]].status \in {"sent", "read"}
    <3>1. secretRequest'[t] = secretRequest[t] /\ secretRequest[t] \in FetchId
      BY <2>2
    <3>2. fetches[secretRequest[t]].id = t /\ OnItsWay(secretRequest[t])
      BY <2>2, <3>1 DEF SecretCore, HeldAreOnTheirWay
    <3>3. secretRequest[t] # r
      BY <2>2, <3>2
    <3> QED
      BY <2>1, <3>1, <3>2, <3>3 DEF OnItsWay
  <2>3. ASSUME NEW t \in Secret, warmAbort'[t] # 0
        PROVE  fetches'[warmAbort'[t]].id = t /\ fetches'[warmAbort'[t]].status \in {"sent", "read"}
    <3>1. warmAbort'[t] = warmAbort[t] /\ warmAbort[t] \in FetchId
      BY <2>3
    <3>2. fetches[warmAbort[t]].id = t /\ OnItsWay(warmAbort[t])
      BY <2>3, <3>1 DEF SecretCore, HeldAreOnTheirWay
    <3>3. warmAbort[t] # r
      BY <2>3, <3>2
    <3> QED
      BY <2>1, <3>1, <3>2, <3>3 DEF OnItsWay
  <2> QED
    BY <2>2, <2>3 DEF HeldAreOnTheirWay, OnItsWay
<1>8. CopiesAreAdopted'
  <2> SUFFICES ASSUME NEW o \in CopyOp, copies'[o].phase = "resolving"
               PROVE  /\ copies'[o].fetch # 0 /\ fetches'[copies'[o].fetch].status \in {"sent", "read"}
                      /\ \A t \in Secret : warmAbort'[t] # copies'[o].fetch
    BY DEF CopiesAreAdopted, OnItsWay
  <2>1. /\ copies'[o] = copies[o] /\ copies[o].fetch # r
        /\ copies[o].fetch # 0 /\ OnItsWay(copies[o].fetch)
        /\ \A t \in Secret : warmAbort[t] # copies[o].fetch
    BY DEF SecretCore, CopiesAreAdopted
  <2>2. copies[o].fetch \in FetchId
    BY <2>1 DEF SecretCore, SecretTypes, CopyRecord
  <2>3. fetches'[copies[o].fetch] = fetches[copies[o].fetch]
    BY <2>1, <2>2
  <2>4. \A t \in Secret : warmAbort'[t] = warmAbort[t] \/ warmAbort'[t] = 0
    OBVIOUS
  <2> QED
    BY <2>1, <2>3, <2>4 DEF OnItsWay
<1>9. PromiseIsKept'
  <2> SUFFICES ASSUME NEW q \in FetchId, OnItsWay(q)', fetches'[q].id \in Token
               PROVE  secretCache'[fetches'[q].id] # 0 \/ secretRequest'[fetches'[q].id] = q
    BY DEF PromiseIsKept
  <2> DEFINE t == fetches[q].id
  <2>1. q # r /\ OnItsWay(q) /\ fetches'[q].id = t /\ t \in Token /\ t \in Secret
    BY <1>3 DEF Secret
  <2> HIDE DEF t
  <2>2. secretCache[t] # 0 \/ secretRequest[t] = q
    BY <2>1 DEF SecretCore, PromiseIsKept, t
  <2>3. CASE secretCache[t] # 0
    BY <2>1, <2>3
  <2>4. CASE secretRequest[t] = q /\ t # s
    BY <2>1, <2>4
  <2>5. CASE secretRequest[t] = q /\ t = s
    <3>1. q # 0
      BY SecretRanges
    <3>2. ~OnItsWay(r)
      BY <2>1, <2>5, <3>1
    <3> QED
      BY <2>1, <2>5, <3>2
  <2> QED
    BY <2>2, <2>3, <2>4, <2>5
<1>10. TokenFetchedOnce'
  <2> SUFFICES ASSUME NEW p \in FetchId, NEW q \in FetchId, p # q, fetches'[p].id = fetches'[q].id,
                      fetches'[p].id \in Token, OnItsWay(p)', OnItsWay(q)'
               PROVE  FALSE
    BY DEF TokenFetchedOnce, OnItsWay
  <2> QED
    BY <1>3 DEF SecretCore, TokenFetchedOnce, OnItsWay
<1> QED
  BY <1>1, <1>2, <1>5, <1>6, <1>7, <1>8, <1>9, <1>10 DEF SecretCore

\* A token's request on its way is the one promised, or nothing is.
LEMMA PromisedOrNone ==
    ASSUME SecretCore, NEW r \in FetchId, OnItsWay(r), fetches[r].id \in Token
    PROVE  secretRequest[fetches[r].id] \in {0, r}
<1> DEFINE s == fetches[r].id
           q == secretRequest[s]
<1>1. s \in Secret /\ q \in FetchId \cup {0}
  BY DEF SecretCore, SecretTypes, Secret
<1>2. q # 0 => fetches[q].id = s /\ OnItsWay(q)
  BY <1>1 DEF SecretCore, HeldAreOnTheirWay
<1>3. q # 0 /\ q # r => FALSE
  BY <1>1, <1>2 DEF SecretCore, TokenFetchedOnce, OnItsWay
<1> QED
  BY <1>1, <1>3

LEMMA CancelKeepsCopies ==
    ASSUME SecretCore, NEW s \in Secret, CancelSecretWarm(s)
    PROVE  SecretCore'
<1>0. /\ warmAbort \in [Secret -> FetchId \cup {0}] /\ copies \in [CopyOp -> CopyRecord]
      /\ fetches \in [FetchId -> FetchRecord] /\ secretRequest \in [Secret -> FetchId \cup {0}]
      /\ secretCache \in [Secret -> Version \cup {0}]
      /\ warmTimer' \subseteq Secret
  BY DEF SecretCore, SecretTypes, CancelSecretWarm
<1>1. CASE warmAbort[s] = 0
  <2>1. UNCHANGED <<secret, rotating, secretCache, secretRequest, secretVersion, fetches,
                    fetchCount, warmAbort, copies>>
    BY <1>1 DEF CancelSecretWarm
  <2>2. warmAbort' \in [Secret -> FetchId \cup {0}] /\ copies' \in [CopyOp -> CopyRecord]
    BY <1>0, <2>1
  <2> QED
    BY <1>0, <2>1, <2>2, CopiesMayEnd
<1>2. CASE warmAbort[s] # 0
  <2> DEFINE r == warmAbort[s]
             f == [fetches[r] EXCEPT !.status = "aborted"]
  <2>1. r \in FetchId /\ fetches[r].id = s /\ OnItsWay(r)
    BY <1>0, <1>2 DEF SecretCore, HeldAreOnTheirWay
  <2>2. /\ warmAbort' = [warmAbort EXCEPT ![s] = 0] /\ secretRequest' = [secretRequest EXCEPT ![s] = 0]
        /\ UNCHANGED <<secret, rotating, secretCache, secretVersion, fetchCount, copies>>
    BY <1>2 DEF CancelSecretWarm
  <2>3. fetches' = [fetches EXCEPT ![r].status = IF @ \in {"sent", "read"} THEN "aborted" ELSE @]
    BY <1>2 DEF CancelSecretWarm
  <2>4. fetches' = [fetches EXCEPT ![r] = f]
    BY <1>0, <2>1, <2>3 DEF OnItsWay
  <2>5. f \in FetchRecord /\ f.status = "aborted" /\ f.id = s
    BY <1>0, <2>1 DEF FetchRecord, FetchStatus
  <2>6. s \in Token => secretRequest[s] \in {0, r}
    BY <2>1, PromisedOrNone
  <2>7. \A o \in CopyOp : copies[o].phase = "resolving" => copies[o].fetch # r
    BY DEF SecretCore, CopiesAreAdopted
  <2>8. fetches[r].status # "unused"
    BY <2>1 DEF OnItsWay
  <2> HIDE DEF r, f
  <2>9. /\ fetches' \in [FetchId -> FetchRecord]
        /\ \A q \in FetchId : q # r => fetches'[q] = fetches[q]
        /\ fetches'[r] = f
    BY <1>0, <2>1, <2>4, <2>5
  <2>10. /\ secretRequest' \in [Secret -> FetchId \cup {0}] /\ secretRequest'[s] = 0
         /\ \A t \in Secret : t # s => secretRequest'[t] = secretRequest[t]
    BY <1>0, <2>2
  <2>11. /\ warmAbort' \in [Secret -> FetchId \cup {0}] /\ warmAbort'[s] = 0
         /\ \A t \in Secret : t # s => warmAbort'[t] = warmAbort[t]
    BY <1>0, <2>2
  <2>12. CachedSecretIsCurrent'
    BY <2>2 DEF SecretCore, CachedSecretIsCurrent
  <2>13. /\ fetches'[r].status \in {"aborted", "settled"} /\ fetches'[r].id = s
    BY <2>5, <2>9
  <2>14. /\ copies' \in [CopyOp -> CopyRecord] /\ secretCache' \in [Secret -> Version \cup {0}]
         /\ \A t \in Secret : secretCache[t] # 0 => secretCache'[t] # 0
         /\ \A o \in CopyOp : copies'[o].phase = "resolving" => copies'[o] = copies[o] /\ copies[o].fetch # r
    BY <1>0, <2>2, <2>7
  <2> QED
    BY <1>0, <2>1, <2>2, <2>6, <2>8, <2>9, <2>10, <2>11, <2>12, <2>13, <2>14, FetchEnds
<1> QED
  BY <1>1, <1>2

LEMMA ServeKeeps ==
    ASSUME SecretCore, NEW r \in FetchId, ServeFetch(r)
    PROVE  SecretCore'
<1> DEFINE s == fetches[r].id
           f == [fetches[r] EXCEPT !.status = "read", !.value = secret[s]]
<1>0. /\ fetches \in [FetchId -> FetchRecord] /\ fetches[r].status = "sent" /\ s \in Secret
      /\ UNCHANGED <<secret, rotating, secretCache, secretRequest, secretVersion, warmTimer,
                     warmAbort, fetchCount, copies>>
      /\ secret \in [Secret -> Version] /\ secretVersion \in [Secret -> 0 .. MaxRotations]
  BY DEF SecretCore, SecretTypes, ServeFetch, FetchRecord
<1>1. fetches' = [fetches EXCEPT ![r] = f]
  BY <1>0 DEF ServeFetch
<1>2. /\ f \in FetchRecord /\ f.status = "read" /\ f.value = secret[s] /\ f.id = s
      /\ f.version = fetches[r].version
  BY <1>0 DEF FetchRecord, FetchStatus
<1>3. /\ fetches[r].version \in Nat /\ secret[s] \in Nat /\ secretVersion[s] \in Nat
      /\ fetches[r].version <= secretVersion[s]
  <2>1. fetches[r].version \in 0 .. MaxRotations /\ secret[s] \in Version /\ secretVersion[s] \in 0 .. MaxRotations
    BY <1>0 DEF FetchRecord
  <2>2. fetches[r].version <= secretVersion[s]
    BY <1>0 DEF SecretCore, ReadsAreTimed, OnItsWay
  <2> QED
    BY <2>1, <2>2, SecretRanges
<1>4. secret[s] >= secretVersion[s] + 1
  BY <1>0, <1>3 DEF SecretCore, VersionsAgree
<1> HIDE DEF f
<1>5. /\ fetches' \in [FetchId -> FetchRecord] /\ fetches'[r] = f
      /\ \A q \in FetchId : q # r => fetches'[q] = fetches[q]
  BY <1>0, <1>1, <1>2
<1>6. \A q \in FetchId : /\ OnItsWay(q)' <=> OnItsWay(q)
                         /\ fetches'[q].id = fetches[q].id
  BY <1>0, <1>2, <1>5 DEF OnItsWay
<1>7. SecretTypes'
  BY <1>0, <1>5 DEF SecretCore, SecretTypes
<1>8. VersionsAgree' /\ CachedSecretIsCurrent'
  BY <1>0 DEF SecretCore, VersionsAgree, CachedSecretIsCurrent
<1>9. FetchesCounted'
  BY <1>0, <1>5 DEF SecretCore, FetchesCounted
<1>10. ReadsAreTimed'
  <2> SUFFICES ASSUME NEW q \in FetchId, OnItsWay(q)'
               PROVE  /\ fetches'[q].version <= secretVersion[fetches'[q].id]
                      /\ fetches'[q].status = "read" => /\ fetches'[q].version + 1 <= fetches'[q].value
                                                        /\ fetches'[q].value <= secret[fetches'[q].id]
    BY <1>0 DEF ReadsAreTimed
  <2>1. CASE q = r
    BY <1>2, <1>3, <1>4, <1>5, <2>1
  <2>2. CASE q # r
    BY <1>5, <1>6, <2>2 DEF SecretCore, ReadsAreTimed
  <2> QED
    BY <2>1, <2>2
<1>11. \A t \in Secret : secretRequest[t] \in FetchId \cup {0} /\ warmAbort[t] \in FetchId \cup {0}
  BY DEF SecretCore, SecretTypes
<1>12. HeldAreOnTheirWay'
  <2> SUFFICES ASSUME NEW t \in Secret
               PROVE  /\ secretRequest[t] # 0 =>
                            fetches'[secretRequest[t]].id = t /\ fetches'[secretRequest[t]].status \in {"sent", "read"}
                      /\ warmAbort[t] # 0 =>
                            fetches'[warmAbort[t]].id = t /\ fetches'[warmAbort[t]].status \in {"sent", "read"}
    BY <1>0 DEF HeldAreOnTheirWay, OnItsWay
  <2> QED
    BY <1>6, <1>11 DEF SecretCore, HeldAreOnTheirWay, OnItsWay
<1>13. CopiesAreAdopted'
  <2> SUFFICES ASSUME NEW o \in CopyOp, copies[o].phase = "resolving"
               PROVE  /\ copies[o].fetch # 0 /\ fetches'[copies[o].fetch].status \in {"sent", "read"}
                      /\ \A t \in Secret : warmAbort[t] # copies[o].fetch
    BY <1>0 DEF CopiesAreAdopted, OnItsWay
  <2>1. copies[o].fetch \in FetchId \cup {0}
    BY DEF SecretCore, SecretTypes, CopyRecord
  <2> QED
    BY <1>6, <2>1 DEF SecretCore, CopiesAreAdopted, OnItsWay
<1>14. PromiseIsKept'
  BY <1>0, <1>6 DEF SecretCore, PromiseIsKept
<1>15. TokenFetchedOnce'
  <2> SUFFICES ASSUME NEW p \in FetchId, NEW q \in FetchId, p # q, fetches'[p].id = fetches'[q].id,
                      fetches'[p].id \in Token, OnItsWay(p)', OnItsWay(q)'
               PROVE  FALSE
    BY DEF TokenFetchedOnce, OnItsWay
  <2> QED
    BY <1>6 DEF SecretCore, TokenFetchedOnce, OnItsWay
<1> QED
  BY <1>7, <1>8, <1>9, <1>10, <1>12, <1>13, <1>14, <1>15 DEF SecretCore

\* What the page forgets when request r settles.
LEMMA ForgetsOwn ==
    ASSUME SecretCore, NEW r \in FetchId, ForgetFetch(r),
           warmAbort' = [warmAbort EXCEPT ![fetches[r].id] = IF @ = r THEN 0 ELSE @]
    PROVE  LET s == fetches[r].id IN
           /\ s \in Secret
           /\ secretRequest' \in [Secret -> FetchId \cup {0}]
           /\ \A t \in Secret : t # s => secretRequest'[t] = secretRequest[t]
           /\ \/ secretRequest'[s] = 0
              \/ secretRequest'[s] = secretRequest[s] /\ secretRequest[s] # r
           /\ s \in Token /\ secretRequest[s] # r => secretRequest'[s] = secretRequest[s]
           /\ warmAbort' \in [Secret -> FetchId \cup {0}]
           /\ \A t \in Secret : t # s => warmAbort'[t] = warmAbort[t]
           /\ \/ warmAbort'[s] = 0
              \/ warmAbort'[s] = warmAbort[s] /\ warmAbort[s] # r
<1> DEFINE s == fetches[r].id
<1>1. /\ s \in Secret /\ warmAbort \in [Secret -> FetchId \cup {0}]
      /\ secretRequest \in [Secret -> FetchId \cup {0}]
  BY DEF SecretCore, SecretTypes, FetchRecord
<1>2. /\ secretRequest' = [secretRequest EXCEPT ![s] = IF s \in Token /\ @ # r THEN @ ELSE 0]
      /\ warmAbort' = [warmAbort EXCEPT ![s] = IF @ = r THEN 0 ELSE @]
  BY DEF ForgetFetch
<1> HIDE DEF s
<1>3. /\ secretRequest' \in [Secret -> FetchId \cup {0}]
      /\ \A t \in Secret : t # s => secretRequest'[t] = secretRequest[t]
      /\ \/ secretRequest'[s] = 0
         \/ secretRequest'[s] = secretRequest[s] /\ secretRequest[s] # r
      /\ s \in Token /\ secretRequest[s] # r => secretRequest'[s] = secretRequest[s]
  BY <1>1, <1>2
<1>4. /\ warmAbort' \in [Secret -> FetchId \cup {0}]
      /\ \A t \in Secret : t # s => warmAbort'[t] = warmAbort[t]
      /\ \/ warmAbort'[s] = 0
         \/ warmAbort'[s] = warmAbort[s] /\ warmAbort[s] # r
  BY <1>1, <1>2
<1> QED
  BY <1>1, <1>3, <1>4 DEF s

LEMMA SettlesFetch ==
    ASSUME SecretCore, NEW r \in FetchId, fetches' = [fetches EXCEPT ![r].status = "settled"]
    PROVE  /\ fetches' \in [FetchId -> FetchRecord]
           /\ \A q \in FetchId : q # r => fetches'[q] = fetches[q]
           /\ fetches'[r].status \in {"aborted", "settled"} /\ fetches'[r].id = fetches[r].id
<1> DEFINE f == [fetches[r] EXCEPT !.status = "settled"]
<1>1. fetches \in [FetchId -> FetchRecord]
  BY DEF SecretCore, SecretTypes
<1>2. f \in FetchRecord /\ f.status = "settled" /\ f.id = fetches[r].id
  BY <1>1 DEF FetchRecord, FetchStatus
<1>3. fetches' = [fetches EXCEPT ![r] = f]
  BY <1>1
<1> HIDE DEF f
<1> QED
  BY <1>1, <1>2, <1>3

LEMMA AnswerKeeps ==
    ASSUME SecretCore, NEW r \in FetchId, FetchAnswered(r)
    PROVE  SecretCore'
<1> DEFINE s == fetches[r].id
           v == fetches[r].value
<1>0. /\ fetches \in [FetchId -> FetchRecord] /\ s \in Secret /\ v \in Version \cup {0}
      /\ secretCache \in [Secret -> Version \cup {0}] /\ copies \in [CopyOp -> CopyRecord]
      /\ OnItsWay(r) /\ fetches[r].status # "unused"
      /\ UNCHANGED <<secret, rotating, secretVersion, warmTimer, fetchCount>>
      /\ warmTimer' \subseteq Secret
  BY DEF SecretCore, SecretTypes, FetchRecord, FetchAnswered, OnItsWay
<1>1. /\ fetches' \in [FetchId -> FetchRecord]
      /\ \A q \in FetchId : q # r => fetches'[q] = fetches[q]
      /\ fetches'[r].status \in {"aborted", "settled"} /\ fetches'[r].id = s
  BY SettlesFetch DEF FetchAnswered
<1>2. /\ s \in Secret
      /\ secretRequest' \in [Secret -> FetchId \cup {0}]
      /\ \A t \in Secret : t # s => secretRequest'[t] = secretRequest[t]
      /\ \/ secretRequest'[s] = 0
         \/ secretRequest'[s] = secretRequest[s] /\ secretRequest[s] # r
      /\ s \in Token /\ secretRequest[s] # r => secretRequest'[s] = secretRequest[s]
      /\ warmAbort' \in [Secret -> FetchId \cup {0}]
      /\ \A t \in Secret : t # s => warmAbort'[t] = warmAbort[t]
      /\ \/ warmAbort'[s] = 0
         \/ warmAbort'[s] = warmAbort[s] /\ warmAbort[s] # r
  BY ForgetsOwn DEF FetchAnswered
<1>3. s \in Token => secretRequest[s] \in {0, r}
  BY <1>0, PromisedOrNone
\* The answer is that of the version it was asked for.
<1>4. /\ v \in Nat /\ v >= 1 /\ v <= secret[s] /\ v >= fetches[r].version + 1
      /\ fetches[r].version \in Nat /\ secret[s] \in Nat /\ secretVersion[s] \in Nat
  <2>1. /\ fetches[r].version + 1 <= v /\ v <= secret[s]
    BY <1>0 DEF FetchAnswered, SecretCore, ReadsAreTimed
  <2>2. fetches[r].version \in 0 .. MaxRotations /\ secret[s] \in Version /\ secretVersion[s] \in 0 .. MaxRotations
    BY <1>0 DEF FetchRecord, SecretCore, SecretTypes
  <2>3. fetches[r].version \in Nat /\ secret[s] \in Nat /\ secretVersion[s] \in Nat /\ v \in Nat
    BY <1>0, <2>2, SecretRanges
  <2> HIDE DEF v
  <2> QED
    BY <2>1, <2>3
<1>5. secretCache' = [secretCache EXCEPT ![s] = IF VersionUnchanged(r) THEN v ELSE @]
  BY DEF FetchAnswered
<1>6. VersionUnchanged(r) /\ s \notin rotating => v = secret[s]
  <2> SUFFICES ASSUME VersionUnchanged(r), s \notin rotating PROVE v = secret[s]
    OBVIOUS
  <2>1. secretVersion[s] = fetches[r].version
    BY DEF VersionUnchanged
  <2>2. secret[s] = secretVersion[s] + 1
    BY <1>0 DEF SecretCore, VersionsAgree
  <2> HIDE DEF v, s
  <2> QED
    BY <1>4, <2>1, <2>2
<1>7. \A t \in Secret : secretCache'[t] = secretCache[t] \/ (t = s /\ VersionUnchanged(r) /\ secretCache'[t] = v)
  BY <1>0, <1>5
<1>8. secretCache' \in [Secret -> Version \cup {0}]
  BY <1>0, <1>5
<1>9. \A t \in Secret : secretCache[t] # 0 => secretCache'[t] # 0
  BY <1>4, <1>7
<1>10. CachedSecretIsCurrent'
  BY <1>0, <1>6, <1>7 DEF SecretCore, CachedSecretIsCurrent
<1>11. /\ copies' \in [CopyOp -> CopyRecord]
       /\ \A o \in CopyOp : copies'[o].phase = "resolving" => copies'[o] = copies[o] /\ copies[o].fetch # r
  <2> DEFINE c(o) == IF copies[o].phase = "resolving" /\ copies[o].fetch = r
                     THEN [copies[o] EXCEPT !.phase = "writing", !.value = v, !.fetch = 0]
                     ELSE copies[o]
  <2>1. copies' = [o \in CopyOp |-> c(o)]
    BY DEF FetchAnswered
  <2>2. ASSUME NEW o \in CopyOp
        PROVE  c(o) \in CopyRecord /\ (c(o).phase = "resolving" => c(o) = copies[o] /\ copies[o].fetch # r)
    BY <1>0 DEF CopyRecord
  <2> HIDE DEF c
  <2> QED
    BY <2>1, <2>2
<1> HIDE DEF s, v
<1> QED
  BY <1>0, <1>1, <1>2, <1>3, <1>8, <1>9, <1>10, <1>11, FetchEnds DEF s

LEMMA RejectKeeps ==
    ASSUME SecretCore, NEW r \in FetchId, FetchRejected(r)
    PROVE  SecretCore'
<1> DEFINE s == fetches[r].id
<1>0. /\ fetches \in [FetchId -> FetchRecord] /\ s \in Secret
      /\ secretCache \in [Secret -> Version \cup {0}] /\ copies \in [CopyOp -> CopyRecord]
      /\ fetches[r].status # "unused"
      /\ UNCHANGED <<secret, rotating, secretCache, secretVersion, warmTimer, fetchCount>>
      /\ warmTimer' \subseteq Secret
  BY DEF SecretCore, SecretTypes, FetchRecord, FetchRejected
<1>1. /\ fetches' \in [FetchId -> FetchRecord]
      /\ \A q \in FetchId : q # r => fetches'[q] = fetches[q]
      /\ fetches'[r].status \in {"aborted", "settled"} /\ fetches'[r].id = s
  BY SettlesFetch DEF FetchRejected
<1>2. /\ s \in Secret
      /\ secretRequest' \in [Secret -> FetchId \cup {0}]
      /\ \A t \in Secret : t # s => secretRequest'[t] = secretRequest[t]
      /\ \/ secretRequest'[s] = 0
         \/ secretRequest'[s] = secretRequest[s] /\ secretRequest[s] # r
      /\ s \in Token /\ secretRequest[s] # r => secretRequest'[s] = secretRequest[s]
      /\ warmAbort' \in [Secret -> FetchId \cup {0}]
      /\ \A t \in Secret : t # s => warmAbort'[t] = warmAbort[t]
      /\ \/ warmAbort'[s] = 0
         \/ warmAbort'[s] = warmAbort[s] /\ warmAbort[s] # r
  BY ForgetsOwn DEF FetchRejected
<1>3. s \in Token /\ OnItsWay(r) => secretRequest[s] \in {0, r}
  BY PromisedOrNone
<1>4. /\ secretCache' \in [Secret -> Version \cup {0}]
      /\ \A t \in Secret : secretCache[t] # 0 => secretCache'[t] # 0
      /\ CachedSecretIsCurrent'
  BY <1>0 DEF SecretCore, CachedSecretIsCurrent
<1>5. /\ copies' \in [CopyOp -> CopyRecord]
      /\ \A o \in CopyOp : copies'[o].phase = "resolving" => copies'[o] = copies[o] /\ copies[o].fetch # r
  BY <1>0, SecretRanges DEF FetchRejected
<1> HIDE DEF s
<1> QED
  BY <1>0, <1>1, <1>2, <1>3, <1>4, <1>5, FetchEnds DEF s

LEMMA RotateKeeps ==
    ASSUME SecretCore, NEW t \in Token, RotateOnServer(t)
    PROVE  SecretCore'
<1>0. /\ t \in Secret /\ t \notin rotating /\ secret \in [Secret -> Version]
      /\ secretVersion \in [Secret -> 0 .. MaxRotations]
      /\ secret' = [secret EXCEPT ![t] = @ + 1] /\ rotating' = rotating \cup {t}
      /\ secret[t] <= MaxRotations
      /\ UNCHANGED <<secretCache, secretRequest, secretVersion, warmTimer, warmAbort, fetches,
                     fetchCount, copies>>
  BY DEF SecretCore, SecretTypes, RotateOnServer, Secret
<1>1. secret[t] \in Nat /\ secret[t] + 1 \in Version
  BY <1>0, SecretRanges DEF Version
<1>2. /\ secret' \in [Secret -> Version] /\ secret'[t] = secret[t] + 1
      /\ \A s \in Secret : s # t => secret'[s] = secret[s]
  BY <1>0, <1>1
<1>3. SecretTypes'
  BY <1>0, <1>2 DEF SecretCore, SecretTypes
<1>4. VersionsAgree'
  <2> SUFFICES ASSUME NEW s \in Secret
               PROVE  secret'[s] = secretVersion[s] + (IF s \in rotating' THEN 2 ELSE 1)
    BY <1>0 DEF VersionsAgree
  <2>1. CASE s = t
    <3>1. secretVersion[t] \in Nat
      BY <1>0, SecretRanges
    <3>2. secret[t] = secretVersion[t] + 1
      BY <1>0 DEF SecretCore, VersionsAgree
    <3> QED
      BY <1>0, <1>2, <2>1, <3>1, <3>2
  <2>2. CASE s # t
    BY <1>0, <1>2, <2>2 DEF SecretCore, VersionsAgree
  <2> QED
    BY <2>1, <2>2
<1>5. ReadsAreTimed'
  <2> SUFFICES ASSUME NEW q \in FetchId, OnItsWay(q), fetches[q].status = "read"
               PROVE  fetches[q].value <= secret'[fetches[q].id]
    BY <1>0 DEF SecretCore, ReadsAreTimed, OnItsWay
  <2> DEFINE s == fetches[q].id
             v == fetches[q].value
  <2>1. s \in Secret /\ v \in Version \cup {0} /\ v <= secret[s]
    BY DEF SecretCore, SecretTypes, FetchRecord, ReadsAreTimed
  <2>2. v \in Nat /\ secret[s] \in Nat
    BY <1>0, <2>1, SecretRanges
  <2> HIDE DEF s, v
  <2>3. v <= secret'[s]
    BY <1>2, <2>1, <2>2
  <2> QED
    BY <2>3 DEF s, v
<1>6. FetchesCounted' /\ HeldAreOnTheirWay' /\ CopiesAreAdopted' /\ PromiseIsKept' /\ TokenFetchedOnce'
  BY <1>0 DEF SecretCore, FetchesCounted, HeldAreOnTheirWay, CopiesAreAdopted, PromiseIsKept,
     TokenFetchedOnce, OnItsWay
<1>7. CachedSecretIsCurrent'
  BY <1>0, <1>2 DEF SecretCore, CachedSecretIsCurrent
<1> QED
  BY <1>3, <1>4, <1>5, <1>6, <1>7 DEF SecretCore

LEMMA RotatedKeeps ==
    ASSUME SecretCore, NEW t \in Token, TokenSecretRotated(t)
    PROVE  SecretCore'
<1>0. /\ t \in Secret /\ t \in rotating /\ secret \in [Secret -> Version]
      /\ secretVersion \in [Secret -> 0 .. MaxRotations]
      /\ secretRequest \in [Secret -> FetchId \cup {0}] /\ secretCache \in [Secret -> Version \cup {0}]
      /\ rotating' = rotating \ {t}
      /\ secretVersion' = [secretVersion EXCEPT ![t] = @ + 1]
      /\ secretRequest' = [secretRequest EXCEPT ![t] = 0]
      /\ secretCache' = [secretCache EXCEPT ![t] = secret[t]]
      /\ UNCHANGED <<secret, warmTimer, warmAbort, fetches, fetchCount, copies>>
  BY DEF SecretCore, SecretTypes, TokenSecretRotated, Secret
<1>1. secret[t] = secretVersion[t] + 2 /\ secretVersion[t] \in Nat /\ secret[t] \in Nat
  BY <1>0, SecretRanges DEF SecretCore, VersionsAgree
<1>2. secretVersion[t] + 1 \in 0 .. MaxRotations
  <2>1. secret[t] <= MaxRotations + 1
    BY <1>0, SecretRanges DEF Version
  <2> QED
    BY <1>1, <2>1, SecretRanges
<1>3. /\ secretVersion' \in [Secret -> 0 .. MaxRotations] /\ secretVersion'[t] = secretVersion[t] + 1
      /\ \A s \in Secret : s # t => secretVersion'[s] = secretVersion[s]
  BY <1>0, <1>2
<1>4. /\ secretRequest' \in [Secret -> FetchId \cup {0}] /\ secretRequest'[t] = 0
      /\ \A s \in Secret : s # t => secretRequest'[s] = secretRequest[s]
  BY <1>0
<1>5. /\ secretCache' \in [Secret -> Version \cup {0}] /\ secretCache'[t] = secret[t]
      /\ \A s \in Secret : s # t => secretCache'[s] = secretCache[s]
  BY <1>0
<1>6. SecretTypes'
  BY <1>0, <1>3, <1>4, <1>5 DEF SecretCore, SecretTypes
<1>7. VersionsAgree'
  <2> SUFFICES ASSUME NEW s \in Secret
               PROVE  secret[s] = secretVersion'[s] + (IF s \in rotating' THEN 2 ELSE 1)
    BY <1>0 DEF VersionsAgree
  <2>1. CASE s = t
    BY <1>0, <1>1, <1>3, <2>1
  <2>2. CASE s # t
    BY <1>0, <1>3, <2>2 DEF SecretCore, VersionsAgree
  <2> QED
    BY <2>1, <2>2
<1>8. ReadsAreTimed'
  <2> SUFFICES ASSUME NEW q \in FetchId, OnItsWay(q)
               PROVE  fetches[q].version <= secretVersion'[fetches[q].id]
    BY <1>0 DEF SecretCore, ReadsAreTimed, OnItsWay
  <2> DEFINE s == fetches[q].id
             n == fetches[q].version
  <2>1. s \in Secret /\ n \in 0 .. MaxRotations /\ n <= secretVersion[s]
    BY DEF SecretCore, SecretTypes, FetchRecord, ReadsAreTimed
  <2>2. n \in Nat /\ secretVersion[s] \in Nat
    BY <1>0, <2>1, SecretRanges
  <2> HIDE DEF s, n
  <2>3. n <= secretVersion'[s]
    BY <1>3, <2>1, <2>2
  <2> QED
    BY <2>3 DEF s, n
<1>9. FetchesCounted' /\ CopiesAreAdopted' /\ TokenFetchedOnce'
  BY <1>0 DEF SecretCore, FetchesCounted, CopiesAreAdopted, TokenFetchedOnce, OnItsWay
<1>10. HeldAreOnTheirWay'
  BY <1>0, <1>4 DEF SecretCore, HeldAreOnTheirWay, OnItsWay
<1>11. PromiseIsKept'
  <2> SUFFICES ASSUME NEW q \in FetchId, OnItsWay(q), fetches[q].id \in Token
               PROVE  secretCache'[fetches[q].id] # 0 \/ secretRequest'[fetches[q].id] = q
    BY <1>0 DEF PromiseIsKept, OnItsWay
  <2>1. fetches[q].id \in Secret
    BY DEF Secret
  <2>2. secretCache[fetches[q].id] # 0 \/ secretRequest[fetches[q].id] = q
    BY DEF SecretCore, PromiseIsKept
  <2>3. secret[t] # 0
    BY <1>1
  <2> QED
    BY <1>4, <1>5, <2>1, <2>2, <2>3
<1>12. CachedSecretIsCurrent'
  BY <1>0, <1>5 DEF SecretCore, CachedSecretIsCurrent
<1> QED
  BY <1>6, <1>7, <1>8, <1>9, <1>10, <1>11, <1>12 DEF SecretCore

\* The buttons.
LEMMA ButtonStep == SecretTypes /\ ButtonTypes /\ [SecretNext]_secretVars => ButtonTypes'
<1> SUFFICES ASSUME SecretTypes, ButtonTypes, [SecretNext]_secretVars PROVE ButtonTypes'
  OBVIOUS
<1> USE DEF ButtonTypes
<1>1. ASSUME NEW s \in Secret, PointerEnter(s) \/ WarmTimerFires(s) \/ CopyIntent(s) \/ CancelSecretWarm(s)
      PROVE  ButtonTypes'
  BY <1>1 DEF PointerEnter, WarmTimerFires, CopyIntent, WarmStarts, CancelSecretWarm
<1>2. ASSUME NEW o \in CopyOp, NEW b \in Button, BeginCopy(o, b) PROVE ButtonTypes'
  BY <1>2 DEF BeginCopy
<1>3. ASSUME NEW o \in CopyOp, NEW e \in BOOLEAN, NEW c \in BOOLEAN, FinishCopy(o, e, c)
      PROVE  ButtonTypes'
  <2> DEFINE b == copies[o].button
             copied == CopyText(copies[o].cached, e, c) # "none"
  <2>1. b \in Button /\ copies[o].value \in Version \cup {0}
    BY DEF SecretTypes, CopyRecord
  <2>2. /\ copied => copyTimers[b] < MaxCopyTimers
        /\ copyState' = [copyState EXCEPT ![b] = IF copied THEN "copied" ELSE "none"]
        /\ copyTimers' = [copyTimers EXCEPT ![b] = IF copied THEN @ + 1 ELSE @]
        /\ bubble' = IF copied THEN 0 ELSE copies[o].value
    BY <1>3 DEF FinishCopy
  <2> HIDE DEF b, copied
  <2>3. (IF copied THEN copyTimers[b] + 1 ELSE copyTimers[b]) \in 0 .. MaxCopyTimers
    BY <2>1, <2>2, SecretRanges
  <2> QED
    BY <2>1, <2>2, <2>3
<1>4. ASSUME NEW r \in FetchId, ServeFetch(r) \/ FetchAnswered(r) \/ FetchRejected(r)
      PROVE  ButtonTypes'
  BY <1>4 DEF ServeFetch, FetchAnswered, FetchRejected
<1>5. ASSUME NEW b \in Button, CopyTimerFires(b) PROVE ButtonTypes'
  <2>1. copyTimers[b] - 1 \in 0 .. MaxCopyTimers
    BY <1>5, SecretRanges DEF CopyTimerFires
  <2> QED
    BY <1>5, <2>1 DEF CopyTimerFires
<1>6. ASSUME NEW t \in Token, RotateOnServer(t) \/ TokenSecretRotated(t) PROVE ButtonTypes'
  BY <1>6 DEF RotateOnServer, TokenSecretRotated
<1>7. CASE CloseBubble
  BY <1>7 DEF CloseBubble
<1>8. CASE UNCHANGED secretVars
  BY <1>8 DEF secretVars
<1> QED
  BY <1>1, <1>2, <1>3, <1>4, <1>5, <1>6, <1>7, <1>8 DEF SecretNext

LEMMA SecretStepInv == SecretInv /\ [SecretNext]_secretVars => SecretInv'
<1> SUFFICES ASSUME SecretCore, ButtonTypes, [SecretNext]_secretVars PROVE SecretCore'
  <2>1. SecretInv => SecretCore /\ ButtonTypes
    BY SecretCoreOf
  <2>2. SecretCore => SecretTypes
    BY DEF SecretCore
  <2>3. SecretCore' /\ ButtonTypes' => SecretInv'
    <3>1. SecretTypeOK' <=> SecretTypes' /\ ButtonTypes'
      BY DEF SecretTypeOK, SecretTypes, ButtonTypes, FetchRecord, CopyRecord
    <3> QED
      BY <3>1 DEF SecretInv, SecretCore
  <2> QED
    BY <2>1, <2>2, <2>3, ButtonStep
\* A step that touches neither requests nor what is held, and starts no copy.
<1>0. ASSUME UNCHANGED <<secret, rotating, secretCache, secretRequest, secretVersion, fetches,
                         fetchCount, warmAbort>>,
             warmTimer' \subseteq Secret, copies' \in [CopyOp -> CopyRecord],
             \A o \in CopyOp : copies'[o].phase = "resolving" => copies'[o] = copies[o]
      PROVE  SecretCore'
  <2>1. warmAbort' \in [Secret -> FetchId \cup {0}]
    BY <1>0 DEF SecretCore, SecretTypes
  <2> QED
    BY <1>0, <2>1, CopiesMayEnd
<1>t. warmTimer \subseteq Secret /\ copies \in [CopyOp -> CopyRecord]
  BY DEF SecretCore, SecretTypes
<1>1. ASSUME NEW s \in Secret, PointerEnter(s) PROVE SecretCore'
  BY <1>0, <1>1, <1>t DEF PointerEnter
<1>2. ASSUME NEW s \in Secret, WarmTimerFires(s) \/ CopyIntent(s) PROVE SecretCore'
  BY <1>2, WarmKeeps DEF WarmTimerFires, CopyIntent
<1>3. ASSUME NEW s \in Secret, CancelSecretWarm(s) PROVE SecretCore'
  BY <1>3, CancelKeepsCopies
<1>4. ASSUME NEW o \in CopyOp, NEW b \in Button, BeginCopy(o, b) PROVE SecretCore'
  BY <1>4, BeginCopyKeeps
<1>5. ASSUME NEW o \in CopyOp, NEW e \in BOOLEAN, NEW c \in BOOLEAN, FinishCopy(o, e, c)
      PROVE  SecretCore'
  <2>1. /\ copies' = [copies EXCEPT ![o] = NoCopy]
        /\ UNCHANGED <<secret, rotating, secretCache, secretRequest, secretVersion, fetches,
                       fetchCount, warmAbort, warmTimer>>
    BY <1>5 DEF FinishCopy
  <2>2. /\ copies' \in [CopyOp -> CopyRecord]
        /\ \A p \in CopyOp : copies'[p].phase = "resolving" => copies'[p] = copies[p]
    BY <1>t, <2>1, SecretRanges
  <2> QED
    BY <1>0, <1>t, <2>1, <2>2
<1>6. ASSUME NEW r \in FetchId, ServeFetch(r) \/ FetchAnswered(r) \/ FetchRejected(r)
      PROVE  SecretCore'
  BY <1>6, ServeKeeps, AnswerKeeps, RejectKeeps
<1>7. ASSUME NEW b \in Button, CopyTimerFires(b) PROVE SecretCore'
  BY <1>0, <1>7, <1>t DEF CopyTimerFires
<1>8. ASSUME NEW t \in Token, RotateOnServer(t) \/ TokenSecretRotated(t) PROVE SecretCore'
  BY <1>8, RotateKeeps, RotatedKeeps
<1>9. CASE CloseBubble
  BY <1>0, <1>9, <1>t DEF CloseBubble
<1>10. CASE UNCHANGED secretVars
  BY <1>0, <1>10, <1>t DEF secretVars
<1> QED
  BY <1>1, <1>2, <1>3, <1>4, <1>5, <1>6, <1>7, <1>8, <1>9, <1>10 DEF SecretNext

LEMMA SecretInvImplies == SecretInv => CopiesAreCurrent
  BY DEF SecretInv, CopiesAreCurrent, CopiesAreAdopted, CopyNeverCancelled, OnItsWay


------------------------------------------------------------------------------
(* The dashboard's feed (AdminFeed).                                          *)

\* Loads whose answer would still be applied to the overview, or to the signals.
SetsOverview(l) == l.kind = "overview" /\ ~l.overviewStale
SetsSignals(l) == ~l.signalsStale

\* Of the loads ls on their way, at most one may still set the overview and one the signals, and
\* what either has read is no older than the overview o and the signals s in state.
LoadsInOrder(ls, o, s, version) ==
    /\ ls \subseteq DashboardLoad
    /\ \A l \in ls : l.read <= version
    /\ \A l \in ls : SetsOverview(l) /\ l.read # 0 => o <= l.read
    /\ \A l \in ls : SetsSignals(l) /\ l.read # 0 => s <= l.read
    /\ \A l, m \in ls : SetsOverview(l) /\ SetsOverview(m) => l = m
    /\ \A l, m \in ls : SetsSignals(l) /\ SetsSignals(m) => l = m

\* Nothing the page holds, or that is on the wire, is newer than the server's data.
FeedInv ==
    /\ FeedTypeOK
    /\ LoadsInOrder(loads, overview, signals, serverVersion)
    /\ overview <= serverVersion /\ signals <= serverVersion /\ onWire <= serverVersion

LEMMA PassedOverviews ==
    ASSUME NEW ls, NEW o, NEW o2, NEW s, NEW v, LoadsInOrder(ls, o, s, v)
    PROVE  /\ LoadsInOrder(PassOverview(ls), o2, s, v)
           /\ \A l \in PassOverview(ls) : l.overviewStale
<1> USE DEF LoadsInOrder
<1>1. \A l \in ls : /\ [l EXCEPT !.overviewStale = TRUE] \in DashboardLoad
                    /\ [l EXCEPT !.overviewStale = TRUE].overviewStale
                    /\ [l EXCEPT !.overviewStale = TRUE].read = l.read
                    /\ [l EXCEPT !.overviewStale = TRUE].signalsStale = l.signalsStale
  BY DEF DashboardLoad
<1>2. PassOverview(ls) \subseteq DashboardLoad /\ \A l \in PassOverview(ls) : l.overviewStale
  BY <1>1 DEF PassOverview
<1>3. \A l \in PassOverview(ls) : \E m \in ls : /\ l = [m EXCEPT !.overviewStale = TRUE]
                                                /\ l.read = m.read /\ l.signalsStale = m.signalsStale
  BY <1>1 DEF PassOverview
<1>4. \A l \in PassOverview(ls) : l.read <= v /\ (SetsSignals(l) /\ l.read # 0 => s <= l.read)
  BY <1>3 DEF SetsSignals
<1>5. ASSUME NEW l \in PassOverview(ls), NEW m \in PassOverview(ls), SetsSignals(l), SetsSignals(m)
      PROVE  l = m
  <2>1. PICK a \in ls : l = [a EXCEPT !.overviewStale = TRUE] /\ SetsSignals(a)
    BY <1>3, <1>5 DEF SetsSignals
  <2>2. PICK b \in ls : m = [b EXCEPT !.overviewStale = TRUE] /\ SetsSignals(b)
    BY <1>3, <1>5 DEF SetsSignals
  <2>3. a = b
    BY <2>1, <2>2
  <2> QED
    BY <2>1, <2>2, <2>3
<1> QED
  BY <1>2, <1>4, <1>5 DEF SetsOverview

LEMMA PassedSignals ==
    ASSUME NEW ls, NEW o, NEW s, NEW s2, NEW v, LoadsInOrder(ls, o, s, v)
    PROVE  /\ LoadsInOrder(PassSignals(ls), o, s2, v)
           /\ \A l \in PassSignals(ls) : l.signalsStale
<1> USE DEF LoadsInOrder
<1>1. \A l \in ls : /\ [l EXCEPT !.signalsStale = TRUE] \in DashboardLoad
                    /\ [l EXCEPT !.signalsStale = TRUE].signalsStale
                    /\ [l EXCEPT !.signalsStale = TRUE].read = l.read
                    /\ [l EXCEPT !.signalsStale = TRUE].kind = l.kind
                    /\ [l EXCEPT !.signalsStale = TRUE].overviewStale = l.overviewStale
  BY DEF DashboardLoad
<1>2. PassSignals(ls) \subseteq DashboardLoad /\ \A l \in PassSignals(ls) : l.signalsStale
  BY <1>1 DEF PassSignals
<1>3. \A l \in PassSignals(ls) : \E m \in ls : /\ l = [m EXCEPT !.signalsStale = TRUE] /\ l.kind = m.kind
                                               /\ l.read = m.read /\ l.overviewStale = m.overviewStale
  BY <1>1 DEF PassSignals
<1>4. \A l \in PassSignals(ls) : l.read <= v /\ (SetsOverview(l) /\ l.read # 0 => o <= l.read)
  BY <1>3 DEF SetsOverview
<1>5. ASSUME NEW l \in PassSignals(ls), NEW m \in PassSignals(ls), SetsOverview(l), SetsOverview(m)
      PROVE  l = m
  <2>1. PICK a \in ls : l = [a EXCEPT !.signalsStale = TRUE] /\ SetsOverview(a)
    BY <1>3, <1>5 DEF SetsOverview
  <2>2. PICK b \in ls : m = [b EXCEPT !.signalsStale = TRUE] /\ SetsOverview(b)
    BY <1>3, <1>5 DEF SetsOverview
  <2>3. a = b
    BY <2>1, <2>2
  <2> QED
    BY <2>1, <2>2, <2>3
<1> QED
  BY <1>2, <1>4, <1>5 DEF SetsSignals

LEMMA SignalsLoadInOrder ==
    ASSUME NEW ls, NEW o, NEW s, NEW v \in Nat, LoadsInOrder(ls, o, s, v)
    PROVE  LoadsInOrder(WithSignalsLoad(ls), o, s, v)
<1> DEFINE new == NewLoad("signals", FALSE)
<1>1. /\ new \in DashboardLoad /\ new.read = 0 /\ new.kind = "signals"
  BY FeedConstants DEF NewLoad, DashboardLoad, FeedVersion
<1> HIDE DEF new
<1>2. LoadsInOrder(PassSignals(ls), o, s, v) /\ \A l \in PassSignals(ls) : l.signalsStale
  BY PassedSignals
<1>3. WithSignalsLoad(ls) = PassSignals(ls) \cup {new}
  BY DEF WithSignalsLoad, new
<1> QED
  BY <1>1, <1>2, <1>3 DEF LoadsInOrder, SetsOverview, SetsSignals

LEMMA OverviewLoadInOrder ==
    ASSUME NEW ls, NEW o, NEW o2, NEW s, NEW v \in Nat, NEW r \in BOOLEAN, LoadsInOrder(ls, o, s, v)
    PROVE  LoadsInOrder(WithOverviewLoad(ls, r), o2, s, v)
<1> DEFINE new == NewLoad("overview", r)
<1>1. new \in DashboardLoad /\ new.read = 0
  BY FeedConstants DEF NewLoad, DashboardLoad, FeedVersion
<1> HIDE DEF new
<1> DEFINE passed == PassSignals(ls)
<1>2. LoadsInOrder(passed, o, s, v) /\ \A l \in passed : l.signalsStale
  BY PassedSignals
<1>3. \A l \in PassOverview(passed) : \E m \in passed : l = [m EXCEPT !.overviewStale = TRUE]
  BY DEF PassOverview
<1>4. passed \subseteq DashboardLoad
  BY <1>2 DEF LoadsInOrder
<1> HIDE DEF passed
<1>5. \A l \in PassOverview(passed) : l.signalsStale
  BY <1>2, <1>3, <1>4 DEF DashboardLoad
<1>6. LoadsInOrder(PassOverview(passed), o2, s, v) /\ \A l \in PassOverview(passed) : l.overviewStale
  BY <1>2, PassedOverviews
<1>7. WithOverviewLoad(ls, r) = PassOverview(passed) \cup {new}
  BY DEF WithOverviewLoad, new, passed
<1> QED
  BY <1>1, <1>5, <1>6, <1>7 DEF LoadsInOrder, SetsOverview, SetsSignals

LEMMA FallbackInOrder ==
    ASSUME NEW ls, NEW o, NEW s, NEW v \in Nat, NEW d \in BOOLEAN, LoadsInOrder(ls, o, s, v)
    PROVE  LoadsInOrder(Fallback(ls, d), o, s, v)
  BY OverviewLoadInOrder DEF Fallback

LEMMA FewerLoadsInOrder ==
    ASSUME NEW ls, NEW fewer, NEW o, NEW s, NEW v, LoadsInOrder(ls, o, s, v), fewer \subseteq ls
    PROVE  LoadsInOrder(fewer, o, s, v)
  BY DEF LoadsInOrder

LEMMA FeedInitInv == FeedInit => FeedInv
<1> SUFFICES ASSUME FeedInit PROVE FeedInv
  OBVIOUS
<1>1. {sseConnected, reconnectTimer, dashboard, loading, baseLoaded, overviewLoaded} \subseteq BOOLEAN
  BY Zenon DEF FeedInit
<1> DEFINE first == [NewLoad("overview", TRUE) EXCEPT !.overviewStale = TRUE, !.signalsStale = TRUE]
<1>2. first \in DashboardLoad /\ first.read = 0 /\ first.overviewStale /\ first.signalsStale
  <2> DEFINE new == NewLoad("overview", TRUE)
  <2>1. new \in DashboardLoad /\ new.read = 0
    BY FeedConstants DEF NewLoad, DashboardLoad, FeedVersion
  <2> HIDE DEF new
  <2>2. [new EXCEPT !.overviewStale = TRUE, !.signalsStale = TRUE] \in DashboardLoad
    BY <2>1 DEF DashboardLoad
  <2>3. /\ [new EXCEPT !.overviewStale = TRUE, !.signalsStale = TRUE].read = 0
        /\ [new EXCEPT !.overviewStale = TRUE, !.signalsStale = TRUE].overviewStale
        /\ [new EXCEPT !.overviewStale = TRUE, !.signalsStale = TRUE].signalsStale
    BY <2>1 DEF DashboardLoad
  <2> QED
    BY <2>2, <2>3 DEF new
<1>3. loads = IF dashboard THEN Fallback({first}, TRUE) ELSE {}
  BY DEF FeedInit
<1> HIDE DEF first
<1>4. LoadsInOrder({first}, 0, 0, 1) /\ LoadsInOrder({}, 0, 0, 1)
  BY <1>2 DEF LoadsInOrder
<1>5. LoadsInOrder(loads, 0, 0, 1)
  BY <1>3, <1>4, FallbackInOrder
<1>6. overview = 0 /\ signals = 0 /\ serverVersion = 1 /\ onWire = 0
  BY DEF FeedInit
<1>7. loads \subseteq DashboardLoad /\ LoadsInOrder(loads, overview, signals, serverVersion)
  BY <1>5, <1>6 DEF LoadsInOrder
<1>8. FeedTypeOK
  <2>1. stream = "connecting" /\ streamSent = 0 /\ sseDrops = 0 /\ baseLoad = "quiet"
    BY DEF FeedInit
  <2> QED
    BY <1>1, <1>6, <1>7, <2>1, FeedConstants DEF FeedTypeOK, FeedVersion
<1> QED
  BY <1>6, <1>7, <1>8 DEF FeedInv

LEMMA FeedStepInv == FeedInv /\ [FeedNext]_feedVars => FeedInv'
<1> SUFFICES ASSUME FeedInv, [FeedNext]_feedVars PROVE FeedInv'
  OBVIOUS
<1>t. FeedTypeOK /\ LoadsInOrder(loads, overview, signals, serverVersion)
      /\ overview <= serverVersion /\ signals <= serverVersion /\ onWire <= serverVersion
  BY DEF FeedInv
<1>v. serverVersion \in Nat /\ dashboard \in BOOLEAN /\ loads \subseteq DashboardLoad
  BY <1>t DEF FeedTypeOK
\* What a step that leaves the stream alone may do.
<1>k. ASSUME UNCHANGED sseVars,
             {dashboard', loading', baseLoaded', overviewLoaded'} \subseteq BOOLEAN,
             baseLoad' \in {"none", "quiet", "global"},
             overview' \in FeedVersion, signals' \in FeedVersion,
             overview' <= serverVersion, signals' <= serverVersion,
             LoadsInOrder(loads', overview', signals', serverVersion)
      PROVE  FeedInv'
  <2>1. loads' \subseteq DashboardLoad
    BY <1>k DEF LoadsInOrder
  <2>2. /\ serverVersion' = serverVersion /\ onWire' = onWire /\ stream' = stream
        /\ streamSent' = streamSent /\ sseConnected' = sseConnected
        /\ reconnectTimer' = reconnectTimer /\ sseDrops' = sseDrops
    BY <1>k DEF sseVars
  <2>3. FeedTypeOK'
    BY <1>k, <1>t, <2>1, <2>2 DEF FeedTypeOK
  <2> QED
    BY <1>k, <1>t, <2>2, <2>3 DEF FeedInv
\* What a step of the stream may do to the page.
<1>s. ASSUME UNCHANGED <<serverVersion, dashboard, baseLoaded, signals>>,
             stream' \in {"connecting", "open", "closed"},
             streamSent' \in FeedVersion, onWire' \in FeedVersion, sseDrops' \in 0 .. MaxSseDrops,
             {sseConnected', reconnectTimer', loading', overviewLoaded'} \subseteq BOOLEAN,
             baseLoad' \in {"none", "quiet", "global"},
             overview' \in FeedVersion, overview' <= serverVersion, onWire' <= serverVersion,
             LoadsInOrder(loads', overview', signals, serverVersion)
      PROVE  FeedInv'
  <2>1. loads' \subseteq DashboardLoad
    BY <1>s DEF LoadsInOrder
  <2>2. FeedTypeOK'
    BY <1>s, <1>t, <2>1 DEF FeedTypeOK
  <2> QED
    BY <1>s, <1>t, <2>2 DEF FeedInv
\* Losing the connection sends a base load and, on the dashboard, an overview load.
<1>p. ASSUME StartPolling
      PROVE  /\ sseConnected' \in BOOLEAN /\ baseLoad' \in {"none", "quiet", "global"}
             /\ LoadsInOrder(loads', overview, signals, serverVersion)
  <2>1. sseConnected' \in BOOLEAN
    BY <1>p, Zenon DEF StartPolling
  <2>2. LoadsInOrder(Fallback(loads, dashboard), overview, signals, serverVersion)
    BY <1>t, <1>v, FallbackInOrder
  <2> QED
    BY <1>p, <1>t, <2>1, <2>2 DEF StartPolling, FeedTypeOK
<1>1. ASSUME ServerChanges PROVE FeedInv'
  <2>1. serverVersion' = serverVersion + 1 /\ serverVersion' \in 1 .. MaxServerVersion
    BY <1>1, <1>t, FeedConstants DEF ServerChanges, FeedTypeOK
  <2>2. UNCHANGED <<stream, streamSent, onWire, sseConnected, reconnectTimer, sseDrops, dashboard,
                    loading, baseLoaded, baseLoad, loads, overview, overviewLoaded, signals>>
    BY <1>1 DEF ServerChanges
  <2>3. \A l \in loads : l.read \in Nat
    BY <1>v DEF DashboardLoad, FeedVersion
  <2>4. LoadsInOrder(loads, overview, signals, serverVersion + 1)
    BY <1>t, <1>v, <2>3 DEF LoadsInOrder
  <2>5. FeedTypeOK'
    BY <1>t, <2>1, <2>2 DEF FeedTypeOK
  <2> QED
    BY <1>t, <1>v, <2>1, <2>2, <2>4, <2>5 DEF FeedInv, FeedTypeOK, FeedVersion
<1>2. ASSUME StreamOpens PROVE FeedInv'
  <2>1. sseConnected' \in BOOLEAN
    BY <1>2, Zenon DEF StreamOpens
  <2> QED
    BY <1>2, <1>s, <1>t, <1>v, <2>1, FeedConstants DEF StreamOpens, FeedTypeOK, FeedVersion
<1>3. ASSUME Degraded PROVE FeedInv'
  <2>1. reconnectTimer' \in BOOLEAN
    BY <1>3, Zenon DEF Degraded
  <2>2. StartPolling
    BY <1>3 DEF Degraded
  <2> QED
    BY <1>3, <1>p, <1>s, <1>t, <1>v, <2>1, <2>2, FeedConstants DEF Degraded, FeedTypeOK, FeedVersion
<1>4. ASSUME Reconnect PROVE FeedInv'
  <2>1. reconnectTimer' \in BOOLEAN
    BY <1>4, Zenon DEF Reconnect
  <2> QED
    BY <1>4, <1>s, <1>t, <2>1 DEF Reconnect, FeedTypeOK
<1>5. ASSUME SendSnapshot PROVE FeedInv'
  BY <1>5, <1>s, <1>t, <1>v DEF SendSnapshot, FeedTypeOK, FeedVersion
<1>6. ASSUME SnapshotArrives PROVE FeedInv'
  <2>1. {sseConnected', loading'} \subseteq BOOLEAN
    BY <1>6, Zenon DEF SnapshotArrives
  <2>2. CASE dashboard
    <3>1. overviewLoaded' \in BOOLEAN
      BY <1>6, <2>2, Zenon DEF SnapshotArrives
    <3>2. LoadsInOrder(PassOverview(loads), onWire, signals, serverVersion)
      BY <1>t, PassedOverviews
    <3> QED
      BY <1>6, <1>s, <1>t, <1>v, <2>1, <2>2, <3>1, <3>2, FeedConstants
      DEF SnapshotArrives, FeedTypeOK, FeedVersion
  <2>3. CASE ~dashboard
    BY <1>6, <1>s, <1>t, <1>v, <2>1, <2>3, FeedConstants DEF SnapshotArrives, FeedTypeOK, FeedVersion
  <2> QED
    BY <2>2, <2>3
<1>7. ASSUME NEW giveUp \in BOOLEAN, StreamFails(giveUp) PROVE FeedInv'
  <2>1. StartPolling
    BY <1>7 DEF StreamFails
  <2>2. stream' \in {"connecting", "open", "closed"} /\ sseDrops' \in 0 .. MaxSseDrops
    BY <1>7, <1>t, FeedConstants DEF StreamFails, FeedTypeOK
  <2> QED
    BY <1>7, <1>p, <1>s, <1>t, <1>v, <2>1, <2>2, FeedConstants DEF StreamFails, FeedTypeOK, FeedVersion
<1>8. ASSUME OpenDashboard PROVE FeedInv'
  <2> DEFINE entered == WithOverviewLoad(PassOverview(loads), TRUE)
  <2>1. {dashboard', overviewLoaded'} \subseteq BOOLEAN
    BY <1>8, Zenon DEF OpenDashboard
  <2>2. LoadsInOrder(PassOverview(loads), 0, signals, serverVersion)
    BY <1>t, PassedOverviews
  <2>3. LoadsInOrder(entered, 0, signals, serverVersion)
    BY <1>v, <2>2, OverviewLoadInOrder
  <2>4. \/ loads' = entered /\ baseLoad' = baseLoad
        \/ loads' = Fallback(entered, TRUE) /\ baseLoad' = "quiet"
    <3>1. CASE sseConnected
      BY <1>8, <3>1, Zenon DEF OpenDashboard
    <3>2. CASE ~sseConnected
      BY <1>8, <3>2, Zenon DEF OpenDashboard
    <3> QED
      BY <3>1, <3>2
  <2> HIDE DEF entered
  <2>5. LoadsInOrder(Fallback(entered, TRUE), 0, signals, serverVersion)
    BY <1>v, <2>3, FallbackInOrder
  <2>6. overview' = 0 /\ UNCHANGED <<sseVars, loading, baseLoaded, signals>>
    BY <1>8 DEF OpenDashboard
  <2>7. overview' \in FeedVersion /\ overview' <= serverVersion /\ {loading', baseLoaded'} \subseteq BOOLEAN
        /\ signals' \in FeedVersion /\ signals' <= serverVersion /\ baseLoad' \in {"none", "quiet", "global"}
    <3>1. baseLoad' \in {"none", "quiet", "global"}
      BY <1>t, <2>4 DEF FeedTypeOK
    <3>2. overview' \in FeedVersion /\ overview' <= serverVersion
      BY <1>v, <2>6, FeedConstants DEF FeedVersion
    <3> QED
      BY <1>t, <2>6, <3>1, <3>2 DEF FeedTypeOK
  <2>8. LoadsInOrder(loads', overview', signals', serverVersion)
    BY <2>3, <2>4, <2>5, <2>6
  <2> QED
    BY <1>k, <2>1, <2>6, <2>7, <2>8
<1>9. ASSUME OpenOther PROVE FeedInv'
  <2>1. dashboard' \in BOOLEAN
    BY <1>9, Zenon DEF OpenOther
  <2>2. LoadsInOrder({l \in loads : ~l.ofRoute}, overview, signals, serverVersion)
    BY <1>t, FewerLoadsInOrder
  <2> QED
    BY <1>9, <1>k, <1>t, <2>1, <2>2 DEF OpenOther, FeedTypeOK
<1>10. ASSUME SwitchTokens PROVE FeedInv'
  <2>1. loading' \in BOOLEAN
    <3>1. loading' = (loading \/ ~baseLoaded) /\ {loading, baseLoaded} \subseteq BOOLEAN
      BY <1>10, <1>t DEF SwitchTokens, FeedTypeOK
    <3>2. (loading \/ ~baseLoaded) \in BOOLEAN
      BY <3>1
    <3> QED
      BY <3>1, <3>2
  <2> QED
    BY <1>10, <1>k, <1>t, <2>1 DEF SwitchTokens, FeedTypeOK
<1>11. ASSUME RefreshBaseData PROVE FeedInv'
  <2>1. loading' \in BOOLEAN
    BY <1>11, Zenon DEF RefreshBaseData
  <2> QED
    BY <1>11, <1>k, <1>t, <2>1 DEF RefreshBaseData, FeedTypeOK
<1>12. ASSUME RefreshAll PROVE FeedInv'
  <2>1. loading' \in BOOLEAN
    BY <1>12, Zenon DEF RefreshAll
  <2>2. LoadsInOrder(Fallback(loads, dashboard), overview, signals, serverVersion)
    BY <1>t, <1>v, FallbackInOrder
  <2> QED
    BY <1>12, <1>k, <1>t, <2>1, <2>2 DEF RefreshAll, FeedTypeOK
<1>13. ASSUME PollTick PROVE FeedInv'
  <2>1. LoadsInOrder(Fallback(loads, dashboard), overview, signals, serverVersion)
    BY <1>t, <1>v, FallbackInOrder
  <2> QED
    BY <1>13, <1>k, <1>t, <2>1 DEF PollTick, FeedTypeOK
<1>14. ASSUME SignalsTick PROVE FeedInv'
  <2>1. LoadsInOrder(WithSignalsLoad(loads), overview, signals, serverVersion)
    BY <1>t, <1>v, SignalsLoadInOrder
  <2> QED
    BY <1>14, <1>k, <1>t, <2>1 DEF SignalsTick, FeedTypeOK
<1>15. ASSUME NEW ok \in BOOLEAN, BaseAnswered(ok) PROVE FeedInv'
  <2>1. {baseLoaded', loading'} \subseteq BOOLEAN
    BY <1>15, <1>t, Zenon DEF BaseAnswered, FeedTypeOK
  <2> QED
    BY <1>15, <1>k, <1>t, <2>1 DEF BaseAnswered, FeedTypeOK
<1>16. ASSUME NEW l \in loads, ServeLoad(l) PROVE FeedInv'
  <2> DEFINE served == [l EXCEPT !.read = serverVersion]
  <2>1. /\ served \in DashboardLoad /\ served.read = serverVersion /\ served.kind = l.kind
        /\ served.overviewStale = l.overviewStale /\ served.signalsStale = l.signalsStale
    BY <1>t, <1>v DEF DashboardLoad, FeedTypeOK, FeedVersion
  <2>2. loads' = (loads \ {l}) \cup {served}
    BY <1>16 DEF ServeLoad
  <2> HIDE DEF served
  <2>3. LoadsInOrder(loads', overview, signals, serverVersion)
    BY <1>t, <1>v, <2>1, <2>2 DEF LoadsInOrder, SetsOverview, SetsSignals
  <2>4. UNCHANGED <<sseVars, dashboard, loading, baseLoaded, baseLoad, overview, overviewLoaded, signals>>
    BY <1>16 DEF ServeLoad
  <2> QED
    BY <1>k, <1>t, <2>3, <2>4 DEF FeedTypeOK
\* The load that is answered was the only one that could set what it sets.
<1>a. ASSUME NEW l \in loads, NEW ok \in BOOLEAN, ApplySignals(l, ok)
      PROVE  /\ signals' \in FeedVersion /\ signals' <= serverVersion
             /\ \A m \in loads \ {l} : SetsSignals(m) /\ m.read # 0 => signals' <= m.read
  BY <1>a, <1>t, <1>v DEF ApplySignals, LoadsInOrder, SetsSignals, DashboardLoad, FeedTypeOK
<1>17. ASSUME NEW l \in loads, NEW ok \in BOOLEAN, NEW signalsOk \in BOOLEAN, OverviewAnswered(l, ok, signalsOk)
       PROVE  FeedInv'
  <2>1. /\ ApplySignals(l, signalsOk) /\ l.kind = "overview" /\ loads' = loads \ {l}
        /\ UNCHANGED <<sseVars, dashboard, loading, baseLoaded, baseLoad>>
    BY <1>17 DEF OverviewAnswered
  <2>2. overviewLoaded' \in BOOLEAN
    <3>1. CASE l.overviewStale
      BY <1>17, <1>t, <3>1 DEF OverviewAnswered, FeedTypeOK
    <3>2. CASE ~l.overviewStale
      BY <1>17, <3>2, Zenon DEF OverviewAnswered
    <3> QED
      BY <3>1, <3>2
  <2>3. /\ overview' \in FeedVersion /\ overview' <= serverVersion
        /\ \A m \in loads \ {l} : SetsOverview(m) /\ m.read # 0 => overview' <= m.read
    <3>1. CASE l.overviewStale
      BY <1>17, <1>t, <3>1 DEF OverviewAnswered, FeedTypeOK, LoadsInOrder
    <3>2. CASE ~l.overviewStale
      <4>1. \A m \in loads \ {l} : ~SetsOverview(m)
        BY <1>t, <2>1, <3>2 DEF LoadsInOrder, SetsOverview
      <4>2. overview' = IF ok THEN l.read ELSE 0
        BY <1>17, <3>2 DEF OverviewAnswered
      <4>3. l.read \in FeedVersion /\ l.read <= serverVersion /\ 0 \in FeedVersion /\ 0 <= serverVersion
        BY <1>t, <1>v, FeedConstants DEF LoadsInOrder, DashboardLoad, FeedVersion
      <4> QED
        BY <4>1, <4>2, <4>3
    <3> QED
      BY <3>1, <3>2
  <2>4. LoadsInOrder(loads', overview', signals', serverVersion)
    BY <1>a, <1>t, <2>1, <2>3 DEF LoadsInOrder
  <2> QED
    BY <1>a, <1>k, <1>t, <2>1, <2>2, <2>3, <2>4 DEF FeedTypeOK
<1>18. ASSUME NEW l \in loads, NEW ok \in BOOLEAN, SignalsAnswered(l, ok) PROVE FeedInv'
  <2>1. /\ ApplySignals(l, ok) /\ loads' = loads \ {l}
        /\ UNCHANGED <<sseVars, dashboard, loading, baseLoaded, baseLoad, overview, overviewLoaded>>
    BY <1>18 DEF SignalsAnswered
  <2>2. LoadsInOrder(loads', overview, signals', serverVersion)
    BY <1>a, <1>t, <2>1 DEF LoadsInOrder
  <2> QED
    BY <1>a, <1>k, <1>t, <2>1, <2>2 DEF FeedTypeOK
<1>19. CASE UNCHANGED feedVars
  BY <1>19, <1>k, <1>t DEF feedVars, sseVars, FeedTypeOK
<1>20. CASE FeedStream
  BY <1>20, <1>1, <1>2, <1>3, <1>4, <1>5, <1>6, <1>7 DEF FeedStream
<1>21. CASE FeedProgress
  BY <1>21, <1>16, <1>17, <1>18 DEF FeedProgress
<1> QED
  BY <1>8, <1>9, <1>10, <1>11, <1>12, <1>13, <1>14, <1>15, <1>19, <1>20, <1>21
  DEF FeedNext, FeedUser, Feed30s, BaseProgress

\* Only a load that read at least what is shown may set the overview, and only an answer sets
\* the signals.
LEMMA FeedStepNeverGoesBack ==
    ASSUME FeedInv, [FeedNext]_feedVars
    PROVE  [/\ (\E l \in loads, sok \in BOOLEAN : OverviewAnswered(l, TRUE, sok)) => overview' >= overview
            /\ signals' >= signals]_feedVars
<1>1. LoadsInOrder(loads, overview, signals, serverVersion) /\ overview \in Nat /\ signals \in Nat
  BY DEF FeedInv, FeedTypeOK, FeedVersion
<1>2. ASSUME NEW l \in loads, NEW sok \in BOOLEAN, OverviewAnswered(l, TRUE, sok)
      PROVE  overview' >= overview
  <2>1. l.read # 0 /\ l.kind = "overview"
    BY <1>2 DEF OverviewAnswered
  <2>2. CASE l.overviewStale
    BY <1>1, <1>2, <2>2 DEF OverviewAnswered
  <2>3. CASE ~l.overviewStale
    <3>1. overview' = l.read
      BY <1>2, <2>3 DEF OverviewAnswered
    <3>2. overview <= l.read
      BY <1>1, <2>1, <2>3 DEF LoadsInOrder, SetsOverview
    <3>3. l.read \in Nat
      BY <1>1 DEF LoadsInOrder, DashboardLoad, FeedVersion
    <3> QED
      BY <1>1, <3>1, <3>2, <3>3
  <2> QED
    BY <2>2, <2>3
<1>3. ASSUME NEW l \in loads, NEW ok \in BOOLEAN, ApplySignals(l, ok), l.read # 0
      PROVE  signals' >= signals
  <2>1. l.read \in Nat
    BY <1>1 DEF LoadsInOrder, DashboardLoad, FeedVersion
  <2> QED
    BY <1>1, <1>3, <2>1 DEF LoadsInOrder, SetsSignals, ApplySignals
<1>4. signals' >= signals
  <2>1. CASE signals' = signals
    BY <1>1, <2>1
  <2>2. CASE FeedProgress
    <3>1. PICK l \in loads : \/ ServeLoad(l)
                             \/ \E ok, signalsOk \in BOOLEAN : OverviewAnswered(l, ok, signalsOk)
                             \/ \E ok \in BOOLEAN : SignalsAnswered(l, ok)
      BY <2>2 DEF FeedProgress
    <3> QED
      BY <1>3, <2>1, <3>1 DEF ServeLoad, OverviewAnswered, SignalsAnswered
  <2>3. ASSUME FeedNext, ~FeedProgress PROVE signals' = signals
    BY <2>3
    DEF FeedNext, FeedStream, FeedUser, Feed30s, BaseProgress, ServerChanges, StreamOpens, Degraded, Reconnect,
        SendSnapshot, SnapshotArrives, StreamFails, OpenDashboard, OpenOther, SwitchTokens, RefreshBaseData,
        RefreshAll, PollTick, SignalsTick, BaseAnswered
  <2>4. CASE UNCHANGED feedVars
    BY <2>1, <2>4 DEF feedVars
  <2> QED
    BY <2>1, <2>2, <2>3, <2>4
<1> QED
  BY <1>2, <1>4

------------------------------------------------------------------------------
(* The registration switch (Registration).                                    *)

\* A read on its way holds the switch, so a save begins without one; unless a read began during a
\* save, what a read saw is what the server has, and so is what is shown once nothing is under way.
RegInv ==
    /\ RegTypeOK
    /\ regSaving <=> regSave # NoSave
    /\ regRead # "none" => regLoading
    /\ regSave # NoSave /\ ~regCrossed => regRead = "none"
    /\ regRead \in Setting /\ ~regCrossed => regRead = regServer
    /\ regSave.done => regServer = regSave.value
    /\ ~regCrossed /\ ~regLoading /\ ~regSaving /\ ~regFailed /\ regShown # "unknown" => regShown = regServer

LEMMA RegInitInv == RegInit => RegInv
<1> SUFFICES ASSUME RegInit PROVE RegInv
  OBVIOUS
<1>1. {regLoading, regSaving, regFailed, regOnPage, regCrossed} \subseteq BOOLEAN /\ ~NoSave.done
  BY Zenon DEF RegInit, NoSave
<1>2. /\ regServer \in Setting /\ regShown = "unknown" /\ ~regLoading /\ ~regSaving /\ regRead = "none"
      /\ regSave = NoSave /\ regReads = 0
  BY Zenon DEF RegInit
<1> QED
  BY <1>1, <1>2, RegistrationConstants DEF RegInv, RegTypeOK, Setting

LEMMA RegStepInv == RegInv /\ [RegNext]_regVars => RegInv'
<1> SUFFICES ASSUME RegInv, [RegNext]_regVars PROVE RegInv'
  OBVIOUS
<1>s. ~NoSave.done
  BY Zenon DEF NoSave
<1>n. NoSave.value \notin Setting
  BY DEF NoSave, Setting
<1> USE DEF RegInv, RegTypeOK
<1>1. ASSUME VisitUsersPage PROVE RegInv'
  <2>1. {regOnPage', regLoading', regFailed'} \subseteq BOOLEAN /\ regLoading'
    BY <1>1, Zenon DEF VisitUsersPage
  <2>2. regCrossed' \in BOOLEAN /\ (regCrossed' <=> regSave # NoSave)
    <3>1. CASE regSave = NoSave
      <4>1. regCrossed' = FALSE
        BY <1>1, <3>1 DEF VisitUsersPage
      <4> QED
        BY <4>1, <3>1
    <3>2. CASE regSave # NoSave
      <4>1. regCrossed' = TRUE
        BY <1>1, <3>2 DEF VisitUsersPage
      <4> QED
        BY <4>1, <3>2
    <3> QED
      BY <3>1, <3>2
  <2> QED
    BY <1>1, <2>1, <2>2, RegistrationConstants DEF VisitUsersPage, Setting
<1>2. ASSUME LeaveUsersPages PROVE RegInv'
  <2>1. regOnPage' \in BOOLEAN
    BY <1>2, Zenon DEF LeaveUsersPages
  <2> QED
    BY <1>2, <2>1 DEF LeaveUsersPages, Setting
<1>3. ASSUME RegServerReads PROVE RegInv'
  BY <1>3 DEF RegServerReads, Setting
<1>4. ASSUME ReadAnswered PROVE RegInv'
  <2>1. regLoading' \in BOOLEAN
    BY <1>4, Zenon DEF ReadAnswered
  <2> QED
    BY <1>4, <2>1 DEF ReadAnswered, Setting
<1>5. ASSUME ReadFails PROVE RegInv'
  <2>1. {regLoading', regFailed'} \subseteq BOOLEAN /\ regFailed'
    BY <1>5, Zenon DEF ReadFails
  <2> QED
    BY <1>5, <2>1 DEF ReadFails, Setting
<1>6. ASSUME ToggleAllowRegistration PROVE RegInv'
  <2> DEFINE new == [before |-> regShown, value |-> Other(regShown), done |-> FALSE]
  <2>1. {regSaving', regFailed'} \subseteq BOOLEAN /\ regSaving' /\ regSave' = new /\ ~new.done
    BY <1>6, Zenon DEF ToggleAllowRegistration
  <2>2. new \in [before : Setting, value : Setting, done : BOOLEAN] /\ new # NoSave /\ Other(regShown) \in Setting
    BY <1>6, <1>n DEF ToggleAllowRegistration, SwitchEnabled, Setting, Other
  <2> HIDE DEF new
  <2> QED
    BY <1>6, <2>1, <2>2 DEF ToggleAllowRegistration, SwitchEnabled
<1>7. ASSUME ServerSaves PROVE RegInv'
  <2> DEFINE new == [regSave EXCEPT !.done = TRUE]
  <2>1. regSave \in [before : Setting, value : Setting, done : BOOLEAN] /\ regSave' = new
    BY <1>7 DEF ServerSaves
  <2>2. new \in [before : Setting, value : Setting, done : BOOLEAN] /\ new.value = regSave.value
    BY <2>1
  <2>3. new # NoSave
    BY <2>2, <1>n
  <2> HIDE DEF new
  <2> QED
    BY <1>7, <2>1, <2>2, <2>3 DEF ServerSaves, Setting
<1>8. ASSUME SaveAnswered PROVE RegInv'
  <2>1. regSaving' \in BOOLEAN /\ ~regSaving'
    BY <1>8, Zenon DEF SaveAnswered
  <2>2. regSave # NoSave
    BY <1>8, <1>s DEF SaveAnswered
  <2> QED
    BY <1>8, <1>s, <2>1, <2>2 DEF SaveAnswered
<1>9. ASSUME RegSaveFails PROVE RegInv'
  <2>1. {regSaving', regFailed'} \subseteq BOOLEAN /\ ~regSaving' /\ regFailed'
    BY <1>9, Zenon DEF RegSaveFails
  <2> QED
    BY <1>9, <1>s, <2>1 DEF RegSaveFails
<1>10. CASE UNCHANGED regVars
  BY <1>10 DEF regVars
<1> QED
  BY <1>1, <1>2, <1>3, <1>4, <1>5, <1>6, <1>7, <1>8, <1>9, <1>10 DEF RegNext

LEMMA RegInvImplies == RegInv => SwitchSaysServer
<1> SUFFICES ASSUME RegInv, ~regCrossed, RegistrationCard.enabled, RegistrationCard.badge # "error"
             PROVE  RegistrationCard.badge = regServer
  BY DEF SwitchSaysServer, SwitchSays
<1>1. RegistrationCard.badge = IF regFailed THEN "error" ELSE regShown
  BY DEF RegistrationCard
<1>2. RegistrationCard.enabled = (regOnPage /\ SwitchEnabled)
  BY DEF RegistrationCard
<1> QED
  BY <1>1, <1>2 DEF RegInv, RegTypeOK, SwitchEnabled

------------------------------------------------------------------------------
(* Edits of rows (RowEdits).                                                  *)

\* Slots whose handlers start only when the slot is free.
LoneSlot == {"deleting", "note", "submitting", "batch"}

\* The handler of a lone slot is alone.
LoneAreAlone == \A o \in rowOps : SlotOf(o.op) \in LoneSlot => o.alone

\* A handler that is alone has no other in its slot, and its slot says that it runs.
RunsAlone ==
    \A o \in rowOps : o.alone =>
        /\ rowSlot[SlotOf(o.op)] = o.row
        /\ \A p \in rowOps : SlotOf(p.op) = SlotOf(o.op) => p = o

RowOpRec == [op : RowOp, row : Row, step : {"server", "reload"}, n : 1 .. MaxRowOps, alone : BOOLEAN]

\* What the handlers keep of each other.
SlotInv ==
    /\ rowSlot \in [RowSlot -> Row \cup {NoRow}]
    /\ rowOps \subseteq RowOpRec
    /\ BusyIsRunning /\ RunsAlone /\ LoneAreAlone

RowInv ==
    /\ SlotInv
    /\ rowDialog \in [RowDialog -> Row \cup {NoRow}]
    /\ batchLinks \in BOOLEAN
    /\ keyStatus \in [KeyRow -> {"active", "disabled", "quarantined"}]

LEMMA SlotsOfOps == \A op \in RowOp : SlotOf(op) \in RowSlot
  BY DEF SlotOf, RowOp, RowSlot

LEMMA SomeRowIsRow == SomeRow \in Row /\ NoRow \notin Row
<1>1. \E r : r \in Row
  BY RowEditsConstants DEF Row
<1>2. SomeRow \in Row
  BY <1>1 DEF SomeRow
<1> QED
  BY <1>2, RowEditsConstants DEF Row

LEMMA BeginKeepsSlots ==
    ASSUME SlotInv, NEW op \in RowOp, NEW r \in Row, Begin(op, r),
           SlotOf(op) \in LoneSlot => rowSlot[SlotOf(op)] = NoRow
    PROVE  SlotInv'
<1> DEFINE beside == RunningOps(SlotOf(op))
<1> DEFINE joined(o) == [o EXCEPT !.alone = FALSE]
<1>1. PICK n \in 1 .. MaxRowOps :
        /\ rowOps' = (rowOps \ beside) \cup {joined(o) : o \in beside}
             \cup {[op |-> op, row |-> r, step |-> "server", n |-> n, alone |-> beside = {}]}
        /\ rowSlot' = [rowSlot EXCEPT ![SlotOf(op)] = r]
  BY DEF Begin
<1> DEFINE new == [op |-> op, row |-> r, step |-> "server", n |-> n, alone |-> beside = {}]
<1>2. /\ new \in RowOpRec /\ new.op = op /\ new.row = r /\ new.alone = (beside = {})
      /\ rowOps' = (rowOps \ beside) \cup {joined(o) : o \in beside} \cup {new}
  <2>1. (beside = {}) \in BOOLEAN
    OBVIOUS
  <2> HIDE DEF beside
  <2> QED
    BY <1>1, <2>1 DEF RowOpRec
<1> HIDE DEF new
\* What joins keeps its kind and row, and is alone no more.
<1>3. \A o \in beside : /\ o \in rowOps /\ SlotOf(o.op) = SlotOf(op)
                        /\ joined(o) \in RowOpRec /\ joined(o).op = o.op /\ joined(o).row = o.row
                        /\ joined(o).alone = FALSE
  BY DEF SlotInv, RunningOps, RowOpRec
<1>4. \A o \in rowOps \ beside : SlotOf(o.op) # SlotOf(op)
  BY DEF RunningOps
<1> HIDE DEF joined
\* Every handler after the step is the new one, one of another slot, or one it joined.
<1>5. ASSUME NEW o \in rowOps'
      PROVE  \/ o = new
             \/ o \in rowOps /\ SlotOf(o.op) # SlotOf(op)
             \/ o \in RowOpRec /\ SlotOf(o.op) = SlotOf(op) /\ o.alone = FALSE /\ beside # {}
  <2>1. CASE o \in rowOps \ beside
    BY <1>4, <2>1
  <2>2. ASSUME NEW p \in beside, o = joined(p)
        PROVE  o \in RowOpRec /\ SlotOf(o.op) = SlotOf(op) /\ o.alone = FALSE /\ beside # {}
    BY <1>3, <2>2
  <2> HIDE DEF beside
  <2> QED
    BY <1>2, <2>1, <2>2
<1>6. SlotOf(op) \in RowSlot /\ r # NoRow
  BY SlotsOfOps, SomeRowIsRow
<1>7. /\ rowSlot' \in [RowSlot -> Row \cup {NoRow}] /\ rowSlot'[SlotOf(op)] = r
      /\ \A s \in RowSlot \ {SlotOf(op)} : rowSlot'[s] = rowSlot[s]
  BY <1>1, <1>6 DEF SlotInv
<1>8. rowOps' \subseteq RowOpRec
  <2>1. rowOps \subseteq RowOpRec
    BY DEF SlotInv
  <2> HIDE DEF beside
  <2> QED
    BY <1>2, <1>5, <2>1
<1>9. BusyIsRunning'
  <2> SUFFICES ASSUME NEW s \in RowSlot, rowSlot'[s] # NoRow
               PROVE  \E o \in rowOps' : SlotOf(o.op) = s /\ o.row = rowSlot'[s]
    BY DEF BusyIsRunning, RunningOps
  <2>1. CASE s = SlotOf(op)
    <3>1. new \in rowOps'
      BY <1>2
    <3> QED
      BY <1>2, <1>7, <2>1, <3>1
  <2>2. CASE s # SlotOf(op)
    <3>1. PICK o \in rowOps : SlotOf(o.op) = s /\ o.row = rowSlot[s]
      BY <1>7, <2>2 DEF SlotInv, BusyIsRunning, RunningOps
    <3>2. o \in rowOps'
      BY <1>2, <2>2, <3>1 DEF RunningOps
    <3> QED
      BY <1>7, <2>2, <3>1, <3>2
  <2> QED
    BY <2>1, <2>2
\* The new one is alone only where nothing ran.
<1>10. new.alone => \A o \in rowOps' : o = new \/ (o \in rowOps /\ SlotOf(o.op) # SlotOf(op))
  <2> HIDE DEF beside
  <2> QED
    BY <1>2, <1>5
<1>11. RunsAlone'
  <2> SUFFICES ASSUME NEW o \in rowOps', o.alone
               PROVE  /\ rowSlot'[SlotOf(o.op)] = o.row
                      /\ \A p \in rowOps' : SlotOf(p.op) = SlotOf(o.op) => p = o
    BY DEF RunsAlone
  <2>1. CASE o = new
    BY <1>2, <1>7, <1>10, <2>1
  <2>2. CASE o \in rowOps /\ SlotOf(o.op) # SlotOf(op)
    <3>1. SlotOf(o.op) \in RowSlot
      BY <2>2, SlotsOfOps DEF SlotInv, RowOpRec
    <3>2. \A p \in rowOps' : SlotOf(p.op) = SlotOf(o.op) => p \in rowOps
      BY <1>2, <1>5, <2>2
    <3> QED
      BY <1>7, <2>2, <3>1, <3>2 DEF SlotInv, RunsAlone
  <2> QED
    BY <1>5, <2>1, <2>2
<1>12. LoneAreAlone'
  <2>1. SlotOf(op) \in LoneSlot => beside = {}
    <3> SUFFICES ASSUME SlotOf(op) \in LoneSlot, NEW o \in beside PROVE FALSE
      OBVIOUS
    <3>1. o \in rowOps /\ SlotOf(o.op) = SlotOf(op)
      BY <1>3
    <3>2. o.alone /\ o.row \in Row
      BY <3>1 DEF SlotInv, LoneAreAlone, RowOpRec
    <3> QED
      BY <3>1, <3>2, SomeRowIsRow DEF SlotInv, RunsAlone
  <2> SUFFICES ASSUME NEW o \in rowOps', SlotOf(o.op) \in LoneSlot PROVE o.alone
    BY DEF LoneAreAlone
  <2> HIDE DEF beside
  <2> QED
    BY <1>2, <1>5, <2>1 DEF SlotInv, LoneAreAlone
<1> QED
  BY <1>7, <1>8, <1>9, <1>11, <1>12 DEF SlotInv

LEMMA FinishKeepsSlots ==
    ASSUME SlotInv, NEW o \in rowOps, Finish(o)
    PROVE  SlotInv'
<1>1. rowOps' = rowOps \ {o} /\ rowSlot' = [rowSlot EXCEPT ![SlotOf(o.op)] = NoRow]
  BY DEF Finish
<1>2. \A p \in rowOps : SlotOf(p.op) \in RowSlot
  BY SlotsOfOps DEF SlotInv, RowOpRec
<1>3. /\ rowSlot' \in [RowSlot -> Row \cup {NoRow}] /\ rowSlot'[SlotOf(o.op)] = NoRow
      /\ \A s \in RowSlot \ {SlotOf(o.op)} : rowSlot'[s] = rowSlot[s]
  BY <1>1, <1>2 DEF SlotInv
<1>4. BusyIsRunning'
  BY <1>1, <1>3 DEF SlotInv, BusyIsRunning, RunningOps
<1>5. RunsAlone'
  BY <1>1, <1>2, <1>3 DEF SlotInv, RunsAlone
<1>6. LoneAreAlone'
  BY <1>1 DEF SlotInv, LoneAreAlone
<1> QED
  BY <1>1, <1>3, <1>4, <1>5, <1>6 DEF SlotInv

LEMMA DoneKeepsSlots ==
    ASSUME SlotInv, NEW o \in rowOps, OpDone(o)
    PROVE  SlotInv'
<1> DEFINE new == [o EXCEPT !.step = "reload"]
<1>1. /\ new \in RowOpRec
      /\ new.op = o.op /\ new.row = o.row /\ new.alone = o.alone
  BY DEF SlotInv, RowOpRec
<1>2. rowOps' = (rowOps \ {o}) \cup {new} /\ rowSlot' = rowSlot
  BY DEF OpDone
<1> HIDE DEF new
<1>3. BusyIsRunning'
  BY <1>1, <1>2 DEF SlotInv, BusyIsRunning, RunningOps
<1>4. RunsAlone'
  BY <1>1, <1>2 DEF SlotInv, RunsAlone
<1>5. LoneAreAlone'
  BY <1>1, <1>2 DEF SlotInv, LoneAreAlone
<1> QED
  BY <1>1, <1>2, <1>3, <1>4, <1>5 DEF SlotInv

LEMMA RowInitInv == RowInit => RowInv
<1> SUFFICES ASSUME RowInit PROVE RowInv
  OBVIOUS
<1>1. batchLinks \in BOOLEAN
  BY Zenon DEF RowInit
<1> QED
  BY <1>1 DEF RowInit, RowInv, SlotInv, BusyIsRunning, RunsAlone, LoneAreAlone, RowSlot, RowDialog

LEMMA RowStepInv == RowInv /\ [RowNext]_rowVars => RowInv'
<1> SUFFICES ASSUME RowInv, [RowNext]_rowVars PROVE RowInv'
  OBVIOUS
<1>r. \A t \in TokenRow : t \in Row
  BY DEF Row
<1>s. \A k \in KeyRow : k \in Row
  BY DEF Row
\* A step that leaves the handlers alone.
<1>u. ASSUME UNCHANGED <<rowSlot, rowOps>> PROVE SlotInv'
  BY <1>u DEF RowInv, SlotInv, BusyIsRunning, RunningOps, RunsAlone, LoneAreAlone
\* A step that starts one.
<1>b. ASSUME NEW op \in RowOp, NEW r \in Row, Begin(op, r), UNCHANGED <<rowDialog, batchLinks, keyStatus>>,
             SlotOf(op) \in LoneSlot => rowSlot[SlotOf(op)] = NoRow
      PROVE  RowInv'
  BY <1>b, BeginKeepsSlots DEF RowInv
<1>1. ASSUME NEW t \in TokenRow, ToggleToken(t) PROVE RowInv'
  <2>1. "toggleToken" \in RowOp /\ SlotOf("toggleToken") \notin LoneSlot
    BY DEF RowOp, SlotOf, LoneSlot
  <2> QED
    BY <1>1, <1>b, <1>r, <2>1 DEF ToggleToken
<1>2. ASSUME NEW k \in KeyRow, EnableKey(k) PROVE RowInv'
  <2>1. "enableKey" \in RowOp /\ SlotOf("enableKey") \notin LoneSlot
    BY DEF RowOp, SlotOf, LoneSlot
  <2> QED
    BY <1>2, <1>b, <1>s, <2>1 DEF EnableKey
<1>3. ASSUME NEW k \in KeyRow, HandleClearQuarantine(k) PROVE RowInv'
  <2>1. "clearQuarantine" \in RowOp /\ SlotOf("clearQuarantine") \notin LoneSlot
    BY DEF RowOp, SlotOf, LoneSlot
  <2> QED
    BY <1>3, <1>b, <1>s, <2>1 DEF HandleClearQuarantine
<1>4. ASSUME NEW d \in RowDialog, NEW r \in Row, OpenRowDialog(d, r) PROVE RowInv'
  BY <1>4, <1>u DEF OpenRowDialog, RowInv
<1>5. ASSUME NEW d \in RowDialog, CancelRowDialog(d) PROVE RowInv'
  BY <1>5, <1>u DEF CancelRowDialog, RowInv
<1>6. ASSUME NEW op \in {"deleteToken", "saveTokenNote", "deleteKey", "disableKey", "batchCreate"}, Confirm(op)
      PROVE  RowInv'
  <2>1. op \in RowOp /\ DialogOf(op) \in RowDialog
    BY DEF RowOp, DialogOf, RowDialog
  <2>2. rowDialog[DialogOf(op)] \in Row
    BY <1>6, <2>1 DEF Confirm, RowInv
  <2> QED
    BY <1>6, <1>b, <2>1, <2>2 DEF Confirm, ConfirmOffered
<1>7. ASSUME HandleAddToken PROVE RowInv'
  <2>1. "addToken" \in RowOp /\ SlotOf("addToken") = "submitting"
    BY DEF RowOp, SlotOf
  <2> QED
    BY <1>7, <1>b, <2>1, SomeRowIsRow DEF HandleAddToken
<1>8. ASSUME OpenBatchDialog PROVE RowInv'
  <2>1. batchLinks' \in BOOLEAN
    BY <1>8, Zenon DEF OpenBatchDialog
  <2> QED
    BY <1>8, <1>u, <2>1, SomeRowIsRow DEF OpenBatchDialog, RowInv, RowDialog
<1>d. \A op \in RowOp : DialogClosed(op) \in [RowDialog -> Row \cup {NoRow}]
  BY DEF DialogClosed, RowInv
<1>9. ASSUME NEW o \in rowOps, OpDone(o) PROVE RowInv'
  <2>1. SlotInv'
    BY <1>9, DoneKeepsSlots DEF RowInv
  <2>2. batchLinks' \in BOOLEAN
    <3>1. batchLinks' = (batchLinks \/ o.op = "batchCreate") /\ batchLinks \in BOOLEAN
      BY <1>9 DEF OpDone, RowInv
    <3>2. (batchLinks \/ o.op = "batchCreate") \in BOOLEAN
      BY <3>1
    <3> QED
      BY <3>1, <3>2
  <2>3. o.op \in RowOp
    BY DEF RowInv, SlotInv, RowOpRec
  <2> QED
    BY <1>9, <1>d, <2>1, <2>2, <2>3 DEF OpDone, RowInv
<1>10. ASSUME NEW o \in rowOps, OpReloaded(o) \/ OpFails(o) PROVE RowInv'
  <2>1. Finish(o)
    BY <1>10 DEF OpReloaded, OpFails
  <2>2. SlotInv'
    BY <2>1, FinishKeepsSlots DEF RowInv
  <2>3. o.op \in RowOp
    BY DEF RowInv, SlotInv, RowOpRec
  <2>4. rowDialog' \in [RowDialog -> Row \cup {NoRow}]
    BY <1>d, <2>1, <2>3 DEF Finish, RowInv
  <2>5. StatusAfter(o) \in [KeyRow -> {"active", "disabled", "quarantined"}]
    BY DEF StatusAfter, RowInv
  <2> QED
    BY <1>10, <2>2, <2>4, <2>5 DEF OpReloaded, OpFails, RowInv
<1>11. CASE UNCHANGED rowVars
  BY <1>11, <1>u DEF rowVars, RowInv
<1>12. CASE OpAdvances
  BY <1>12, <1>9, <1>10 DEF OpAdvances
<1> QED
  BY <1>1, <1>2, <1>3, <1>4, <1>5, <1>6, <1>7, <1>8, <1>11, <1>12
  DEF RowNext, ConfirmTokenDelete, SaveTokenNote, ConfirmKeyDelete, ConfirmDisable, SubmitBatchCreate

LEMMA RowInvImplies == RowInv => RowTypeOK /\ BusyIsRunning /\ AloneHoldsSlot /\ OneAtATime
<1> SUFFICES ASSUME RowInv PROVE RowTypeOK /\ BusyIsRunning /\ AloneHoldsSlot /\ OneAtATime
  OBVIOUS
<1>1. ASSUME NEW s \in LoneSlot
      PROVE  Cardinality(RunningOps(s)) <= 1 /\ \A o \in RunningOps(s) : o.alone
  <2>1. CASE RunningOps(s) = {}
    BY <2>1, FS_EmptySet
  <2>2. CASE RunningOps(s) # {}
    <3>1. PICK o \in rowOps : SlotOf(o.op) = s
      BY <2>2 DEF RunningOps
    <3>2. RunningOps(s) = {o} /\ o.alone
      BY <1>1, <3>1 DEF RowInv, SlotInv, RunsAlone, LoneAreAlone, RunningOps
    <3>3. Cardinality({o}) = 1
      BY FS_Singleton
    <3> QED
      BY <3>2, <3>3
  <2> QED
    BY <2>1, <2>2
<1>2. OneAtATime
  <2> SUFFICES ASSUME NEW s \in LoneSlot
               PROVE  Cardinality(RunningOps(s)) <= 1 /\ \A o \in RunningOps(s) : o.alone
    BY Zenon DEF OneAtATime, LoneSlot
  <2> QED
    BY <1>1
<1>3. RowTypeOK
  BY DEF RowInv, SlotInv, RowOpRec, RowTypeOK
<1>4. BusyIsRunning /\ AloneHoldsSlot
  BY DEF RowInv, SlotInv, RunsAlone, AloneHoldsSlot
<1> QED
  BY <1>2, <1>3, <1>4

------------------------------------------------------------------------------
(* The import of keys (KeysImport).                                           *)

OverlayRec == [expanded : BOOLEAN, closing : BOOLEAN, collapseTimer : {"none", "blur", "hover"},
               closeTimer : BOOLEAN]
ImportDialog == [open : BOOLEAN, rows : [NewKey -> RowStatus], checking : BOOLEAN, importing : BOOLEAN,
                 imported : SUBSET NewKey, importError : BOOLEAN]
ValidationRun == [run : 1 .. MaxRuns, todo : SUBSET NewKey, sent : SUBSET NewKey, aborted : BOOLEAN]
ImportCall == [id : 1 .. MaxImports, run : 1 .. MaxRuns, todo : SUBSET NewKey, sent : SUBSET NewKey,
               done : SUBSET NewKey, before : SUBSET NewKey, phase : {"adding", "refreshing"}]

PendingRows(d) == {k \in NewKey : d.rows[k] = "pending"}

\* The input and its overlay.
OverlayInv ==
    /\ newKeysText \in [blank : BOOLEAN, keys : SUBSET NewKey]
    /\ overlay \in OverlayRec /\ pointer \in {"away", "anchor", "overlay"}
    /\ overlayFocus \in BOOLEAN /\ suppressHover \in BOOLEAN

\* Every run has its own number, up to the current one, and has sent what it no longer has to do.
RunsInOrder(vs, run) ==
    /\ vs \subseteq ValidationRun
    /\ \A v \in vs : v.run <= run /\ v.todo \cap v.sent = {}
    /\ \A v, w \in vs : v.run = w.run => v = w

\* What an open dialog shows as pending is what the current run has still to answer; when the
\* dialog says that nothing is checked, the current run has returned.
ShowsRun(d, vs, run) ==
    d.open => /\ run # 0
              /\ \A v \in vs : v.run = run => PendingRows(d) = v.todo \cup v.sent
              /\ (\A v \in vs : v.run # run) => PendingRows(d) = {}
              /\ ~d.checking => \A v \in vs : v.run # run

\* What a dialog hides, and what an import counts as done, the server has.
ServerHas(d, is, keys) ==
    /\ d.imported \subseteq keys
    /\ \A i \in is : i.before \cup i.done \subseteq keys

ImportInv ==
    /\ OverlayInv
    /\ validation \in ImportDialog /\ runId \in 0 .. MaxRuns
    /\ RunsInOrder(validating, runId) /\ ShowsRun(validation, validating, runId)
    /\ importing \subseteq ImportCall /\ importCount \in 0 .. MaxImports /\ serverKeys \subseteq NewKey
    /\ ServerHas(validation, importing, serverKeys)

LEMMA NoDialogIsDialog ==
    /\ NoDialog \in ImportDialog /\ ~NoDialog.open /\ NoDialog.imported = {}
    /\ \A k \in NewKey : NoDialog.rows[k] = "absent"
<1>1. FALSE \in BOOLEAN /\ [k \in NewKey |-> "absent"] \in [NewKey -> RowStatus]
  BY DEF RowStatus
<1> QED
  BY <1>1 DEF NoDialog, ImportDialog

LEMMA ImportInitInv == ImportInit => ImportInv
<1> SUFFICES ASSUME ImportInit PROVE ImportInv
  OBVIOUS
<1>1. overlayFocus \in BOOLEAN /\ suppressHover \in BOOLEAN
  BY Zenon DEF ImportInit
<1>2. newKeysText \in [blank : BOOLEAN, keys : SUBSET NewKey] /\ overlay \in OverlayRec
  BY DEF ImportInit, OverlayRec, Blank
<1>3. validation = NoDialog /\ runId = 0 /\ validating = {} /\ importing = {} /\ importCount = 0 /\ serverKeys = {}
      /\ pointer = "away"
  BY DEF ImportInit
<1> QED
  BY <1>1, <1>2, <1>3, NoDialogIsDialog, ImportConstants
  DEF ImportInv, OverlayInv, RunsInOrder, ShowsRun, ServerHas

LEMMA OverlayUpdates ==
    ASSUME NEW o \in OverlayRec
    PROVE  /\ ClearCollapseTimer(o) \in OverlayRec /\ ClearCloseTimer(o) \in OverlayRec
           /\ [o EXCEPT !.closing = FALSE] \in OverlayRec
           /\ [o EXCEPT !.closing = FALSE, !.expanded = TRUE] \in OverlayRec
           /\ [o EXCEPT !.closeTimer = FALSE, !.closing = FALSE] \in OverlayRec
           /\ \A mode \in {"blur", "hover"} : [o EXCEPT !.collapseTimer = mode] \in OverlayRec
  BY DEF OverlayRec, ClearCollapseTimer, ClearCloseTimer

LEMMA ExpandTyped == \A o \in OverlayRec : Expand(o) \in OverlayRec
  BY OverlayUpdates DEF Expand

LEMMA CloseTyped ==
    ASSUME OverlayInv, NEW m \in BOOLEAN, BeginKeysBatchClose(m)
    PROVE  overlay' \in OverlayRec /\ suppressHover' \in BOOLEAN
<1>1. CASE ~KeysBatchVisible
  BY <1>1 DEF BeginKeysBatchClose, OverlayInv
<1>2. CASE KeysBatchVisible
  <2>1. /\ overlay' = [expanded |-> FALSE, closing |-> ~m, collapseTimer |-> "none", closeTimer |-> ~m]
        /\ suppressHover' = (suppressHover \/ pointer = "anchor")
    BY <1>2 DEF BeginKeysBatchClose
  <2>2. (~m) \in BOOLEAN /\ (suppressHover \/ pointer = "anchor") \in BOOLEAN
    BY DEF OverlayInv
  <2> QED
    BY <2>1, <2>2 DEF OverlayRec
<1> QED
  BY <1>1, <1>2

\* The overlay and its timers leave the dialog alone.
LEMMA OverlayStep ==
    ASSUME OverlayInv, OverlayEvents \/ OverlayTimers
    PROVE  OverlayInv' /\ UNCHANGED dialogVars
<1>s. \A mode \in {"blur", "hover"} : Schedule(mode) \in OverlayRec
  BY OverlayUpdates DEF Schedule, OverlayInv
<1>o. overlay \in OverlayRec /\ Expand(overlay) \in OverlayRec /\ ClearCollapseTimer(overlay) \in OverlayRec
      /\ [ClearCloseTimer(ClearCollapseTimer(overlay)) EXCEPT !.closing = FALSE] \in OverlayRec
  BY OverlayUpdates, ExpandTyped DEF OverlayInv
<1> USE DEF OverlayInv
<1>1. ASSUME AnchorEnter PROVE OverlayInv' /\ UNCHANGED dialogVars
  <2>1. suppressHover' \in BOOLEAN
    BY <1>1, Zenon DEF AnchorEnter
  <2> QED
    BY <1>1, <1>o, <2>1 DEF AnchorEnter
<1>2. ASSUME AnchorLeave PROVE OverlayInv' /\ UNCHANGED dialogVars
  <2>1. suppressHover' \in BOOLEAN
    BY <1>2, Zenon DEF AnchorLeave
  <2> QED
    BY <1>2, <1>s, <2>1 DEF AnchorLeave
<1>3. ASSUME AnchorFocus PROVE OverlayInv' /\ UNCHANGED dialogVars
  <2>1. overlayFocus' \in BOOLEAN
    BY <1>3, Zenon DEF AnchorFocus
  <2> QED
    BY <1>3, <1>o, <2>1 DEF AnchorFocus
<1>4. ASSUME OverlayEnter PROVE OverlayInv' /\ UNCHANGED dialogVars
  BY <1>4, <1>o DEF OverlayEnter
<1>5. ASSUME OverlayLeave PROVE OverlayInv' /\ UNCHANGED dialogVars
  BY <1>5, <1>s DEF OverlayLeave
<1>6. ASSUME OverlayPress PROVE OverlayInv' /\ UNCHANGED dialogVars
  <2>1. overlayFocus' \in BOOLEAN
    BY <1>6, Zenon DEF OverlayPress
  <2> QED
    BY <1>6, <1>o, <2>1 DEF OverlayPress
<1>7. ASSUME TextareaBlur PROVE OverlayInv' /\ UNCHANGED dialogVars
  <2>1. overlayFocus' \in BOOLEAN
    BY <1>7, Zenon DEF TextareaBlur
  <2> QED
    BY <1>7, <1>s, <2>1 DEF TextareaBlur
<1>8. ASSUME NEW m \in BOOLEAN, PressOutside(m) PROVE OverlayInv' /\ UNCHANGED dialogVars
  <2>1. overlayFocus' \in BOOLEAN
    BY <1>8, Zenon DEF PressOutside
  <2>2. overlay' \in OverlayRec /\ suppressHover' \in BOOLEAN
    BY <1>8, CloseTyped DEF PressOutside
  <2> QED
    BY <1>8, <2>1, <2>2 DEF PressOutside
<1>9. ASSUME NEW blank \in BOOLEAN, NEW keys \in SUBSET NewKey, Type(blank, keys)
      PROVE  OverlayInv' /\ UNCHANGED dialogVars
  BY <1>9 DEF Type, overlayVars
<1>10. ASSUME CloseTimerFires PROVE OverlayInv' /\ UNCHANGED dialogVars
  <2>1. overlayFocus' \in BOOLEAN
    BY <1>10, Zenon DEF CloseTimerFires
  <2>2. overlay' \in OverlayRec
    BY <1>10, <1>o, OverlayUpdates DEF CloseTimerFires
  <2> QED
    BY <1>10, <2>1, <2>2 DEF CloseTimerFires
<1>11. ASSUME NEW m \in BOOLEAN, CollapseTimerFires(m) PROVE OverlayInv' /\ UNCHANGED dialogVars
  <2>1. overlay' \in OverlayRec /\ suppressHover' \in BOOLEAN
    <3>1. CASE KeepsOpen
      BY <1>11, <1>o, <3>1 DEF CollapseTimerFires
    <3>2. CASE ~KeepsOpen
      BY <1>11, <3>2, CloseTyped DEF CollapseTimerFires
    <3> QED
      BY <3>1, <3>2
  <2> QED
    BY <1>11, <2>1 DEF CollapseTimerFires
<1> HIDE DEF OverlayInv
<1> QED
  BY <1>1, <1>2, <1>3, <1>4, <1>5, <1>6, <1>7, <1>8, <1>9, <1>10, <1>11 DEF OverlayEvents, OverlayTimers

\* A new run: those before are aborted and keep their numbers, the new one has all the keys to do.
LEMMA StartKeepsOrder ==
    ASSUME NEW run \in Nat, run < MaxRuns, RunsInOrder(validating, run), NEW keys \in SUBSET NewKey,
           StartValidating(run + 1, keys)
    PROVE  /\ RunsInOrder(validating', run + 1)
           /\ \E new \in validating' : new.run = run + 1
           /\ \A v \in validating' : v.run = run + 1 => v.todo \cup v.sent = keys
<1> DEFINE old == {[v EXCEPT !.aborted = TRUE] : v \in validating}
<1>1. PICK c \in Chunks(keys, ValidateChunk) :
        validating' = old \cup {[run |-> run + 1, todo |-> keys \ c, sent |-> c, aborted |-> FALSE]}
  BY DEF StartValidating
<1>2. c \subseteq keys
  BY <1>1 DEF Chunks
<1> DEFINE new == [run |-> run + 1, todo |-> keys \ c, sent |-> c, aborted |-> FALSE]
<1>3. /\ new \in ValidationRun /\ new.run = run + 1 /\ new.todo \cup new.sent = keys
      /\ new.todo \cap new.sent = {}
  BY <1>2, ImportConstants DEF ValidationRun
<1>4. validating' = old \cup {new}
  BY <1>1
<1> HIDE DEF new
<1>5. \A v \in validating : /\ [v EXCEPT !.aborted = TRUE] \in ValidationRun
                            /\ [v EXCEPT !.aborted = TRUE].run = v.run
                            /\ [v EXCEPT !.aborted = TRUE].todo = v.todo
                            /\ [v EXCEPT !.aborted = TRUE].sent = v.sent
  BY DEF RunsInOrder, ValidationRun
<1>6. \A v \in old : \E w \in validating : /\ v = [w EXCEPT !.aborted = TRUE] /\ v \in ValidationRun
                                           /\ v.run = w.run /\ v.todo = w.todo /\ v.sent = w.sent
  BY <1>5
<1> HIDE DEF old
<1>7. \A v \in old : v \in ValidationRun /\ v.run <= run /\ v.todo \cap v.sent = {} /\ v.run \in Nat
  BY <1>6 DEF RunsInOrder, ValidationRun
<1>8. ASSUME NEW v \in old, NEW w \in old, v.run = w.run PROVE v = w
  <2>1. PICK a \in validating : v = [a EXCEPT !.aborted = TRUE] /\ v.run = a.run
    BY <1>6
  <2>2. PICK b \in validating : w = [b EXCEPT !.aborted = TRUE] /\ w.run = b.run
    BY <1>6
  <2>3. a = b
    BY <1>8, <2>1, <2>2 DEF RunsInOrder
  <2> QED
    BY <2>1, <2>2, <2>3
<1>9. RunsInOrder(validating', run + 1)
  <2>1. validating' \subseteq ValidationRun
    BY <1>3, <1>4, <1>7
  <2>2. \A v \in validating' : v.run <= run + 1 /\ v.todo \cap v.sent = {}
    BY <1>3, <1>4, <1>7
  <2>3. \A v, w \in validating' : v.run = w.run => v = w
    BY <1>3, <1>4, <1>7, <1>8
  <2> QED
    BY <2>1, <2>2, <2>3 DEF RunsInOrder
<1> QED
  BY <1>3, <1>4, <1>7, <1>9

LEMMA AbortKeepsOrder ==
    ASSUME NEW run \in Nat, RunsInOrder(validating, run),
           validating' = {[v EXCEPT !.aborted = TRUE] : v \in validating}
    PROVE  RunsInOrder(validating', run)
<1>1. \A v \in validating : /\ [v EXCEPT !.aborted = TRUE] \in ValidationRun
                            /\ [v EXCEPT !.aborted = TRUE].run = v.run
                            /\ [v EXCEPT !.aborted = TRUE].todo = v.todo
                            /\ [v EXCEPT !.aborted = TRUE].sent = v.sent
  BY DEF RunsInOrder, ValidationRun
<1>2. \A v \in validating' : \E w \in validating : /\ v = [w EXCEPT !.aborted = TRUE] /\ v \in ValidationRun
                                                   /\ v.run = w.run /\ v.todo = w.todo /\ v.sent = w.sent
  BY <1>1
<1>3. \A v \in validating' : v \in ValidationRun /\ v.run <= run /\ v.todo \cap v.sent = {}
  BY <1>2 DEF RunsInOrder
<1>4. ASSUME NEW v \in validating', NEW w \in validating', v.run = w.run PROVE v = w
  <2>1. PICK a \in validating : v = [a EXCEPT !.aborted = TRUE] /\ v.run = a.run
    BY <1>2
  <2>2. PICK b \in validating : w = [b EXCEPT !.aborted = TRUE] /\ w.run = b.run
    BY <1>2
  <2>3. a = b
    BY <1>4, <2>1, <2>2 DEF RunsInOrder
  <2> QED
    BY <2>1, <2>2, <2>3
<1> QED
  BY <1>3, <1>4 DEF RunsInOrder

\* What a step may do to the rows of an open dialog.
KeysKept ==
    validation.open => \A k \in VisibleRows : k \in VisibleRows' \/ k \in serverKeys'

LEMMA HandleAddKeyInv ==
    ASSUME ImportInv, NEW m \in BOOLEAN, HandleAddKey(m)
    PROVE  ImportInv' /\ KeysKept
<1> DEFINE keys == ParsedKeys
           d == [NoDialog EXCEPT !.open = TRUE, !.checking = TRUE,
                    !.rows = [k \in NewKey |-> IF k \in keys THEN "pending" ELSE "absent"]]
<1>1. keys \in SUBSET NewKey
  BY DEF ParsedKeys, ImportInv, OverlayInv
<1>2. d \in ImportDialog /\ PendingRows(d) = keys /\ d.imported = {} /\ d.checking
  <2>1. [k \in NewKey |-> IF k \in keys THEN "pending" ELSE "absent"] \in [NewKey -> RowStatus]
    BY DEF RowStatus
  <2>2. d \in ImportDialog /\ d.imported = {} /\ d.checking
        /\ d.rows = [k \in NewKey |-> IF k \in keys THEN "pending" ELSE "absent"]
    BY <2>1, NoDialogIsDialog DEF ImportDialog
  <2> HIDE DEF d
  <2> QED
    BY <1>1, <2>2 DEF PendingRows
<1>3. /\ ~validation.open /\ runId < MaxRuns /\ runId' = runId + 1 /\ validation' = d
      /\ newKeysText' = Blank /\ BeginKeysBatchClose(m) /\ StartValidating(runId + 1, keys)
      /\ UNCHANGED <<pointer, importing, importCount, serverKeys>>
  BY DEF HandleAddKey, AddKeyOffered
<1> HIDE DEF d, keys
<1>4. OverlayInv'
  <2>1. overlayFocus' \in BOOLEAN
    BY Zenon DEF HandleAddKey
  <2>2. overlay' \in OverlayRec /\ suppressHover' \in BOOLEAN
    BY <1>3, CloseTyped DEF ImportInv
  <2>3. Blank \in [blank : BOOLEAN, keys : SUBSET NewKey]
    BY DEF Blank
  <2> QED
    BY <1>3, <2>1, <2>2, <2>3 DEF ImportInv, OverlayInv
<1>5. /\ RunsInOrder(validating', runId + 1)
      /\ \E new \in validating' : new.run = runId + 1
      /\ \A v \in validating' : v.run = runId + 1 => v.todo \cup v.sent = keys
  <2>1. runId \in Nat /\ RunsInOrder(validating, runId)
    BY ImportConstants DEF ImportInv
  <2> QED
    BY <1>1, <1>3, <2>1, StartKeepsOrder
<1>6. runId + 1 \in 0 .. MaxRuns /\ runId + 1 # 0
  BY <1>3, ImportConstants DEF ImportInv
<1>7. ShowsRun(d, validating', runId + 1)
  BY <1>2, <1>5, <1>6 DEF ShowsRun
<1>8. ServerHas(validation', importing', serverKeys')
  BY <1>2, <1>3 DEF ImportInv, ServerHas
<1> QED
  BY <1>2, <1>3, <1>4, <1>5, <1>6, <1>7, <1>8 DEF ImportInv, KeysKept

LEMMA RetryInv ==
    ASSUME ImportInv, validation.open, ~validation.checking, NEW keys \in SUBSET NewKey, Retry(keys)
    PROVE  ImportInv' /\ KeysKept
<1> DEFINE rs == [k \in NewKey |-> IF k \in keys THEN "pending" ELSE validation.rows[k]]
           d == [validation EXCEPT !.checking = TRUE, !.importError = FALSE, !.rows = rs]
<1>1. validation \in ImportDialog /\ PendingRows(validation) = {}
  BY DEF ImportInv, ShowsRun
<1>2. rs \in [NewKey -> RowStatus] /\ \A k \in NewKey : rs[k] = "pending" <=> k \in keys
  BY <1>1 DEF RowStatus, ImportDialog, PendingRows
<1>r. \A k \in NewKey : validation.rows[k] # "absent" => rs[k] # "absent"
  OBVIOUS
<1>v. validation' = d
  BY DEF Retry
<1> HIDE DEF rs
<1>3. d \in ImportDialog /\ d.rows = rs /\ d.imported = validation.imported /\ d.checking
  BY <1>1, <1>2 DEF ImportDialog
<1>4. /\ runId < MaxRuns /\ runId' = runId + 1 /\ StartValidating(runId + 1, keys)
      /\ UNCHANGED <<newKeysText, overlayVars, importing, importCount, serverKeys>>
  BY DEF Retry
<1> HIDE DEF d
<1>5. /\ RunsInOrder(validating', runId + 1)
      /\ \E new \in validating' : new.run = runId + 1
      /\ \A v \in validating' : v.run = runId + 1 => v.todo \cup v.sent = keys
  <2>1. runId \in Nat /\ RunsInOrder(validating, runId)
    BY ImportConstants DEF ImportInv
  <2> QED
    BY <1>4, <2>1, StartKeepsOrder
<1>6. PendingRows(d) = keys
  BY <1>2, <1>3 DEF PendingRows
<1>7. runId + 1 \in 0 .. MaxRuns /\ runId + 1 # 0
  BY <1>4, ImportConstants DEF ImportInv
<1>8. ShowsRun(d, validating', runId + 1)
  BY <1>3, <1>5, <1>6, <1>7 DEF ShowsRun
<1>9. OverlayInv' /\ ServerHas(validation', importing', serverKeys')
  BY <1>3, <1>4, <1>v DEF ImportInv, OverlayInv, overlayVars, ServerHas
<1>10. KeysKept
  BY <1>3, <1>r, <1>v DEF KeysKept, VisibleRows
<1> QED
  BY <1>3, <1>4, <1>5, <1>7, <1>8, <1>9, <1>10, <1>v DEF ImportInv

LEMMA CloseImportDialogInv ==
    ASSUME ImportInv, CloseImportDialog
    PROVE  ImportInv'
<1>1. /\ validation' = NoDialog /\ validating' = {[v EXCEPT !.aborted = TRUE] : v \in validating}
      /\ UNCHANGED <<newKeysText, overlayVars, runId, importing, importCount, serverKeys>>
  BY DEF CloseImportDialog
<1>2. runId \in Nat /\ RunsInOrder(validating, runId)
  BY ImportConstants DEF ImportInv
<1>3. RunsInOrder(validating', runId)
  BY <1>1, <1>2, AbortKeepsOrder
<1>4. ShowsRun(validation', validating', runId')
  BY <1>1, NoDialogIsDialog DEF ShowsRun
<1>5. OverlayInv' /\ ServerHas(validation', importing', serverKeys')
  BY <1>1, NoDialogIsDialog DEF ImportInv, OverlayInv, overlayVars, ServerHas
<1> QED
  BY <1>1, <1>3, <1>4, <1>5, NoDialogIsDialog DEF ImportInv

\* The chunk of v is answered, by verdicts or by errors.
LEMMA ChunkAnsweredInv ==
    ASSUME ImportInv, NEW v \in validating, NEW res \in [NewKey -> RowStatus \ {"absent", "pending"}],
           NextChunk(v, ApplyResults(v.run, v.sent, res)),
           UNCHANGED <<newKeysText, overlayVars, runId, importing, importCount, serverKeys>>
    PROVE  ImportInv' /\ KeysKept
<1> DEFINE rs == [k \in NewKey |-> IF k \in v.sent /\ validation.rows[k] # "absent" THEN res[k]
                                   ELSE validation.rows[k]]
           current == validation.open /\ v.run = runId
           applied == ApplyResults(v.run, v.sent, res)
<1>1. /\ validation \in ImportDialog /\ RunsInOrder(validating, runId) /\ v \in ValidationRun
      /\ ShowsRun(validation, validating, runId)
  BY DEF ImportInv, RunsInOrder
<1>2. /\ rs \in [NewKey -> RowStatus]
      /\ \A k \in NewKey : /\ rs[k] = "absent" <=> validation.rows[k] = "absent"
                           /\ rs[k] = "pending" <=> validation.rows[k] = "pending" /\ k \notin v.sent
  BY <1>1 DEF ImportDialog, RowStatus
<1>3. applied = IF current THEN [validation EXCEPT !.rows = rs] ELSE validation
  BY DEF ApplyResults
<1> HIDE DEF rs, applied
<1>4. /\ applied \in ImportDialog /\ applied.open = validation.open /\ applied.imported = validation.imported
      /\ applied.checking = validation.checking
      /\ applied.rows = IF current THEN rs ELSE validation.rows
  BY <1>1, <1>2, <1>3 DEF ImportDialog
<1>5. current => PendingRows(validation) = v.todo \cup v.sent
  BY <1>1 DEF ShowsRun
<1>6. current => PendingRows(applied) = v.todo
  <2> SUFFICES ASSUME current PROVE PendingRows(applied) = v.todo
    OBVIOUS
  <2>1. applied.rows = rs
    BY <1>4
  <2>2. v.todo \cap v.sent = {} /\ v.todo \subseteq NewKey
    BY <1>1 DEF RunsInOrder, ValidationRun
  <2>3. \A k \in NewKey : rs[k] = "pending" <=> k \in PendingRows(validation) /\ k \notin v.sent
    BY <1>2 DEF PendingRows
  <2> QED
    BY <1>5, <2>1, <2>2, <2>3 DEF PendingRows
<1>7. \A k \in NewKey : applied.rows[k] = "absent" <=> validation.rows[k] = "absent"
  BY <1>2, <1>4
<1>8. \A w \in validating \ {v} : w.run # v.run
  BY <1>1 DEF RunsInOrder
<1>9. OverlayInv' /\ UNCHANGED <<runId, importing, importCount, serverKeys>>
  BY DEF ImportInv, OverlayInv, overlayVars
\* What the rest of the step comes to.
<1>k. ASSUME validation' \in ImportDialog, validation'.open = validation.open,
             validation'.imported = validation.imported, validation'.rows = applied.rows,
             RunsInOrder(validating', runId), ShowsRun(validation', validating', runId)
      PROVE  ImportInv' /\ KeysKept
  <2>1. ServerHas(validation', importing', serverKeys')
    BY <1>k, <1>9 DEF ImportInv, ServerHas
  <2>2. KeysKept
    BY <1>k, <1>7 DEF KeysKept, VisibleRows
  <2> QED
    BY <1>k, <1>9, <2>1, <2>2 DEF ImportInv
<1>a. CASE v.todo = {}
  <2> DEFINE d == [applied EXCEPT !.checking = FALSE]
  <2>1. validating' = validating \ {v} /\ validation' = IF v.run = runId THEN d ELSE applied
    BY <1>a DEF NextChunk, applied
  <2>2. d \in ImportDialog /\ d.open = applied.open /\ d.imported = applied.imported /\ d.rows = applied.rows
    BY <1>4 DEF ImportDialog
  <2> HIDE DEF d
  <2>3. RunsInOrder(validating', runId)
    BY <1>1, <2>1 DEF RunsInOrder
  <2>4. ShowsRun(validation', validating', runId)
    <3>1. CASE v.run = runId
      <4>1. PendingRows(d) = PendingRows(applied) /\ \A w \in validating' : w.run # runId
        BY <1>8, <2>1, <2>2, <3>1 DEF PendingRows
      <4>2. validation' = d
        BY <2>1, <3>1
      <4>3. d.open => PendingRows(d) = {}
        BY <1>4, <1>6, <1>a, <2>2, <3>1, <4>1
      <4>4. runId # 0
        BY <1>1, <3>1 DEF ValidationRun
      <4> QED
        BY <4>1, <4>2, <4>3, <4>4 DEF ShowsRun
    <3>2. CASE v.run # runId
      <4>1. validation' = validation
        BY <1>3, <2>1, <3>2
      <4> QED
        BY <1>1, <2>1, <3>2, <4>1 DEF ShowsRun
    <3> QED
      BY <3>1, <3>2
  <2> QED
    BY <1>4, <1>k, <2>1, <2>2, <2>3, <2>4
<1>b. CASE v.todo # {}
  <2>1. PICK c \in Chunks(v.todo, ValidateChunk) :
          validating' = (validating \ {v}) \cup {[v EXCEPT !.todo = v.todo \ c, !.sent = c]}
    BY <1>b DEF NextChunk
  <2>2. validation' = applied
    BY <1>b DEF NextChunk, applied
  <2> DEFINE w == [v EXCEPT !.todo = v.todo \ c, !.sent = c]
  <2>3. /\ w \in ValidationRun /\ w.run = v.run /\ w.todo \cup w.sent = v.todo /\ w.todo \cap w.sent = {}
    BY <1>1, <2>1 DEF ValidationRun, Chunks
  <2>4. validating' = (validating \ {v}) \cup {w}
    BY <2>1
  <2> HIDE DEF w
  <2>5. RunsInOrder(validating', runId)
    BY <1>1, <1>8, <2>3, <2>4 DEF RunsInOrder
  <2>6. ShowsRun(applied, validating', runId)
    <3>1. CASE v.run = runId
      <4>1. \A u \in validating' : u.run = runId => u = w
        BY <1>8, <2>4, <3>1
      <4>2. applied.open => PendingRows(applied) = w.todo \cup w.sent /\ applied.checking
        BY <1>1, <1>4, <1>6, <2>3, <3>1 DEF ShowsRun
      <4>3. runId # 0
        BY <1>1, <3>1 DEF ValidationRun
      <4> QED
        BY <2>3, <2>4, <3>1, <4>1, <4>2, <4>3 DEF ShowsRun
    <3>2. CASE v.run # runId
      <4>1. applied = validation
        BY <1>3, <3>2
      <4> QED
        BY <1>1, <2>3, <2>4, <3>2, <4>1 DEF ShowsRun
    <3> QED
      BY <3>1, <3>2
  <2> QED
    BY <1>4, <1>k, <2>2, <2>5, <2>6
<1> QED
  BY <1>a, <1>b

LEMMA HandleImportInv ==
    ASSUME ImportInv, HandleImport
    PROVE  ImportInv' /\ KeysKept
<1> DEFINE d == [validation EXCEPT !.importing = TRUE, !.importError = FALSE]
<1>1. validation \in ImportDialog /\ runId \in 0 .. MaxRuns /\ importCount \in 0 .. MaxImports
  BY DEF ImportInv
<1>2. /\ d \in ImportDialog /\ d.open = validation.open /\ d.rows = validation.rows
      /\ d.imported = validation.imported /\ d.checking = validation.checking
  BY <1>1 DEF ImportDialog
<1>3. PICK c \in Chunks(ValidKeys, ImportChunk) :
        importing' = importing \cup
              {[id |-> importCount + 1, run |-> runId, todo |-> ValidKeys \ c, sent |-> c,
                done |-> {}, before |-> validation.imported, phase |-> "adding"]}
  BY DEF HandleImport
<1>4. /\ validation.open /\ ValidKeys # {} /\ importCount < MaxImports /\ importCount' = importCount + 1
      /\ validation' = d
      /\ UNCHANGED <<newKeysText, overlayVars, runId, validating, serverKeys>>
  BY DEF HandleImport, CanImport
<1> HIDE DEF d
<1>5. ValidKeys \subseteq NewKey /\ c \subseteq ValidKeys
  BY <1>3 DEF ValidKeys, RowsWith, VisibleRows, Chunks
<1>6. runId \in 1 .. MaxRuns
  BY <1>1, <1>4, ImportConstants DEF ImportInv, ShowsRun
<1> DEFINE new == [id |-> importCount + 1, run |-> runId, todo |-> ValidKeys \ c, sent |-> c,
                   done |-> {}, before |-> validation.imported, phase |-> "adding"]
<1>7. importCount + 1 \in 1 .. MaxImports /\ validation.imported \in SUBSET NewKey
  BY <1>1, <1>4, ImportConstants DEF ImportDialog
<1>8. new \in ImportCall /\ new.before = validation.imported /\ new.done = {} /\ importing' = importing \cup {new}
  BY <1>3, <1>5, <1>6, <1>7 DEF ImportCall
<1> HIDE DEF new
<1>9. ServerHas(validation', importing', serverKeys')
  BY <1>2, <1>4, <1>8 DEF ImportInv, ServerHas
<1>10. PendingRows(d) = PendingRows(validation)
  BY <1>2 DEF PendingRows
<1>11. ShowsRun(d, validating, runId)
  BY <1>2, <1>10 DEF ImportInv, ShowsRun
<1>12. OverlayInv' /\ importCount' \in 0 .. MaxImports /\ importing' \subseteq ImportCall
  BY <1>4, <1>7, <1>8, ImportConstants DEF ImportInv, OverlayInv, overlayVars
<1>13. KeysKept
  BY <1>2, <1>4 DEF KeysKept, VisibleRows
<1> QED
  BY <1>2, <1>4, <1>9, <1>11, <1>12, <1>13 DEF ImportInv

\* The server takes keys for an import, and the import goes on, or ends.
LEMMA ImportGoesOn ==
    ASSUME ImportInv, UNCHANGED <<newKeysText, overlayVars, runId, validating, importCount>>,
           importing' \subseteq ImportCall, serverKeys' \subseteq NewKey, validation' \in ImportDialog,
           validation'.open => /\ validation.open /\ validation'.rows = validation.rows
                               /\ validation'.checking = validation.checking,
           ServerHas(validation', importing', serverKeys')
    PROVE  ImportInv'
<1>1. ShowsRun(validation', validating', runId')
  BY DEF ImportInv, ShowsRun, PendingRows
<1>2. OverlayInv'
  BY DEF ImportInv, OverlayInv, overlayVars
<1> QED
  BY <1>1, <1>2 DEF ImportInv

LEMMA ChunkImportedInv ==
    ASSUME ImportInv, NEW i \in importing, NEW taken \in SUBSET NewKey, ChunkImported(i, taken)
    PROVE  ImportInv' /\ KeysKept
<1> DEFINE done == i.done \cup taken
           all == i.before \cup done
           inDialog == {k \in NewKey : validation.rows[k] # "absent"}
<1>1. /\ validation \in ImportDialog /\ i \in ImportCall /\ serverKeys \subseteq NewKey
      /\ ServerHas(validation, importing, serverKeys) /\ importing \subseteq ImportCall
  BY DEF ImportInv
<1>2. /\ serverKeys' = serverKeys \cup taken /\ taken \subseteq i.sent
      /\ UNCHANGED <<newKeysText, overlayVars, runId, validating, importCount>>
  BY DEF ChunkImported
<1>3. serverKeys' \subseteq NewKey /\ serverKeys \subseteq serverKeys' /\ all \subseteq serverKeys'
      /\ done \in SUBSET NewKey /\ all \in SUBSET NewKey
  BY <1>1, <1>2 DEF ImportCall, ServerHas
<1>4. CASE i.todo = {}
  <2> DEFINE new == [i EXCEPT !.done = done, !.sent = {}, !.phase = "refreshing"]
             d == [validation EXCEPT !.importing = FALSE, !.imported = all]
  <2>1. validation' = Imported(i, done) /\ importing' = (importing \ {i}) \cup {new}
    BY <1>4 DEF ChunkImported
  <2>2. new \in ImportCall /\ new.done = done /\ new.before = i.before
    BY <1>1, <1>3 DEF ImportCall
  <2>3. \/ validation' = validation \/ validation' = d
        \/ validation' = NoDialog /\ inDialog \subseteq all
    BY <2>1 DEF Imported
  <2>4. /\ d \in ImportDialog /\ d.open = validation.open /\ d.rows = validation.rows
        /\ d.checking = validation.checking /\ d.imported = all
    BY <1>1, <1>3 DEF ImportDialog
  <2> HIDE DEF new, d
  <2>5. /\ validation' \in ImportDialog /\ validation'.imported \subseteq serverKeys'
        /\ validation'.open => /\ validation.open /\ validation'.rows = validation.rows
                               /\ validation'.checking = validation.checking
    BY <1>1, <1>3, <2>3, <2>4, NoDialogIsDialog DEF ServerHas
  <2>6. importing' \subseteq ImportCall /\ ServerHas(validation', importing', serverKeys')
    BY <1>1, <1>3, <2>1, <2>2, <2>5 DEF ServerHas
  <2>7. ImportInv'
    BY <1>2, <1>3, <2>5, <2>6, ImportGoesOn
  <2>8. KeysKept
    <3> SUFFICES ASSUME validation.open, NEW k \in VisibleRows PROVE k \in VisibleRows' \/ k \in serverKeys'
      BY DEF KeysKept
    <3>1. k \in NewKey /\ validation.rows[k] # "absent" /\ k \notin validation.imported
      BY DEF VisibleRows
    <3>2. CASE validation' = validation
      BY <3>1, <3>2 DEF VisibleRows
    <3>3. CASE inDialog \subseteq all
      BY <1>3, <3>1, <3>3
    <3>4. CASE validation' = d
      BY <1>3, <2>4, <3>1, <3>4 DEF VisibleRows
    <3> QED
      BY <2>3, <3>2, <3>3, <3>4
  <2> QED
    BY <2>7, <2>8
<1>5. CASE i.todo # {}
  <2>1. PICK c \in Chunks(i.todo, ImportChunk) :
          importing' = (importing \ {i}) \cup {[i EXCEPT !.done = done, !.todo = i.todo \ c, !.sent = c]}
    BY <1>5 DEF ChunkImported
  <2> DEFINE new == [i EXCEPT !.done = done, !.todo = i.todo \ c, !.sent = c]
  <2>2. c \subseteq i.todo /\ validation' = validation /\ importing' = (importing \ {i}) \cup {new}
    BY <1>5, <2>1 DEF ChunkImported, Chunks
  <2>3. new \in ImportCall /\ new.done = done /\ new.before = i.before
    BY <1>1, <1>3, <2>2 DEF ImportCall
  <2> HIDE DEF new
  <2>4. importing' \subseteq ImportCall /\ ServerHas(validation', importing', serverKeys')
    BY <1>1, <1>3, <2>2, <2>3 DEF ServerHas
  <2>5. ImportInv'
    BY <1>1, <1>2, <1>3, <2>2, <2>4, ImportGoesOn
  <2> QED
    BY <2>2, <2>5 DEF KeysKept, VisibleRows
<1> QED
  BY <1>4, <1>5

LEMMA ImportEndsInv ==
    ASSUME ImportInv, NEW i \in importing, ImportFails(i) \/ ListsRefreshed(i)
    PROVE  ImportInv' /\ KeysKept
<1> DEFINE d == [validation EXCEPT !.importing = FALSE, !.importError = TRUE]
<1>1. /\ validation \in ImportDialog /\ i \in ImportCall /\ serverKeys \subseteq NewKey
      /\ ServerHas(validation, importing, serverKeys) /\ importing \subseteq ImportCall
  BY DEF ImportInv
<1>2. /\ importing' = importing \ {i} /\ validation' \in {validation, d}
      /\ UNCHANGED <<newKeysText, overlayVars, runId, validating, importCount>>
  BY DEF ImportFails, ListsRefreshed
<1>3. serverKeys \subseteq serverKeys' /\ serverKeys' \subseteq NewKey
  BY <1>1 DEF ImportFails, ListsRefreshed, ImportCall
<1>4. /\ d \in ImportDialog /\ d.open = validation.open /\ d.rows = validation.rows
      /\ d.checking = validation.checking /\ d.imported = validation.imported
  BY <1>1 DEF ImportDialog
<1> HIDE DEF d
<1>5. /\ validation' \in ImportDialog /\ validation'.open = validation.open
      /\ validation'.rows = validation.rows /\ validation'.checking = validation.checking
      /\ validation'.imported = validation.imported
  BY <1>1, <1>2, <1>4
<1>6. importing' \subseteq ImportCall /\ ServerHas(validation', importing', serverKeys')
  BY <1>1, <1>2, <1>3, <1>5 DEF ServerHas
<1>7. ImportInv'
  BY <1>2, <1>3, <1>5, <1>6, ImportGoesOn
<1> QED
  BY <1>5, <1>7 DEF KeysKept, VisibleRows

\* Only closing the dialog takes a key out of it that the server does not have.
LEMMA ImportStep ==
    ASSUME ImportInv, [ImportNext]_importVars
    PROVE  ImportInv' /\ (KeysKept \/ CloseImportDialog)
<1>1. CASE OverlayEvents \/ OverlayTimers
  <2>1. OverlayInv' /\ UNCHANGED dialogVars
    BY <1>1, OverlayStep DEF ImportInv
  <2> QED
    BY <2>1 DEF ImportInv, dialogVars, KeysKept, VisibleRows
<1>2. ASSUME NEW v \in validating, NEW res \in [NewKey -> RowStatus \ {"absent", "pending"}], ChunkValidated(v, res)
      PROVE  ImportInv' /\ KeysKept
  BY <1>2, ChunkAnsweredInv DEF ChunkValidated
<1>3. ASSUME NEW v \in validating, ChunkFails(v) PROVE ImportInv' /\ KeysKept
  <2>1. [k \in NewKey |-> "error"] \in [NewKey -> RowStatus \ {"absent", "pending"}]
    BY DEF RowStatus
  <2> QED
    BY <1>3, <2>1, ChunkAnsweredInv DEF ChunkFails
<1>4. CASE ImportProgress
  BY <1>2, <1>3, <1>4, ChunkImportedInv, ImportEndsInv DEF ImportProgress
<1>5. CASE HandleRetryFailed
  <2>1. validation.open /\ ~validation.checking
    BY <1>5 DEF HandleRetryFailed, CanRetryFailed, IsBusy
  <2> DEFINE failed == {k \in NewKey : validation.rows[k] \in Failed}
  <2>2. failed \in SUBSET NewKey /\ Retry(failed)
    BY <1>5 DEF HandleRetryFailed
  <2> QED
    BY <2>1, <2>2, RetryInv
<1>6. ASSUME NEW k \in NewKey, HandleRetryOne(k) PROVE ImportInv' /\ KeysKept
  <2>1. validation.open /\ ~validation.checking /\ Retry({k}) /\ {k} \in SUBSET NewKey
    BY <1>6 DEF HandleRetryOne, CanRetryOne, IsBusy
  <2> QED
    BY <2>1, RetryInv
<1>7. CASE UNCHANGED importVars
  BY <1>7 DEF importVars, dialogVars, overlayVars, ImportInv, OverlayInv, KeysKept, VisibleRows
<1> QED
  BY <1>1, <1>4, <1>5, <1>6, <1>7, HandleAddKeyInv, HandleImportInv, CloseImportDialogInv DEF ImportNext

LEMMA ImportInvImplies == ImportInv => ImportTypeOK /\ PendingIsBeingChecked
<1> SUFFICES ASSUME ImportInv PROVE ImportTypeOK /\ PendingIsBeingChecked
  OBVIOUS
<1>1. ImportTypeOK
  BY DEF ImportInv, OverlayInv, RunsInOrder, ImportTypeOK, OverlayRec, ImportDialog, ValidationRun, ImportCall
<1>2. ASSUME validation.open
      PROVE  PendingRows(validation) = UNION {v.todo \cup v.sent : v \in {w \in validating : w.run = runId}}
  <2>1. CASE \A v \in validating : v.run # runId
    BY <1>2, <2>1 DEF ImportInv, ShowsRun
  <2>2. CASE \E v \in validating : v.run = runId
    <3>1. PICK v \in validating : v.run = runId
      BY <2>2
    <3>2. {w \in validating : w.run = runId} = {v}
      BY <3>1 DEF ImportInv, RunsInOrder
    <3>3. PendingRows(validation) = v.todo \cup v.sent
      BY <1>2, <3>1 DEF ImportInv, ShowsRun
    <3> QED
      BY <3>2, <3>3
  <2> QED
    BY <2>1, <2>2
<1> QED
  BY <1>1, <1>2 DEF PendingIsBeingChecked, PendingRows

------------------------------------------------------------------------------
(* The progress of proxy operations (ProxyProgress).                          *)

StepRec == [key : PhaseKey, status : {"pending", "running", "done", "error"}]
ProgressRec == [action : {"none", "validate", "save", "revalidate"}, steps : Seq(StepRec),
                active : PhaseKey \cup {NoPhase}]

\* A progress state whose steps are different, and of which one runs at most.
GoodProgress(p) ==
    /\ p \in ProgressRec
    /\ \A i, j \in 1 .. Len(p.steps) : p.steps[i].key = p.steps[j].key => i = j
    /\ \A i, j \in 1 .. Len(p.steps) : p.steps[i].status = "running" /\ p.steps[j].status = "running" => i = j
NoneRuns(p) == \A i \in 1 .. Len(p.steps) : p.steps[i].status # "running"

\* Streams are those of a validation or that of a save; while a save runs no step has failed; once
\* all have ended, a bubble on screen has no step that runs.
ProgressInv ==
    /\ GoodProgress(progress)
    /\ \A s \in DOMAIN streams : streams[s] \in 0 .. MaxPhaseEvents
    /\ streams = [s \in DOMAIN streams |-> streams[s]]
    /\ verdicts \subseteq Candidate \X BOOLEAN
    /\ lastPhase \in [Candidate -> PhaseKey \cup {NoPhase}] /\ fatal \in BOOLEAN /\ brokeOff \in BOOLEAN
    /\ \/ DOMAIN streams \subseteq Candidate /\ (DOMAIN streams # {} => progress.action = "validate")
       \/ /\ DOMAIN streams = {SaveStream} /\ progress.action \in {"save", "revalidate"}
          /\ ~HasError(progress)
    /\ /\ DOMAIN streams = {} /\ ~brokeOff
       /\ progress.action = "validate" => verdicts = {}
       => NoneRuns(progress)

LEMMA SetStepsFacts ==
    ASSUME NEW p, GoodProgress(p), NEW key, NEW status \in {"running", "error"}
    PROVE  /\ SetSteps(p, key, status) \in Seq(StepRec) /\ Len(SetSteps(p, key, status)) = Len(p.steps)
           /\ \A i \in 1 .. Len(p.steps) :
                 /\ SetSteps(p, key, status)[i].key = p.steps[i].key
                 /\ p.steps[i].key = key => SetSteps(p, key, status)[i].status = status
                 /\ p.steps[i].key # key => SetSteps(p, key, status)[i].status # "running"
                 /\ p.steps[i].key # key /\ p.steps[i].status # "error"
                       => SetSteps(p, key, status)[i].status # "error"
<1> DEFINE n == Len(p.steps)
           st(i) == IF p.steps[i].key = key THEN [p.steps[i] EXCEPT !.status = status]
                    ELSE IF p.steps[i].status = "running" THEN [p.steps[i] EXCEPT !.status = "done"]
                    ELSE p.steps[i]
<1>1. n \in Nat /\ \A i \in 1 .. n : p.steps[i] \in StepRec
  BY DEF GoodProgress, ProgressRec
<1>2. \A i \in 1 .. n : /\ st(i) \in StepRec /\ st(i).key = p.steps[i].key
                        /\ p.steps[i].key = key => st(i).status = status
                        /\ p.steps[i].key # key => st(i).status # "running"
                        /\ p.steps[i].key # key /\ p.steps[i].status # "error" => st(i).status # "error"
  <2> TAKE i \in 1 .. n
  <2>1. p.steps[i] \in StepRec
    BY <1>1
  <2> DEFINE x == p.steps[i]
  <2> HIDE DEF x
  <2>2. x \in StepRec => /\ [x EXCEPT !.status = status] \in StepRec /\ [x EXCEPT !.status = "done"] \in StepRec
                         /\ [x EXCEPT !.status = status].key = x.key /\ [x EXCEPT !.status = status].status = status
                         /\ [x EXCEPT !.status = "done"].key = x.key /\ [x EXCEPT !.status = "done"].status = "done"
    BY DEF StepRec
  <2> QED
    BY <2>1, <2>2 DEF x
<1>3. SetSteps(p, key, status) = [i \in 1 .. n |-> st(i)]
  BY DEF SetSteps
<1> HIDE DEF st, n
<1>4. [i \in 1 .. n |-> st(i)] \in Seq(StepRec) /\ Len([i \in 1 .. n |-> st(i)]) = n
  BY <1>1, <1>2
<1>5. \A i \in 1 .. n : SetSteps(p, key, status)[i] = st(i)
  BY <1>3
<1> QED
  BY <1>2, <1>3, <1>4, <1>5 DEF n

LEMMA OnPhaseFacts ==
    ASSUME NEW p, GoodProgress(p), NEW key \in PhaseKey
    PROVE  /\ GoodProgress(OnPhase(p, key)) /\ OnPhase(p, key).action = p.action
           /\ ~HasError(p) => ~HasError(OnPhase(p, key))
<1> DEFINE q == OnPhase(p, key)
           s == SetSteps(p, key, "running")
<1>1. q = [p EXCEPT !.active = key, !.steps = s]
  BY DEF OnPhase
<1>2. /\ s \in Seq(StepRec) /\ Len(s) = Len(p.steps)
      /\ \A i \in 1 .. Len(p.steps) :
            /\ s[i].key = p.steps[i].key
            /\ p.steps[i].key = key => s[i].status = "running"
            /\ p.steps[i].key # key => s[i].status # "running"
            /\ p.steps[i].key # key /\ p.steps[i].status # "error" => s[i].status # "error"
  BY SetStepsFacts
<1> HIDE DEF s, q
<1>3. q \in ProgressRec /\ q.steps = s /\ q.action = p.action
  BY <1>1, <1>2 DEF GoodProgress, ProgressRec
<1>4. GoodProgress(q)
  BY <1>2, <1>3 DEF GoodProgress
<1>5. ~HasError(p) => ~HasError(q)
  BY <1>2, <1>3 DEF HasError
<1> QED
  BY <1>3, <1>4, <1>5 DEF q

LEMMA OnErrorFacts ==
    ASSUME NEW p, GoodProgress(p), NEW key
    PROVE  /\ GoodProgress(OnError(p, key)) /\ OnError(p, key).action = p.action
           /\ NoneRuns(OnError(p, key))
<1> DEFINE q == OnError(p, key)
           at == IF key = NoPhase THEN p.active ELSE key
           s == SetSteps(p, at, "error")
<1>1. q = [p EXCEPT !.steps = s]
  BY DEF OnError
<1>2. /\ s \in Seq(StepRec) /\ Len(s) = Len(p.steps)
      /\ \A i \in 1 .. Len(p.steps) : s[i].key = p.steps[i].key /\ s[i].status # "running"
  <2> HIDE DEF at
  <2> QED
    BY SetStepsFacts
<1> HIDE DEF s, q, at
<1>3. q \in ProgressRec /\ q.steps = s /\ q.action = p.action
  BY <1>1, <1>2 DEF GoodProgress, ProgressRec
<1>4. GoodProgress(q) /\ NoneRuns(q)
  BY <1>2, <1>3 DEF GoodProgress, NoneRuns
<1> QED
  BY <1>3, <1>4 DEF q

LEMMA OnCompleteFacts ==
    ASSUME NEW p, GoodProgress(p)
    PROVE  /\ GoodProgress(OnComplete(p)) /\ OnComplete(p).action = p.action
           /\ ~HasError(p) => NoneRuns(OnComplete(p))
<1>1. CASE HasError(p)
  BY <1>1 DEF OnComplete
<1>2. CASE ~HasError(p)
  <2> DEFINE n == Len(p.steps)
             st(i) == IF p.steps[i].status = "running" \/ p.active = NoPhase
                      THEN [p.steps[i] EXCEPT !.status = "done"] ELSE p.steps[i]
             s == [i \in 1 .. n |-> st(i)]
             q == OnComplete(p)
  <2>1. n \in Nat /\ \A i \in 1 .. n : p.steps[i] \in StepRec
    BY DEF GoodProgress, ProgressRec
  <2>2. \A i \in 1 .. n : st(i) \in StepRec /\ st(i).key = p.steps[i].key /\ st(i).status # "running"
    <3> TAKE i \in 1 .. n
    <3> DEFINE x == p.steps[i]
    <3>1. x \in StepRec
      BY <2>1
    <3> HIDE DEF x
    <3>2. /\ [x EXCEPT !.status = "done"] \in StepRec /\ [x EXCEPT !.status = "done"].key = x.key
          /\ [x EXCEPT !.status = "done"].status = "done"
      BY <3>1 DEF StepRec
    <3> QED
      BY <3>1, <3>2 DEF x
  <2>3. q = [p EXCEPT !.steps = s]
    BY <1>2 DEF OnComplete
  <2> HIDE DEF st, n, q
  <2>4. s \in Seq(StepRec) /\ Len(s) = n /\ \A i \in 1 .. n : s[i] = st(i)
    BY <2>1, <2>2
  <2> HIDE DEF s
  <2>5. q \in ProgressRec /\ q.steps = s /\ q.action = p.action
    BY <2>3, <2>4 DEF GoodProgress, ProgressRec
  <2>6. GoodProgress(q) /\ NoneRuns(q)
    BY <2>2, <2>4, <2>5 DEF GoodProgress, NoneRuns, n
  <2> QED
    BY <2>5, <2>6 DEF q
<1> QED
  BY <1>1, <1>2

LEMMA CreatedProgress ==
    ASSUME NEW action \in {"validate", "save", "revalidate"}, NEW many \in BOOLEAN
    PROVE  LET p == CreateDialogProgressState(action, many)
           IN  GoodProgress(p) /\ p.action = action /\ NoneRuns(p) /\ ~HasError(p)
<1> DEFINE keys == StepKeys(action, many)
           n == Len(keys)
           s == [i \in 1 .. n |-> [key |-> keys[i], status |-> "pending"]]
           p == CreateDialogProgressState(action, many)
<1>1. /\ n \in Nat /\ \A i \in 1 .. n : keys[i] \in PhaseKey
      /\ \A i, j \in 1 .. n : keys[i] = keys[j] => i = j
  BY DEF StepKeys, PhaseKey
<1>2. p = [action |-> action, active |-> NoPhase, steps |-> s]
  BY DEF CreateDialogProgressState
<1> HIDE DEF keys, n, p
<1>3. /\ s \in Seq(StepRec) /\ Len(s) = n
      /\ \A i \in 1 .. n : s[i].key = keys[i] /\ s[i].status = "pending"
  <2>1. \A i \in 1 .. n : [key |-> keys[i], status |-> "pending"] \in StepRec
    BY <1>1 DEF StepRec
  <2> QED
    BY <1>1, <2>1
<1> HIDE DEF s
<1>4. p \in ProgressRec /\ p.steps = s /\ p.action = action
  BY <1>2, <1>3 DEF ProgressRec
<1>5. GoodProgress(p) /\ NoneRuns(p) /\ ~HasError(p)
  BY <1>1, <1>3, <1>4 DEF GoodProgress, NoneRuns, HasError
<1> QED
  BY <1>4, <1>5 DEF p

LEMMA ProgressInitInv == ProgressInit => ProgressInv
<1> SUFFICES ASSUME ProgressInit PROVE ProgressInv
  OBVIOUS
<1>1. fatal \in BOOLEAN /\ brokeOff \in BOOLEAN
  BY Zenon DEF ProgressInit
<1>2. progress = Idle /\ streams = << >> /\ verdicts = {} /\ lastPhase = [c \in Candidate |-> NoPhase]
  BY DEF ProgressInit
<1>3. /\ Idle \in ProgressRec /\ Idle.steps = << >> /\ Idle.action = "none"
  <2>1. << >> \in Seq(StepRec)
    OBVIOUS
  <2> QED
    BY <2>1 DEF Idle, ProgressRec
<1>4. GoodProgress(Idle) /\ NoneRuns(Idle)
  BY <1>3 DEF GoodProgress, NoneRuns
<1>5. DOMAIN << >> = {} /\ << >> = [s \in DOMAIN << >> |-> << >>[s]]
  OBVIOUS
<1> QED
  BY <1>1, <1>2, <1>4, <1>5 DEF ProgressInv

\* The streams after one of them has ended, or has spent an event.
LEMMA StreamsAfter ==
    ASSUME ProgressInv, NEW s \in DOMAIN streams
    PROVE  /\ DOMAIN Drop(s) = DOMAIN streams \ {s}
           /\ Drop(s) = [t \in DOMAIN Drop(s) |-> Drop(s)[t]]
           /\ \A t \in DOMAIN Drop(s) : Drop(s)[t] \in 0 .. MaxPhaseEvents
           /\ DOMAIN Spend(s) = DOMAIN streams
           /\ Spend(s) = [t \in DOMAIN Spend(s) |-> Spend(s)[t]]
           /\ streams[s] > 0 => \A t \in DOMAIN Spend(s) : Spend(s)[t] \in 0 .. MaxPhaseEvents
  BY ProgressConstants DEF ProgressInv, Drop, Spend

LEMMA ProgressStepInv == ProgressInv /\ [ProgressNext]_progressVars => ProgressInv'
<1> SUFFICES ASSUME ProgressInv, [ProgressNext]_progressVars PROVE ProgressInv'
  OBVIOUS
<1>g. /\ GoodProgress(progress) /\ verdicts \subseteq Candidate \X BOOLEAN
      /\ lastPhase \in [Candidate -> PhaseKey \cup {NoPhase}] /\ fatal \in BOOLEAN /\ brokeOff \in BOOLEAN
  BY DEF ProgressInv
<1>m. Many \in BOOLEAN
  BY DEF Many
<1>r. Running <=> DOMAIN streams # {}
  <2>1. streams = << >> => DOMAIN streams = {}
    OBVIOUS
  <2>2. ASSUME DOMAIN streams = {} PROVE streams = << >>
    <3>1. streams = [s \in DOMAIN streams |-> streams[s]]
      BY DEF ProgressInv
    <3>2. streams = [s \in {} |-> streams[s]]
      BY <2>2, <3>1
    <3> QED
      BY <3>2
  <2> QED
    BY <2>1, <2>2 DEF Running
<1>c. SaveStream \notin Candidate
  BY ProgressConstants DEF SaveStream
\* A stream of a candidate is one of a validation.
<1>v. ASSUME NEW c \in Candidate \cap DOMAIN streams
      PROVE  DOMAIN streams \subseteq Candidate /\ progress.action = "validate"
  BY <1>c, <1>v DEF ProgressInv
<1>j. ASSUME SaveStream \in DOMAIN streams
      PROVE  /\ DOMAIN streams = {SaveStream} /\ progress.action \in {"save", "revalidate"}
             /\ ~HasError(progress)
  BY <1>c, <1>j DEF ProgressInv
\* The state after a step of a validation.
<1>w. ASSUME NEW s \in Candidate \cap DOMAIN streams, streams' \in {Drop(s), Spend(s)},
             streams' = Spend(s) => streams[s] > 0, streams' = Drop(s) \/ DOMAIN streams' # {},
             GoodProgress(progress'), progress'.action = "validate", verdicts' \subseteq Candidate \X BOOLEAN,
             DOMAIN streams' # {} \/ verdicts' # {},
             lastPhase' \in [Candidate -> PhaseKey \cup {NoPhase}], fatal' \in BOOLEAN, brokeOff' \in BOOLEAN
      PROVE  ProgressInv'
  <2>1. /\ DOMAIN streams' \subseteq Candidate /\ streams' = [t \in DOMAIN streams' |-> streams'[t]]
        /\ \A t \in DOMAIN streams' : streams'[t] \in 0 .. MaxPhaseEvents
    BY <1>v, <1>w, StreamsAfter
  <2> QED
    BY <1>w, <2>1 DEF ProgressInv
<1>1. ASSUME StartValidate PROVE ProgressInv'
  <2>1. /\ progress' = CreateDialogProgressState("validate", Many) /\ streams' = [c \in Candidate |-> MaxPhaseEvents]
        /\ verdicts' = {} /\ lastPhase' = [c \in Candidate |-> NoPhase]
    BY <1>1 DEF StartValidate
  <2>2. fatal' \in BOOLEAN /\ brokeOff' \in BOOLEAN
    BY <1>1, Zenon DEF StartValidate
  <2>3. GoodProgress(progress') /\ progress'.action = "validate" /\ NoneRuns(progress')
    BY <1>m, <2>1, CreatedProgress
  <2>4. DOMAIN streams' = Candidate /\ streams' = [s \in DOMAIN streams' |-> streams'[s]]
        /\ \A s \in DOMAIN streams' : streams'[s] \in 0 .. MaxPhaseEvents
    BY <2>1, ProgressConstants
  <2> QED
    BY <2>1, <2>2, <2>3, <2>4 DEF ProgressInv
<1>2. ASSUME NEW action \in {"save", "revalidate"}, StartJob(action) PROVE ProgressInv'
  <2>1. /\ progress' = CreateDialogProgressState(action, Many) /\ streams' = [s \in {SaveStream} |-> MaxPhaseEvents]
        /\ verdicts' = {} /\ lastPhase' = [c \in Candidate |-> NoPhase]
    BY <1>2 DEF StartJob
  <2>2. fatal' \in BOOLEAN /\ brokeOff' \in BOOLEAN
    BY <1>2, Zenon DEF StartJob
  <2>3. GoodProgress(progress') /\ progress'.action = action /\ NoneRuns(progress') /\ ~HasError(progress')
    BY <1>m, <2>1, CreatedProgress
  <2>4. DOMAIN streams' = {SaveStream} /\ streams' = [s \in DOMAIN streams' |-> streams'[s]]
        /\ \A s \in DOMAIN streams' : streams'[s] \in 0 .. MaxPhaseEvents
    BY <2>1, ProgressConstants
  <2>5. HasError(progress)' <=> HasError(progress')
    BY DEF HasError
  <2> QED
    BY <2>1, <2>2, <2>3, <2>4, <2>5 DEF ProgressInv
<1>3. ASSUME NEW c \in Candidate, NEW key \in PhaseKey, ValidatePhase(c, key) PROVE ProgressInv'
  <2>1. /\ c \in Candidate \cap DOMAIN streams /\ streams[c] > 0 /\ streams' = Spend(c)
        /\ lastPhase' = [lastPhase EXCEPT ![c] = key]
        /\ progress' = IF Many /\ key = "generate_result" THEN progress ELSE OnPhase(progress, key)
        /\ UNCHANGED <<verdicts, fatal, brokeOff>>
    BY <1>3 DEF ValidatePhase
  <2>2. GoodProgress(progress') /\ progress'.action = "validate"
    BY <1>g, <1>v, <2>1, OnPhaseFacts
  <2>3. DOMAIN streams' # {}
    BY <2>1, StreamsAfter
  <2> QED
    BY <1>g, <1>w, <2>1, <2>2, <2>3
<1>4. ASSUME NEW c \in Candidate, NEW ok \in BOOLEAN, ValidateResult(c, ok) PROVE ProgressInv'
  <2> DEFINE vs == verdicts \cup {<<c, ok>>}
  <2>1. /\ c \in Candidate \cap DOMAIN streams /\ streams' = Drop(c) /\ verdicts' = vs
        /\ progress' = IF DOMAIN streams = {c} THEN Conclude(progress, vs, fatal) ELSE progress
        /\ UNCHANGED <<fatal, lastPhase, brokeOff>>
    BY <1>4 DEF ValidateResult
  <2>2. vs \subseteq Candidate \X BOOLEAN /\ vs # {}
    <3>1. <<c, ok>> \in Candidate \X BOOLEAN
      OBVIOUS
    <3>2. verdicts \subseteq Candidate \X BOOLEAN
      BY <1>g
    <3>3. <<c, ok>> \in vs
      OBVIOUS
    <3> QED
      BY <3>1, <3>2, <3>3, Zenon
  <2> HIDE DEF vs
  <2>3. GoodProgress(Conclude(progress, vs, fatal)) /\ Conclude(progress, vs, fatal).action = progress.action
    <3> DEFINE p == IF Many THEN OnPhase(progress, "generate_result") ELSE progress
               key == FailingPhase(IF AnyPhase = {} THEN NoPhase ELSE CHOOSE k \in AnyPhase : TRUE)
    <3>1. "generate_result" \in PhaseKey
      BY DEF PhaseKey
    <3>2. GoodProgress(p) /\ p.action = progress.action
      BY <1>g, <3>1, OnPhaseFacts
    <3>3. \/ Conclude(progress, vs, fatal) = progress
          \/ Conclude(progress, vs, fatal) = OnComplete(p)
          \/ Conclude(progress, vs, fatal) = OnError(progress, key)
      BY DEF Conclude
    <3> HIDE DEF p, key
    <3>4. GoodProgress(OnComplete(p)) /\ OnComplete(p).action = progress.action
      BY <3>2, OnCompleteFacts
    <3>5. GoodProgress(OnError(progress, key)) /\ OnError(progress, key).action = progress.action
      BY <1>g, OnErrorFacts
    <3> QED
      BY <1>g, <3>3, <3>4, <3>5
  <2>4. GoodProgress(progress') /\ progress'.action = "validate"
    BY <1>g, <1>v, <2>1, <2>3
  <2>5. streams' = Spend(c) => streams[c] > 0
    BY <2>1, StreamsAfter
  <2> QED
    BY <1>g, <1>w, <2>1, <2>2, <2>4, <2>5
<1>5. ASSUME NEW c \in Candidate, ValidateFails(c) PROVE ProgressInv'
  <2>1. /\ c \in Candidate \cap DOMAIN streams /\ streams' = Drop(c) /\ verdicts' = verdicts \cup {<<c, FALSE>>}
        /\ progress' = OnError(progress, FailingPhase(lastPhase[c])) /\ UNCHANGED <<lastPhase, brokeOff>>
    BY <1>5 DEF ValidateFails
  <2>2. fatal' \in BOOLEAN
    BY <1>5, Zenon DEF ValidateFails
  <2>3. GoodProgress(progress') /\ progress'.action = "validate"
    BY <1>g, <1>v, <2>1, OnErrorFacts
  <2>4. verdicts' \subseteq Candidate \X BOOLEAN /\ verdicts' # {}
    <3>1. FALSE \in BOOLEAN
      BY Zenon
    <3>2. <<c, FALSE>> \in Candidate \X BOOLEAN
      BY <3>1
    <3>3. verdicts \subseteq Candidate \X BOOLEAN
      BY <1>g
    <3> QED
      BY <2>1, <3>2, <3>3, Zenon
  <2>5. streams' = Spend(c) => streams[c] > 0
    BY <2>1, StreamsAfter
  <2> QED
    BY <1>g, <1>w, <2>1, <2>2, <2>3, <2>4, <2>5
<1>6. ASSUME NEW key \in PhaseKey, JobPhase(key) PROVE ProgressInv'
  <2>1. /\ SaveStream \in DOMAIN streams /\ streams[SaveStream] > 0 /\ streams' = Spend(SaveStream)
        /\ progress' = OnPhase(progress, key) /\ UNCHANGED <<verdicts, fatal, lastPhase, brokeOff>>
    BY <1>6 DEF JobPhase
  <2>2. GoodProgress(progress') /\ progress'.action \in {"save", "revalidate"} /\ ~HasError(progress')
    BY <1>g, <1>j, <2>1, OnPhaseFacts
  <2>3. /\ DOMAIN streams' = {SaveStream} /\ streams' = [t \in DOMAIN streams' |-> streams'[t]]
        /\ \A t \in DOMAIN streams' : streams'[t] \in 0 .. MaxPhaseEvents
    BY <1>j, <2>1, StreamsAfter
  <2>4. HasError(progress)' <=> HasError(progress')
    BY DEF HasError
  <2> QED
    BY <1>g, <2>1, <2>2, <2>3, <2>4 DEF ProgressInv
\* The state after a job has ended.
<1>e. ASSUME SaveStream \in DOMAIN streams, streams' = Drop(SaveStream), GoodProgress(progress'),
             NoneRuns(progress') \/ brokeOff', brokeOff' \in BOOLEAN, UNCHANGED <<verdicts, fatal, lastPhase>>
      PROVE  ProgressInv'
  <2>1. DOMAIN streams' = {} /\ streams' = [t \in DOMAIN streams' |-> streams'[t]]
    BY <1>e, <1>j, StreamsAfter
  <2> QED
    BY <1>e, <1>g, <2>1 DEF ProgressInv
<1>7. ASSUME JobDone PROVE ProgressInv'
  <2> DEFINE p == OnPhase(progress, "refresh_ui")
  <2>1. /\ SaveStream \in DOMAIN streams /\ streams' = Drop(SaveStream) /\ progress' = OnComplete(p)
        /\ UNCHANGED <<verdicts, fatal, lastPhase, brokeOff>>
    BY <1>7 DEF JobDone
  <2>2. "refresh_ui" \in PhaseKey
    BY DEF PhaseKey
  <2>3. GoodProgress(p) /\ ~HasError(p)
    BY <1>g, <1>j, <2>1, <2>2, OnPhaseFacts
  <2> HIDE DEF p
  <2>4. GoodProgress(progress') /\ NoneRuns(progress')
    BY <2>1, <2>3, OnCompleteFacts
  <2> QED
    BY <1>e, <1>g, <2>1, <2>4
<1>8. ASSUME NEW key, JobErrorEvent(key) PROVE ProgressInv'
  <2>1. /\ SaveStream \in DOMAIN streams /\ streams' = Drop(SaveStream) /\ progress' = OnError(progress, key)
        /\ UNCHANGED <<verdicts, fatal, lastPhase, brokeOff>>
    BY <1>8 DEF JobErrorEvent
  <2>2. GoodProgress(progress') /\ NoneRuns(progress')
    BY <1>g, <2>1, OnErrorFacts
  <2> QED
    BY <1>e, <1>g, <2>1, <2>2
<1>9. ASSUME JobBreaksOff PROVE ProgressInv'
  <2>1. /\ SaveStream \in DOMAIN streams /\ streams' = Drop(SaveStream) /\ brokeOff' = (progress.action = "save")
        /\ progress' = IF progress.action = "revalidate" THEN OnError(progress, NoPhase) ELSE progress
        /\ UNCHANGED <<verdicts, fatal, lastPhase>>
    BY <1>9 DEF JobBreaksOff
  <2>2. CASE progress.action = "revalidate"
    <3>1. GoodProgress(progress') /\ NoneRuns(progress') /\ brokeOff' = FALSE
      BY <1>g, <2>1, <2>2, OnErrorFacts
    <3>2. brokeOff' \in BOOLEAN
      BY <3>1, Zenon
    <3> QED
      BY <1>e, <2>1, <3>1, <3>2
  <2>3. CASE progress.action = "save"
    <3>1. progress' = progress /\ brokeOff' = TRUE
      BY <2>1, <2>3
    <3>2. brokeOff' \in BOOLEAN /\ brokeOff'
      BY <3>1, Zenon
    <3> QED
      BY <1>e, <1>g, <2>1, <3>1, <3>2
  <2> QED
    BY <1>j, <2>1, <2>2, <2>3
<1>10. CASE UNCHANGED progressVars
  BY <1>10 DEF progressVars, ProgressInv, GoodProgress, NoneRuns, HasError
<1> QED
  BY <1>1, <1>2, <1>3, <1>4, <1>5, <1>6, <1>7, <1>8, <1>9, <1>10 DEF ProgressNext

LEMMA ProgressInvImplies == ProgressInv => ProgressTypeOK /\ SpinsOnlyWhileRunning
<1> SUFFICES ASSUME ProgressInv PROVE ProgressTypeOK /\ SpinsOnlyWhileRunning
  OBVIOUS
<1>1. GoodProgress(progress)
  BY DEF ProgressInv
<1>2. \A i \in 1 .. Len(progress.steps) : progress.steps[i] \in StepRec
  BY <1>1 DEF GoodProgress, ProgressRec
<1>3. ProgressTypeOK
  BY <1>1, <1>2 DEF ProgressInv, GoodProgress, ProgressRec, StepRec, ProgressTypeOK
<1>4. Cardinality(Spinning) <= 1
  <2>1. CASE Spinning = {}
    BY <2>1, FS_EmptySet
  <2>2. CASE Spinning # {}
    <3>1. PICK i \in Spinning : TRUE
      BY <2>2
    <3>2. Spinning = {i}
      BY <1>1, <3>1 DEF GoodProgress, Spinning
    <3>3. Cardinality({i}) = 1
      BY FS_Singleton
    <3> QED
      BY <3>2, <3>3
  <2> QED
    BY <2>1, <2>2
<1>5. ASSUME BubbleShown, ~Running, ~brokeOff PROVE Spinning = {}
  <2>1. DOMAIN streams = {}
    BY <1>5 DEF Running
  <2>2. progress.action = "validate" => verdicts = {}
    BY <1>5 DEF BubbleShown
  <2>3. NoneRuns(progress)
    BY <1>5, <2>1, <2>2 DEF ProgressInv
  <2> QED
    BY <2>3 DEF NoneRuns, Spinning
<1> QED
  BY <1>3, <1>4, <1>5 DEF SpinsOnlyWhileRunning

------------------------------------------------------------------------------
(* The forward proxy page.                                                    *)

\* The add dialog: it spins while its validation runs, and what is validated was typed.
DialogInv ==
    /\ dialog \in Dialogs /\ check \in SUBSET Url
    /\ SpinsWhileValidating /\ AddsWhatIsTyped
    /\ ~dialog.typedOver => check \subseteq dialog.input

LEMMA ClosedDialog ==
    /\ Closed \in Dialogs /\ Closed.kind = "none" /\ ~Closed.validating /\ Closed.validated = {}
    /\ \A kind \in {"subscription", "manual"} :
         /\ [Closed EXCEPT !.kind = kind] \in Dialogs
         /\ ~[Closed EXCEPT !.kind = kind].validating /\ [Closed EXCEPT !.kind = kind].validated = {}
<1>1. FALSE \in BOOLEAN
  BY Zenon
<1> QED
  BY <1>1 DEF Closed, Dialogs

LEMMA DialogAtStart == ProxyInit => DialogInv
<1> SUFFICES ASSUME ProxyInit PROVE DialogInv
  OBVIOUS
<1>1. dialog = Closed /\ check = {}
  BY DEF ProxyInit
<1> QED
  BY <1>1, ClosedDialog DEF DialogInv, SpinsWhileValidating, AddsWhatIsTyped

\* The end of a job closes the dialog with its validation, or leaves both as they are.
LEMMA ReturnKeepsDialog ==
    ASSUME DialogInv, JobReturns \/ StatsReadReplaced
    PROVE  DialogInv'
<1>1. \/ UNCHANGED <<dialog, check>>
      \/ dialog' \in {Closed, dialog} /\ check' = IF dialog' = Closed THEN {} ELSE check
  BY DEF JobReturns, StatsReadReplaced, AfterSave
<1>2. CASE dialog' = Closed /\ check' = {}
  BY <1>2, ClosedDialog DEF DialogInv, SpinsWhileValidating, AddsWhatIsTyped
<1>3. CASE UNCHANGED <<dialog, check>>
  BY <1>3 DEF DialogInv, SpinsWhileValidating, AddsWhatIsTyped
<1> QED
  BY <1>1, <1>2, <1>3

LEMMA DialogStep == DialogInv /\ [ProxyNext]_proxyVars => DialogInv'
<1> SUFFICES ASSUME DialogInv, [ProxyNext]_proxyVars PROVE DialogInv'
  OBVIOUS
<1>d. /\ dialog \in Dialogs /\ check \in SUBSET Url /\ (dialog.validating <=> check # {})
      /\ (~dialog.typedOver => dialog.validated \subseteq dialog.input)
      /\ (~dialog.typedOver => check \subseteq dialog.input)
  BY DEF DialogInv, SpinsWhileValidating, AddsWhatIsTyped
<1>f. /\ dialog.kind \in {"none", "subscription", "manual"} /\ dialog.input \in SUBSET Url
      /\ dialog.validated \in SUBSET Url /\ dialog.ok \in SUBSET Url /\ dialog.live \in BOOLEAN
      /\ dialog.validating \in BOOLEAN /\ dialog.typedOver \in BOOLEAN
  BY <1>d DEF Dialogs
<1>b. TRUE \in BOOLEAN /\ FALSE \in BOOLEAN
  BY Zenon
<1> DEFINE Good(d, c) == /\ d \in Dialogs /\ c \in SUBSET Url /\ (d.validating <=> c # {})
                         /\ (~d.typedOver => d.validated \subseteq d.input)
                         /\ (~d.typedOver => c \subseteq d.input)
<1>g. Good(dialog', check') => DialogInv'
  BY DEF DialogInv, SpinsWhileValidating, AddsWhatIsTyped
<1>1. CASE UNCHANGED <<dialog, check>>
  BY <1>1, <1>d, <1>g
<1>2. CASE dialog' = Closed /\ check' = {}
  BY <1>2, <1>g, ClosedDialog
<1>3. CASE StatsReadReplaced
  BY <1>3, ReturnKeepsDialog
<1>4. ASSUME NEW kind \in {"subscription", "manual"}, OpenDialog(kind) PROVE DialogInv'
  <2>1. dialog' = [Closed EXCEPT !.kind = kind] /\ check' = {}
    BY <1>4 DEF OpenDialog
  <2> QED
    BY <2>1, <1>g, ClosedDialog
<1>5. ASSUME NEW us \in SUBSET Url, TypeInDialog(us) PROVE DialogInv'
  <2> DEFINE over == dialog.typedOver \/ dialog.validating \/ ControlsDisabled
  <2>1. /\ dialog' = [dialog EXCEPT !.input = us, !.validated = {}, !.ok = {}, !.live = FALSE,
                                    !.typedOver = over]
        /\ check' = check
    BY <1>5 DEF TypeInDialog
  <2>2. over \in BOOLEAN
    BY Zenon
  <2>3. ~over => check = {}
    BY <1>d
  <2> HIDE DEF over
  <2>4. /\ dialog' \in Dialogs /\ dialog'.validated = {} /\ dialog'.typedOver = over
        /\ dialog'.validating = dialog.validating
    BY <1>d, <1>f, <1>b, <2>1, <2>2 DEF Dialogs
  <2> QED
    BY <1>d, <1>g, <2>1, <2>3, <2>4
<1>6. ASSUME HandleValidateDialog PROVE DialogInv'
  <2>1. ~dialog.validating /\ check = {}
    BY <1>6, <1>d DEF HandleValidateDialog, ProxyDialogOffers
  <2>2. CASE dialog.input = {}
    <3>1. dialog' = [dialog EXCEPT !.validated = {}, !.ok = {}] /\ check' = {}
      BY <1>6, <2>1, <2>2 DEF HandleValidateDialog
    <3>2. dialog' \in Dialogs /\ dialog'.validated = {} /\ ~dialog'.validating
      BY <1>d, <1>f, <2>1, <3>1 DEF Dialogs
    <3> QED
      BY <1>g, <3>1, <3>2
  <2>3. CASE dialog.input # {}
    <3>1. dialog' = [dialog EXCEPT !.validating = TRUE, !.live = FALSE] /\ check' = dialog.input
      BY <1>6, <2>3 DEF HandleValidateDialog
    <3>2. /\ dialog' \in Dialogs /\ dialog'.validated = dialog.validated /\ dialog'.validating
          /\ dialog'.input = dialog.input /\ dialog'.typedOver = dialog.typedOver
      BY <1>d, <1>f, <1>b, <3>1 DEF Dialogs
    <3> QED
      BY <1>d, <1>f, <1>g, <2>3, <3>1, <3>2
  <2> QED
    BY <2>2, <2>3
<1>7. ASSUME LiveNodeAnswers PROVE DialogInv'
  <2>1. dialog' = [dialog EXCEPT !.live = TRUE] /\ check' = check
    BY <1>7 DEF LiveNodeAnswers
  <2>2. /\ dialog' \in Dialogs /\ dialog'.validated = dialog.validated /\ dialog'.validating = dialog.validating
        /\ dialog'.input = dialog.input /\ dialog'.typedOver = dialog.typedOver
    BY <1>d, <1>f, <1>b, <2>1 DEF Dialogs
  <2> QED
    BY <1>d, <1>g, <2>1, <2>2
<1>8. ASSUME NEW ok \in SUBSET Url, ValidationReturns(ok) PROVE DialogInv'
  <2>1. dialog' = [dialog EXCEPT !.validated = check, !.ok = ok, !.validating = FALSE] /\ check' = {}
    BY <1>8 DEF ValidationReturns
  <2>2. /\ dialog' \in Dialogs /\ dialog'.validated = check /\ ~dialog'.validating
        /\ dialog'.input = dialog.input /\ dialog'.typedOver = dialog.typedOver
    BY <1>d, <1>f, <1>b, <2>1 DEF Dialogs
  <2> QED
    BY <1>d, <1>g, <2>1, <2>2
<1>9. ASSUME CancelDialogValidation PROVE DialogInv'
  <2>1. /\ dialog' = [dialog EXCEPT !.validating = FALSE, !.validated = {}, !.ok = {}, !.live = FALSE]
        /\ check' = {}
    BY <1>9 DEF CancelDialogValidation
  <2>2. dialog' \in Dialogs /\ dialog'.validated = {} /\ ~dialog'.validating
    BY <1>d, <1>f, <1>b, <2>1 DEF Dialogs
  <2> QED
    BY <1>g, <2>1, <2>2
<1>10. ASSUME HandleAddSubscription PROVE DialogInv'
  <2>1. dialog' = [dialog EXCEPT !.validating = FALSE] /\ check' = {}
    BY <1>10 DEF HandleAddSubscription
  <2>2. /\ dialog' \in Dialogs /\ dialog'.validated = dialog.validated /\ ~dialog'.validating
        /\ dialog'.input = dialog.input /\ dialog'.typedOver = dialog.typedOver
    BY <1>d, <1>f, <1>b, <2>1 DEF Dialogs
  <2> QED
    BY <1>d, <1>g, <2>1, <2>2
<1> HIDE DEF Good
<1>11. CASE UNCHANGED proxyVars
  BY <1>11, <1>1 DEF proxyVars
<1>12. CASE ProxyAnswers
  BY <1>12, <1>1, <1>3
     DEF ProxyAnswers, ServerReads, SettingsAnswered, StatsAnswered, JobSteps, ServerWrites, JobAnswered, JobFails
<1>13. CASE OpenProxyPage \/ LeaveProxyPage \/ RefreshProxyPage \/ StatsTick
  BY <1>13, <1>1, <1>2, <1>3 DEF OpenProxyPage, LeaveProxyPage, RefreshProxyPage, StatsTick
<1>14. CASE \/ \E u \in Url : HandleRemove(u)
            \/ HandleInsertDirectChange
            \/ \E u \in EgressUrl : TypeEgressUrl(u)
            \/ HandleToggleEgress \/ RevalidateForwardProxy
            \/ HandleAddManualBatch \/ \E u \in Url : HandleAddManualEntry(u)
  BY <1>14, <1>1
     DEF HandleRemove, HandleInsertDirectChange, TypeEgressUrl, HandleToggleEgress,
         RevalidateForwardProxy, HandleAddManualBatch, HandleAddManualEntry
<1>15. CASE CloseProxyDialog
  BY <1>15, <1>2 DEF CloseProxyDialog
<1> QED
  BY <1>4, <1>5, <1>6, <1>7, <1>8, <1>9, <1>10, <1>11, <1>12, <1>13, <1>14, <1>15 DEF ProxyNext

\* The settings: an answer that is not stale holds what the server has, the page shows it unless
\* it has fallen behind or waits for the answer to a save, and a save sent from a page that had
\* not differs from it in one field.
SettingsTypes ==
    /\ proxyPage \in BOOLEAN
    /\ settings \in ForwardProxySettings \cup {NoSettings}
    /\ settingsState \in {"initial_loading", "switch_loading", "refreshing", "ready", "error"}
    /\ settingsReads \subseteq [seen : ForwardProxySettings \cup {NoSettings}, stale : BOOLEAN]
    /\ statsRead \in {"none", "page", "job"}
    /\ job \in Jobs \cup {NoJob}
    /\ egressDraft \in [enabled : BOOLEAN, url : EgressUrl]
    /\ egressBusy \in BOOLEAN /\ behind \in BOOLEAN
    /\ serverSettings \in ForwardProxySettings /\ jobs \in 0 .. MaxJobs
OneFieldOf(d, s) ==
    \/ d.insertDirect = s.insertDirect /\ d.egressEnabled = s.egressEnabled
    \/ d.urls = s.urls /\ d.egressEnabled = s.egressEnabled
    \/ d.urls = s.urls /\ d.insertDirect = s.insertDirect
ReadsTrue == \A r \in settingsReads : r.seen # NoSettings /\ ~r.stale => r.seen = serverSettings
SaveWritten == job.op = "save" /\ job.phase = "written"
ShownTrue == ~behind /\ settings # NoSettings => settings = serverSettings \/ SaveWritten
FormsAreFilled ==
    settingsState \in {"ready", "refreshing"} \/ dialog.kind # "none" => settings # NoSettings
WaitsForStats == statsRead = "job" => job # NoJob /\ job.phase = "stats"
JobTrue ==
    /\ SaveWritten => job.draft = serverSettings
    /\ job.op = "save" /\ job.phase = "sent" /\ ~job.old => OneFieldOf(job.draft, serverSettings)
ProxyInv ==
    DialogInv /\ SettingsTypes /\ ReadsTrue /\ ShownTrue /\ FormsAreFilled /\ WaitsForStats /\ JobTrue

LEMMA NoJobOf == NoJob \notin Jobs /\ NoJob.op = "none"
  BY DEF NoJob, Jobs

LEMMA JobFields ==
    ASSUME NEW j \in Jobs
    PROVE  \/ /\ j.op = "save" /\ j.by \in {"list", "batch", "entry", "egress"}
              /\ j.draft \in ForwardProxySettings /\ j.phase \in {"sent", "written", "stats"}
              /\ j.here \in BOOLEAN /\ j.old \in BOOLEAN
           \/ j.op = "revalidate" /\ j.phase \in {"sent", "stats"}
  BY DEF Jobs

\* A job moves on: its other fields stay.
LEMMA JobMoves ==
    ASSUME NEW j \in Jobs
    PROVE  /\ [j EXCEPT !.phase = "stats"] \in Jobs
           /\ [j EXCEPT !.phase = "stats"].phase = "stats"
           /\ j.op = "save" =>
                /\ [j EXCEPT !.phase = "written"] \in Jobs
                /\ [j EXCEPT !.phase = "written"].phase = "written"
                /\ [j EXCEPT !.phase = "written"].draft = j.draft
                /\ [j EXCEPT !.here = FALSE] \in Jobs
                /\ [j EXCEPT !.here = FALSE].op = j.op /\ [j EXCEPT !.here = FALSE].phase = j.phase
                /\ [j EXCEPT !.here = FALSE].draft = j.draft /\ [j EXCEPT !.here = FALSE].old = j.old
<1>1. FALSE \in BOOLEAN
  BY Zenon
<1>2. CASE j \in [op : {"save"}, by : {"list", "batch", "entry", "egress"}, draft : ForwardProxySettings,
                  phase : {"sent", "written", "stats"}, here : BOOLEAN, old : BOOLEAN]
  BY <1>1, <1>2 DEF Jobs
<1>3. CASE j \in [op : {"revalidate"}, phase : {"sent", "stats"}]
  BY <1>3 DEF Jobs
<1> QED
  BY <1>2, <1>3 DEF Jobs

LEMMA ProxyInitInv == ProxyInit => ProxyInv
<1> SUFFICES ASSUME ProxyInit PROVE ProxyInv
  OBVIOUS
<1>1. /\ settings = NoSettings /\ settingsState = "initial_loading" /\ settingsReads = {}
      /\ statsRead = "none" /\ job = NoJob /\ jobs = 0 /\ dialog = Closed
      /\ egressDraft = [enabled |-> FALSE, url |-> "empty"]
      /\ serverSettings = [urls |-> {}, insertDirect |-> TRUE, egressEnabled |-> FALSE,
                           egressUrl |-> "empty"]
  BY DEF ProxyInit
<1>2. proxyPage \in BOOLEAN /\ egressBusy \in BOOLEAN /\ behind \in BOOLEAN /\ TRUE \in BOOLEAN /\ FALSE \in BOOLEAN
  BY Zenon DEF ProxyInit
<1>3. SettingsTypes
  BY <1>1, <1>2, ProxyConstants DEF SettingsTypes, ForwardProxySettings, EgressUrl
<1>4. ReadsTrue /\ ShownTrue /\ FormsAreFilled /\ WaitsForStats /\ JobTrue
  BY <1>1, NoJobOf, ClosedDialog DEF ReadsTrue, ShownTrue, FormsAreFilled, WaitsForStats, JobTrue, SaveWritten
<1> QED
  BY <1>3, <1>4, DialogAtStart DEF ProxyInv

\* What does not touch the job, the server and what was read.
LEMMA ProxyQuiet ==
    ASSUME ProxyInv,
           UNCHANGED <<settings, settingsState, settingsReads, statsRead, job, serverSettings, jobs, behind>>,
           proxyPage' \in BOOLEAN, egressBusy' \in BOOLEAN, egressDraft' \in [enabled : BOOLEAN, url : EgressUrl],
           DialogInv', settings # NoSettings \/ dialog'.kind \in {"none", dialog.kind}
    PROVE  ProxyInv'
<1>1. SettingsTypes'
  BY DEF ProxyInv, SettingsTypes
<1>2. ReadsTrue' /\ ShownTrue' /\ FormsAreFilled' /\ WaitsForStats' /\ JobTrue'
  BY DEF ProxyInv, ReadsTrue, ShownTrue, FormsAreFilled, WaitsForStats, JobTrue, SaveWritten
<1> QED
  BY <1>1, <1>2 DEF ProxyInv

\* A control saves: what it sends differs in one field from what is shown.
LEMMA JobBegins ==
    ASSUME ProxyInv, job = NoJob, settings # NoSettings,
           NEW by \in {"list", "batch", "entry", "egress"}, NEW toSave \in ForwardProxySettings,
           OneFieldOf(toSave, settings), BeginJob(by, toSave),
           UNCHANGED <<proxyPage, settings, settingsState, settingsReads, statsRead, serverSettings, behind>>,
           egressBusy' \in BOOLEAN, egressDraft' \in [enabled : BOOLEAN, url : EgressUrl],
           DialogInv'
    PROVE  ProxyInv'
<1> DEFINE j == [op |-> "save", by |-> by, draft |-> toSave, phase |-> "sent", here |-> TRUE, old |-> behind]
<1>1. job' = j /\ jobs' = jobs + 1 /\ jobs < MaxJobs
  BY DEF BeginJob
<1>2. TRUE \in BOOLEAN
  BY Zenon
<1>3. behind \in BOOLEAN
  BY DEF ProxyInv, SettingsTypes
<1>4. j \in Jobs /\ j.op = "save" /\ j.phase = "sent" /\ j.draft = toSave /\ j.old = behind
  BY <1>2, <1>3 DEF Jobs
<1> HIDE DEF j
<1>5. SettingsTypes'
  BY <1>1, <1>4, ProxyConstants DEF ProxyInv, SettingsTypes
<1>6. statsRead # "job"
  BY DEF ProxyInv, WaitsForStats
<1>7. ~behind => settings = serverSettings
  BY NoJobOf DEF ProxyInv, ShownTrue, SaveWritten
<1>8. FormsAreFilled' /\ ReadsTrue'
  BY DEF ProxyInv, FormsAreFilled, ReadsTrue
<1>9. ~SaveWritten' /\ ShownTrue' /\ WaitsForStats'
  BY <1>1, <1>4, <1>6, <1>7 DEF ShownTrue, WaitsForStats, SaveWritten
<1>10. JobTrue'
  BY <1>1, <1>4, <1>7, <1>9 DEF JobTrue
<1> QED
  BY <1>5, <1>8, <1>9, <1>10 DEF ProxyInv

\* A job that waited for the statistics returns.
LEMMA StatsReplacedKeeps ==
    ASSUME ProxyInv, StatsReadReplaced, statsRead' \in {"none", "page"},
           UNCHANGED <<settings, serverSettings, jobs, behind, egressBusy>>,
           settingsReads' \subseteq settingsReads \cup {[seen |-> NoSettings, stale |-> FALSE]},
           settingsState' \in {"initial_loading", "switch_loading", "refreshing", "ready", "error"},
           settingsState' \in {"ready", "refreshing"} => settings # NoSettings,
           proxyPage' \in BOOLEAN, egressDraft' \in [enabled : BOOLEAN, url : EgressUrl]
    PROVE  ProxyInv'
<1>1. DialogInv'
  BY ReturnKeepsDialog DEF ProxyInv
<1>2. \/ job' = job /\ dialog' = dialog
      \/ statsRead = "job" /\ job' = NoJob /\ dialog' \in {Closed, dialog}
  BY DEF StatsReadReplaced, JobReturns, AfterSave
<1>3. statsRead = "job" => ~SaveWritten
  BY DEF ProxyInv, WaitsForStats, SaveWritten
<1> DEFINE unread == [seen |-> NoSettings, stale |-> FALSE]
<1>u. unread.seen = NoSettings /\ unread \in [seen : ForwardProxySettings \cup {NoSettings}, stale : BOOLEAN]
  <2>1. FALSE \in BOOLEAN
    BY Zenon
  <2> QED
    BY <2>1
<1> HIDE DEF unread
<1>r. settingsReads' \subseteq settingsReads \cup {unread}
  BY DEF unread
<1>4. SettingsTypes'
  BY <1>2, <1>r, <1>u DEF ProxyInv, SettingsTypes
<1>5. ReadsTrue' /\ FormsAreFilled'
  BY <1>2, <1>r, <1>u, ClosedDialog DEF ProxyInv, ReadsTrue, FormsAreFilled
<1>6. CASE job' = job
  BY <1>1, <1>4, <1>5, <1>6 DEF ProxyInv, ShownTrue, WaitsForStats, JobTrue, SaveWritten
<1>7. CASE statsRead = "job" /\ job' = NoJob
  <2>1. ShownTrue' /\ WaitsForStats' /\ JobTrue'
    BY <1>3, <1>7, NoJobOf DEF ProxyInv, ShownTrue, WaitsForStats, JobTrue, SaveWritten
  <2> QED
    BY <1>1, <1>4, <1>5, <2>1 DEF ProxyInv
<1> QED
  BY <1>2, <1>6, <1>7

\* The settings of an answer are shown; the draft of the egress switch follows them.
LEMMA ShowKeepsDraft ==
    ASSUME ProxyInv, NEW s \in ForwardProxySettings, ShowSettings(s)
    PROVE  settings' = s /\ settings' # NoSettings /\ egressDraft' \in [enabled : BOOLEAN, url : EgressUrl]
<1>1. s.egressEnabled \in BOOLEAN /\ s.egressUrl \in EgressUrl
  BY DEF ForwardProxySettings
<1>2. egressDraft' \in {[enabled |-> s.egressEnabled, url |-> s.egressUrl], egressDraft}
  BY DEF ShowSettings
<1>3. settings' = s /\ s # NoSettings
  BY ProxyConstants DEF ShowSettings
<1> QED
  BY <1>1, <1>2, <1>3 DEF ProxyInv, SettingsTypes

LEMMA ServerReadsInv == ASSUME ProxyInv, NEW r \in settingsReads, ServerReads(r) PROVE ProxyInv'
<1> DEFINE q == [r EXCEPT !.seen = serverSettings]
<1>1. /\ settingsReads' = (settingsReads \ {r}) \cup {q}
      /\ UNCHANGED <<proxyPage, settings, settingsState, statsRead, job, egressDraft, egressBusy,
                     dialog, check, serverSettings, jobs, behind>>
  BY DEF ServerReads
<1>2. q \in [seen : ForwardProxySettings \cup {NoSettings}, stale : BOOLEAN] /\ q.seen = serverSettings
  BY DEF ProxyInv, SettingsTypes
<1> HIDE DEF q
<1>3. SettingsTypes'
  BY <1>1, <1>2 DEF ProxyInv, SettingsTypes
<1>4. ReadsTrue'
  BY <1>1, <1>2 DEF ProxyInv, ReadsTrue
<1> QED
  BY <1>1, <1>3, <1>4
     DEF ProxyInv, DialogInv, SpinsWhileValidating, AddsWhatIsTyped, ShownTrue, FormsAreFilled,
         WaitsForStats, JobTrue, SaveWritten

LEMMA SettingsAnsweredInv ==
    ASSUME ProxyInv, NEW r \in settingsReads, NEW ok \in BOOLEAN, SettingsAnswered(r, ok)
    PROVE  ProxyInv'
<1>1. /\ r.seen # NoSettings /\ settingsReads' = settingsReads \ {r}
      /\ UNCHANGED <<proxyPage, statsRead, job, egressBusy, dialog, check, serverSettings, jobs>>
  BY DEF SettingsAnswered
<1>2. r.seen \in ForwardProxySettings /\ r.stale \in BOOLEAN
  BY <1>1 DEF ProxyInv, SettingsTypes
<1>3. DialogInv' /\ WaitsForStats' /\ JobTrue' /\ ReadsTrue' /\ SaveWritten' = SaveWritten
  BY <1>1 DEF ProxyInv, DialogInv, SpinsWhileValidating, AddsWhatIsTyped, WaitsForStats, JobTrue,
              SaveWritten, ReadsTrue
<1>4. CASE ok
  <2>1. /\ settings' = r.seen /\ settings' # NoSettings /\ behind' = r.stale /\ settingsState' = "ready"
        /\ egressDraft' \in [enabled : BOOLEAN, url : EgressUrl]
    BY <1>2, <1>4, ShowKeepsDraft DEF SettingsAnswered
  <2>2. SettingsTypes'
    BY <1>1, <1>2, <2>1 DEF ProxyInv, SettingsTypes
  <2>3. ShownTrue' /\ FormsAreFilled'
    BY <1>1, <2>1 DEF ProxyInv, ShownTrue, FormsAreFilled, ReadsTrue
  <2> QED
    BY <1>3, <2>2, <2>3 DEF ProxyInv
<1>5. CASE ~ok
  <2>1. UNCHANGED <<settings, egressDraft>> /\ behind' = behind /\ settingsState' = "error"
    BY <1>5 DEF SettingsAnswered
  <2>2. SettingsTypes'
    BY <1>1, <2>1 DEF ProxyInv, SettingsTypes
  <2>3. ShownTrue' /\ FormsAreFilled'
    BY <1>1, <1>3, <2>1 DEF ProxyInv, ShownTrue, FormsAreFilled
  <2> QED
    BY <1>3, <2>2, <2>3 DEF ProxyInv
<1> QED
  BY <1>4, <1>5

LEMMA ServerWritesInv == ASSUME ProxyInv, ServerWrites PROVE ProxyInv'
<1>1. /\ job.op = "save" /\ job.phase = "sent" /\ serverSettings' = job.draft
      /\ job' = [job EXCEPT !.phase = "written"]
      /\ settingsReads' = {[r EXCEPT !.stale = (r.seen # NoSettings)] : r \in settingsReads}
      /\ UNCHANGED <<proxyPage, settings, settingsState, statsRead, egressDraft, egressBusy, dialog,
                     check, jobs, behind>>
  BY DEF ServerWrites
<1>2. job \in Jobs
  BY <1>1, NoJobOf DEF ProxyInv, SettingsTypes
<1>3. job' \in Jobs /\ job'.phase = "written" /\ job'.draft = job.draft /\ job.draft \in ForwardProxySettings
  BY <1>1, <1>2, JobMoves, JobFields
<1>4. ASSUME NEW q \in settingsReads'
      PROVE  q \in [seen : ForwardProxySettings \cup {NoSettings}, stale : BOOLEAN] /\ (q.seen # NoSettings => q.stale)
  <2>1. PICK r \in settingsReads : q = [r EXCEPT !.stale = (r.seen # NoSettings)]
    BY <1>1
  <2>2. r \in [seen : ForwardProxySettings \cup {NoSettings}, stale : BOOLEAN]
    BY DEF ProxyInv, SettingsTypes
  <2>3. (r.seen # NoSettings) \in BOOLEAN
    BY Zenon
  <2>4. q.seen = r.seen /\ q.stale = (r.seen # NoSettings)
    BY <2>1, <2>2
  <2> QED
    BY <2>1, <2>2, <2>3, <2>4
<1>5. SettingsTypes'
  BY <1>1, <1>3, <1>4 DEF ProxyInv, SettingsTypes
<1>6. DialogInv' /\ FormsAreFilled'
  BY <1>1 DEF ProxyInv, DialogInv, SpinsWhileValidating, AddsWhatIsTyped, FormsAreFilled
<1>7. ReadsTrue'
  BY <1>4 DEF ReadsTrue
<1>8. statsRead # "job"
  BY <1>1 DEF ProxyInv, WaitsForStats
<1>9. job'.op = "save"
  BY <1>1, <1>2, <1>3 DEF Jobs
<1>10. SaveWritten' /\ ShownTrue' /\ WaitsForStats'
  BY <1>1, <1>3, <1>8, <1>9 DEF ShownTrue, WaitsForStats, SaveWritten
<1>11. JobTrue'
  BY <1>1, <1>3 DEF JobTrue
<1> QED
  BY <1>5, <1>6, <1>7, <1>10, <1>11 DEF ProxyInv

LEMMA JobAnsweredInv == ASSUME ProxyInv, JobAnswered PROVE ProxyInv'
<1> DEFINE s == IF job.op = "save" THEN job.draft ELSE serverSettings
<1>1. /\ job # NoJob /\ job.phase = (IF job.op = "save" THEN "written" ELSE "sent")
      /\ ShowSettings(s) /\ settingsState' = "ready" /\ job' = [job EXCEPT !.phase = "stats"]
      /\ statsRead' = "job" /\ behind' = FALSE
      /\ UNCHANGED <<proxyPage, settingsReads, egressBusy, dialog, check, serverSettings, jobs>>
  BY DEF JobAnswered, ReadStats
<1>2. job \in Jobs
  BY <1>1 DEF ProxyInv, SettingsTypes
<1>3. job' \in Jobs /\ job'.phase = "stats" /\ job' # NoJob
  BY <1>1, <1>2, JobMoves, NoJobOf
<1>4. s = serverSettings /\ serverSettings \in ForwardProxySettings
  BY <1>1 DEF ProxyInv, SettingsTypes, JobTrue, SaveWritten
<1> HIDE DEF s
<1>5. settings' = serverSettings /\ settings' # NoSettings /\ egressDraft' \in [enabled : BOOLEAN, url : EgressUrl]
  BY <1>1, <1>4, ShowKeepsDraft
<1>6. behind' \in BOOLEAN
  BY <1>1, Zenon
<1>7. SettingsTypes'
  BY <1>1, <1>3, <1>4, <1>5, <1>6 DEF ProxyInv, SettingsTypes
<1>8. DialogInv' /\ FormsAreFilled' /\ ReadsTrue'
  BY <1>1, <1>5 DEF ProxyInv, DialogInv, SpinsWhileValidating, AddsWhatIsTyped, FormsAreFilled, ReadsTrue
<1>9. ShownTrue' /\ WaitsForStats' /\ JobTrue'
  BY <1>1, <1>3, <1>5 DEF ShownTrue, WaitsForStats, JobTrue, SaveWritten
<1> QED
  BY <1>7, <1>8, <1>9 DEF ProxyInv

LEMMA JobFailsInv == ASSUME ProxyInv, JobFails PROVE ProxyInv'
<1>1. /\ job # NoJob /\ job.phase # "stats" /\ job' = NoJob
      /\ behind' = (behind \/ job.phase = "written")
      /\ UNCHANGED <<proxyPage, settings, settingsState, settingsReads, statsRead, egressBusy,
                     dialog, check, serverSettings, jobs>>
  BY DEF JobFails
<1>2. behind' \in BOOLEAN
  BY <1>1, Zenon
<1>3. egressDraft' \in [enabled : BOOLEAN, url : EgressUrl]
  <2>1. egressDraft \in [enabled : BOOLEAN, url : EgressUrl]
    BY DEF ProxyInv, SettingsTypes
  <2>2. (~job.draft.egressEnabled) \in BOOLEAN
    BY Zenon
  <2>3. egressDraft' = egressDraft \/ egressDraft' = [egressDraft EXCEPT !.enabled = ~job.draft.egressEnabled]
    BY DEF JobFails
  <2> QED
    BY <2>1, <2>2, <2>3
<1>4. SettingsTypes'
  BY <1>1, <1>2, <1>3 DEF ProxyInv, SettingsTypes
<1>5. DialogInv' /\ FormsAreFilled' /\ ReadsTrue'
  BY <1>1 DEF ProxyInv, DialogInv, SpinsWhileValidating, AddsWhatIsTyped, FormsAreFilled, ReadsTrue
<1>6. statsRead # "job"
  BY <1>1 DEF ProxyInv, WaitsForStats
<1>7. ShownTrue' /\ WaitsForStats' /\ JobTrue'
  BY <1>1, <1>6, NoJobOf DEF ProxyInv, ShownTrue, WaitsForStats, JobTrue, SaveWritten
<1> QED
  BY <1>4, <1>5, <1>7 DEF ProxyInv

\* The controls that save: each changes one field of the settings that are shown.
LEMMA FieldEdits ==
    ASSUME NEW s \in ForwardProxySettings
    PROVE  /\ \A us \in SUBSET Url : /\ [s EXCEPT !.urls = us] \in ForwardProxySettings
                                     /\ OneFieldOf([s EXCEPT !.urls = us], s)
           /\ [s EXCEPT !.insertDirect = ~s.insertDirect] \in ForwardProxySettings
           /\ OneFieldOf([s EXCEPT !.insertDirect = ~s.insertDirect], s)
           /\ \A e \in BOOLEAN, u \in EgressUrl :
                /\ [s EXCEPT !.egressEnabled = e, !.egressUrl = u] \in ForwardProxySettings
                /\ OneFieldOf([s EXCEPT !.egressEnabled = e, !.egressUrl = u], s)
<1>1. (~s.insertDirect) \in BOOLEAN
  BY Zenon
<1> QED
  BY <1>1 DEF ForwardProxySettings, OneFieldOf

LEMMA ShownDraft ==
    ASSUME ProxyInv, settings # NoSettings
    PROVE  Draft = settings /\ settings \in ForwardProxySettings /\ settings.urls \subseteq Url
<1>1. settings \in ForwardProxySettings
  BY DEF ProxyInv, SettingsTypes
<1> QED
  BY <1>1 DEF Draft, BuildDraft, ForwardProxySettings

LEMMA ListSaves ==
    ASSUME ProxyInv, (\E u \in Url : HandleRemove(u)) \/ HandleInsertDirectChange
    PROVE  ProxyInv'
<1>1. /\ ListOffers
      /\ UNCHANGED <<proxyPage, settings, settingsState, settingsReads, statsRead, egressDraft,
                     egressBusy, dialog, check, serverSettings, behind>>
  BY DEF HandleRemove, HandleInsertDirectChange, SubscriptionList, ManualList, OptionsOffered
<1>2. job = NoJob /\ settings # NoSettings
  BY <1>1 DEF ListOffers, FormsShown, ControlsDisabled, ProxyInv, FormsAreFilled
<1>3. PICK toSave \in ForwardProxySettings : BeginJob("list", toSave) /\ OneFieldOf(toSave, settings)
  <2>1. CASE \E u \in Url : HandleRemove(u)
    <3>1. PICK u \in Url : BeginJob("list", [Draft EXCEPT !.urls = @ \ {u}])
      BY <2>1 DEF HandleRemove
    <3>2. settings.urls \ {u} \in SUBSET Url
      BY <1>2, ShownDraft
    <3> QED
      BY <1>2, <3>1, <3>2, ShownDraft, FieldEdits
  <2>2. CASE HandleInsertDirectChange
    BY <1>2, <2>2, ShownDraft, FieldEdits DEF HandleInsertDirectChange
  <2> QED
    BY <2>1, <2>2
<1>4. DialogInv' /\ egressBusy' \in BOOLEAN /\ egressDraft' \in [enabled : BOOLEAN, url : EgressUrl]
  BY <1>1 DEF ProxyInv, SettingsTypes, DialogInv, SpinsWhileValidating, AddsWhatIsTyped
<1> QED
  BY <1>1, <1>2, <1>3, <1>4, JobBegins

LEMMA EgressSaves == ASSUME ProxyInv, HandleToggleEgress PROVE ProxyInv'
<1> DEFINE next == ~egressDraft.enabled
<1>1. /\ EgressSwitchOffered
      /\ UNCHANGED <<proxyPage, settings, settingsState, settingsReads, statsRead, dialog, check,
                     serverSettings, behind>>
  BY DEF HandleToggleEgress
<1>2. job = NoJob /\ settings # NoSettings
  BY <1>1 DEF EgressSwitchOffered, FormsShown, ControlsDisabled, ProxyInv, FormsAreFilled
<1>3. egressDraft \in [enabled : BOOLEAN, url : EgressUrl] /\ egressBusy \in BOOLEAN
  BY DEF ProxyInv, SettingsTypes
<1>4. next \in BOOLEAN /\ TRUE \in BOOLEAN /\ FALSE \in BOOLEAN
  BY Zenon
<1>5. DialogInv'
  BY <1>1 DEF ProxyInv, DialogInv, SpinsWhileValidating, AddsWhatIsTyped
<1>6. \/ /\ egressDraft' = [egressDraft EXCEPT !.enabled = FALSE]
         /\ UNCHANGED <<job, jobs, egressBusy>>
      \/ /\ egressDraft' = [egressDraft EXCEPT !.enabled = next] /\ egressBusy' = TRUE
         /\ BeginJob("egress", [Draft EXCEPT !.egressEnabled = next, !.egressUrl = egressDraft.url])
  BY DEF HandleToggleEgress
<1> HIDE DEF next
<1>7. egressDraft' \in [enabled : BOOLEAN, url : EgressUrl] /\ egressBusy' \in BOOLEAN
  <2>1. egressDraft' \in [enabled : BOOLEAN, url : EgressUrl]
    BY <1>3, <1>4, <1>6
  <2>2. egressBusy' = egressBusy \/ egressBusy' = TRUE
    BY <1>6
  <2> QED
    BY <1>3, <1>4, <2>1, <2>2
<1>8. CASE UNCHANGED <<job, jobs>>
  BY <1>1, <1>5, <1>7, <1>8, ProxyQuiet DEF ProxyInv, SettingsTypes
<1>9. CASE BeginJob("egress", [Draft EXCEPT !.egressEnabled = next, !.egressUrl = egressDraft.url])
  <2> DEFINE toSave == [Draft EXCEPT !.egressEnabled = next, !.egressUrl = egressDraft.url]
  <2>1. toSave \in ForwardProxySettings /\ OneFieldOf(toSave, settings)
    BY <1>2, <1>3, <1>4, ShownDraft, FieldEdits
  <2> HIDE DEF toSave
  <2>2. BeginJob("egress", toSave)
    BY <1>9 DEF toSave
  <2> QED
    BY <1>1, <1>2, <1>5, <1>7, <2>1, <2>2, JobBegins
<1> QED
  BY <1>6, <1>8, <1>9

LEMMA DialogSaves ==
    ASSUME ProxyInv, DialogInv',
           \/ HandleAddSubscription \/ HandleAddManualBatch \/ \E u \in Url : HandleAddManualEntry(u)
    PROVE  ProxyInv'
<1>1. /\ dialog.kind # "none" /\ ~ControlsDisabled
      /\ UNCHANGED <<proxyPage, settings, settingsState, settingsReads, statsRead, egressDraft,
                     egressBusy, serverSettings, behind>>
  BY DEF HandleAddSubscription, HandleAddManualBatch, HandleAddManualEntry, ProxyDialogOffers, ProxyRowOffers
<1>2. job = NoJob /\ settings # NoSettings
  BY <1>1 DEF ControlsDisabled, ProxyInv, FormsAreFilled
<1>3. OkUrls \subseteq Url /\ dialog.input \subseteq Url /\ settings.urls \subseteq Url /\ Draft = settings
  BY <1>2, ShownDraft DEF ProxyInv, DialogInv, Dialogs, OkUrls
<1>4. PICK us \in SUBSET Url, by \in {"batch", "entry"} : BeginJob(by, [Draft EXCEPT !.urls = us])
  <2>1. CASE HandleAddSubscription
    <3>1. PICK u \in SubscriptionCandidate : BeginJob("batch", [Draft EXCEPT !.urls = @ \cup {u}])
      BY <2>1 DEF HandleAddSubscription
    <3>2. Draft.urls \cup {u} \in SUBSET Url
      BY <1>3 DEF SubscriptionCandidate
    <3> QED
      BY <3>1, <3>2
  <2>2. CASE HandleAddManualBatch
    <3>1. ManualBatch \in SUBSET Url
      BY <1>3 DEF ManualBatch
    <3> QED
      BY <2>2, <3>1 DEF HandleAddManualBatch
  <2>3. CASE \E u \in Url : HandleAddManualEntry(u)
    <3>1. PICK u \in Url : BeginJob("entry", [Draft EXCEPT !.urls = @ \cup {u}])
      BY <2>3 DEF HandleAddManualEntry
    <3>2. Draft.urls \cup {u} \in SUBSET Url
      BY <1>3
    <3> QED
      BY <3>1, <3>2
  <2> QED
    BY <2>1, <2>2, <2>3
<1> DEFINE toSave == [Draft EXCEPT !.urls = us]
<1>5. toSave \in ForwardProxySettings /\ OneFieldOf(toSave, settings)
  BY <1>2, ShownDraft, FieldEdits
<1>6. BeginJob(by, toSave)
  BY <1>4
<1> HIDE DEF toSave
<1>7. egressBusy' \in BOOLEAN /\ egressDraft' \in [enabled : BOOLEAN, url : EgressUrl]
  BY <1>1 DEF ProxyInv, SettingsTypes
<1> QED
  BY <1>1, <1>2, <1>5, <1>6, <1>7, JobBegins

LEMMA RevalidateInv == ASSUME ProxyInv, RevalidateForwardProxy PROVE ProxyInv'
<1>1. /\ job = NoJob /\ jobs < MaxJobs /\ jobs' = jobs + 1 /\ job' = [op |-> "revalidate", phase |-> "sent"]
      /\ UNCHANGED <<proxyPage, settings, settingsState, settingsReads, statsRead, egressDraft,
                     egressBusy, dialog, check, serverSettings, behind>>
  BY DEF RevalidateForwardProxy, SummaryPanel, ControlsDisabled
<1>2. job' \in Jobs /\ job'.op = "revalidate"
  BY <1>1 DEF Jobs
<1>3. statsRead # "job"
  BY <1>1 DEF ProxyInv, WaitsForStats
<1>4. SettingsTypes'
  BY <1>1, <1>2, ProxyConstants DEF ProxyInv, SettingsTypes
<1>5. DialogInv' /\ FormsAreFilled' /\ ReadsTrue'
  BY <1>1 DEF ProxyInv, DialogInv, SpinsWhileValidating, AddsWhatIsTyped, FormsAreFilled, ReadsTrue
<1>6. ShownTrue' /\ WaitsForStats' /\ JobTrue'
  BY <1>1, <1>2, <1>3, NoJobOf DEF ProxyInv, ShownTrue, WaitsForStats, JobTrue, SaveWritten
<1> QED
  BY <1>4, <1>5, <1>6 DEF ProxyInv

LEMMA PageSteps ==
    ASSUME ProxyInv, OpenProxyPage \/ RefreshProxyPage \/ StatsTick \/ StatsAnswered
    PROVE  ProxyInv'
<1>1. RefreshProxyPage => StatsReadReplaced
  <2>1. RefreshProxyPage => job = NoJob /\ UNCHANGED <<job, dialog, check>>
    BY DEF RefreshProxyPage, SummaryPanel, ControlsDisabled
  <2> QED
    BY <2>1 DEF StatsReadReplaced, ProxyInv, WaitsForStats
<1>2. StatsReadReplaced /\ statsRead' \in {"none", "page"}
  BY <1>1 DEF OpenProxyPage, RefreshProxyPage, StatsTick, StatsAnswered, ReadStats
<1>3. UNCHANGED <<settings, serverSettings, jobs, behind, egressBusy>>
  BY DEF OpenProxyPage, RefreshProxyPage, StatsTick, StatsAnswered
<1>4. /\ settingsReads' \subseteq settingsReads \cup {[seen |-> NoSettings, stale |-> FALSE]}
      /\ settingsState' \in {"initial_loading", "switch_loading", "refreshing", "ready", "error"}
      /\ settingsState' \in {"ready", "refreshing"} => settings # NoSettings
  <2>1. CASE OpenProxyPage \/ RefreshProxyPage
    BY <2>1 DEF OpenProxyPage, RefreshProxyPage, ReadSettings, AbortReads
  <2>2. CASE StatsTick \/ StatsAnswered
    BY <2>2 DEF StatsTick, StatsAnswered, ProxyInv, SettingsTypes, FormsAreFilled
  <2> QED
    BY <2>1, <2>2
<1>5. proxyPage' \in BOOLEAN
  <2>1. proxyPage' = proxyPage \/ proxyPage' = TRUE
    BY DEF OpenProxyPage, RefreshProxyPage, StatsTick, StatsAnswered
  <2>2. TRUE \in BOOLEAN
    BY Zenon
  <2> QED
    BY <2>1, <2>2 DEF ProxyInv, SettingsTypes
<1>6. egressDraft' \in [enabled : BOOLEAN, url : EgressUrl]
  <2>1. egressDraft' = egressDraft \/ egressDraft' = [enabled |-> Draft.egressEnabled, url |-> Draft.egressUrl]
    BY DEF OpenProxyPage, RefreshProxyPage, StatsTick, StatsAnswered
  <2>2. Draft \in ForwardProxySettings
    <3>1. TRUE \in BOOLEAN /\ FALSE \in BOOLEAN
      BY Zenon
    <3> QED
      BY <3>1 DEF ProxyInv, SettingsTypes, Draft, BuildDraft, ForwardProxySettings, EgressUrl
  <2>3. Draft.egressEnabled \in BOOLEAN /\ Draft.egressUrl \in EgressUrl
    BY <2>2 DEF ForwardProxySettings
  <2> QED
    BY <2>1, <2>3 DEF ProxyInv, SettingsTypes
<1> QED
  BY <1>2, <1>3, <1>4, <1>5, <1>6, StatsReplacedKeeps

LEMMA LeavePageInv == ASSUME ProxyInv, LeaveProxyPage PROVE ProxyInv'
<1>1. /\ settingsReads' = {} /\ statsRead' \in {"none", statsRead} /\ dialog' = Closed /\ check' = {}
      /\ job' = (IF job.op = "save" THEN [job EXCEPT !.here = FALSE] ELSE job)
      /\ UNCHANGED <<settings, settingsState, egressDraft, serverSettings, jobs, behind>>
  BY DEF LeaveProxyPage, AbortReads
<1>2. proxyPage' \in BOOLEAN /\ egressBusy' \in BOOLEAN
  BY Zenon DEF LeaveProxyPage
<1>3. DialogInv'
  BY <1>1, ClosedDialog DEF DialogInv, SpinsWhileValidating, AddsWhatIsTyped
<1>4. /\ job' \in Jobs \cup {NoJob} /\ (job # NoJob => job' # NoJob /\ job'.phase = job.phase)
      /\ job'.op = job.op /\ (job.op = "save" => job'.draft = job.draft /\ job'.old = job.old)
  <2>1. CASE job.op = "save"
    <3>1. job \in Jobs
      BY <2>1, NoJobOf DEF ProxyInv, SettingsTypes
    <3> QED
      BY <1>1, <2>1, <3>1, JobMoves, NoJobOf
  <2>2. CASE job.op # "save"
    BY <1>1, <2>2 DEF ProxyInv, SettingsTypes
  <2> QED
    BY <2>1, <2>2
<1>5. SettingsTypes'
  BY <1>1, <1>2, <1>4 DEF ProxyInv, SettingsTypes
<1>6. FormsAreFilled' /\ ReadsTrue' /\ WaitsForStats'
  BY <1>1, <1>4, ClosedDialog DEF ProxyInv, FormsAreFilled, ReadsTrue, WaitsForStats
<1>7. job.op = "save" => job # NoJob
  BY NoJobOf
<1>8. SaveWritten' <=> SaveWritten
  BY <1>4, <1>7 DEF SaveWritten
<1>9. ShownTrue' /\ JobTrue'
  BY <1>1, <1>4, <1>7, <1>8 DEF ProxyInv, ShownTrue, JobTrue, SaveWritten
<1> QED
  BY <1>3, <1>5, <1>6, <1>9 DEF ProxyInv

LEMMA ProxyStepInv == ProxyInv /\ [ProxyNext]_proxyVars => ProxyInv'
<1> SUFFICES ASSUME ProxyInv, [ProxyNext]_proxyVars PROVE ProxyInv'
  OBVIOUS
<1>d. DialogInv'
  BY DialogStep DEF ProxyInv
<1>t. /\ proxyPage \in BOOLEAN /\ egressBusy \in BOOLEAN
      /\ egressDraft \in [enabled : BOOLEAN, url : EgressUrl]
      /\ (FormsShown \/ dialog.kind # "none" => settings # NoSettings)
  BY DEF ProxyInv, SettingsTypes, FormsShown, FormsAreFilled
<1>q. ASSUME UNCHANGED <<proxyPage, settings, settingsState, settingsReads, statsRead, job, egressDraft,
                         egressBusy, serverSettings, jobs, behind>>,
             settings # NoSettings \/ dialog'.kind \in {"none", dialog.kind}
      PROVE  ProxyInv'
  BY <1>d, <1>t, <1>q, ProxyQuiet
<1>1. ASSUME NEW u \in EgressUrl, TypeEgressUrl(u) PROVE ProxyInv'
  <2>1. egressDraft' = [egressDraft EXCEPT !.url = u]
    BY <1>1 DEF TypeEgressUrl
  <2>2. egressDraft' \in [enabled : BOOLEAN, url : EgressUrl]
    BY <1>t, <2>1
  <2> QED
    BY <1>1, <1>d, <1>t, <2>2, ProxyQuiet DEF TypeEgressUrl
<1>2. ASSUME NEW kind \in {"subscription", "manual"}, OpenDialog(kind) PROVE ProxyInv'
  BY <1>2, <1>q, <1>t DEF OpenDialog, AddOffered, ListOffers
<1>3. CASE CloseProxyDialog
  BY <1>3, <1>q, ClosedDialog DEF CloseProxyDialog
<1>4. CASE \/ \E us \in SUBSET Url : TypeInDialog(us)
           \/ HandleValidateDialog \/ LiveNodeAnswers \/ CancelDialogValidation
           \/ \E ok \in SUBSET Url : ValidationReturns(ok)
  <2>1. \/ dialog.kind # "none"
        \/ dialog'.kind = dialog.kind
    <3>1. dialog \in Dialogs
      BY DEF ProxyInv, DialogInv
    <3> QED
      BY <1>4, <3>1 DEF TypeInDialog, HandleValidateDialog, LiveNodeAnswers, CancelDialogValidation,
                        ValidationReturns, ProxyDialogOffers, Dialogs
  <2> QED
    BY <1>4, <1>q, <1>t, <2>1
       DEF TypeInDialog, HandleValidateDialog, LiveNodeAnswers, CancelDialogValidation, ValidationReturns
<1>5. CASE UNCHANGED proxyVars
  BY <1>5, <1>q DEF proxyVars
<1>6. CASE ProxyAnswers
  BY <1>6, ServerReadsInv, SettingsAnsweredInv, PageSteps, ServerWritesInv, JobAnsweredInv, JobFailsInv
     DEF ProxyAnswers, JobSteps
<1> QED
  BY <1>1, <1>2, <1>3, <1>4, <1>5, <1>6, <1>d, PageSteps, LeavePageInv, ListSaves, EgressSaves,
     RevalidateInv, DialogSaves
     DEF ProxyNext

LEMMA ProxyInvImplies ==
    ProxyInv => ProxyTypeOK /\ SpinsWhileValidating /\ AddsWhatIsTyped /\ SaveEditsOneField
<1> SUFFICES ASSUME ProxyInv PROVE ProxyTypeOK /\ SpinsWhileValidating /\ AddsWhatIsTyped /\ SaveEditsOneField
  OBVIOUS
<1>1. ProxyTypeOK
  BY DEF ProxyInv, DialogInv, SettingsTypes, ProxyTypeOK
<1>2. SpinsWhileValidating /\ AddsWhatIsTyped
  BY DEF ProxyInv, DialogInv
<1>3. SaveEditsOneField
  <2> SUFFICES ASSUME job.op = "save" /\ job.phase = "sent" /\ ~job.old
               PROVE  Cardinality({f \in {"urls", "insertDirect", "egressEnabled"} :
                                     job.draft[f] # serverSettings[f]}) <= 1
    BY DEF SaveEditsOneField
  <2> DEFINE edited == {f \in {"urls", "insertDirect", "egressEnabled"} : job.draft[f] # serverSettings[f]}
  <2>1. OneFieldOf(job.draft, serverSettings)
    BY DEF ProxyInv, JobTrue
  <2>2. PICK f : edited \subseteq {f}
    BY <2>1 DEF OneFieldOf
  <2> HIDE DEF edited
  <2>3. IsFiniteSet({f}) /\ Cardinality({f}) = 1
    BY FS_Singleton
  <2>4. Cardinality(edited) <= 1
    BY <2>2, <2>3, FS_Subset
  <2> QED
    BY <2>4 DEF edited
<1> QED
  BY <1>1, <1>2, <1>3

------------------------------------------------------------------------------
(* The tab.                                                                   *)

\* Every part keeps its own invariant, whichever part the behaviour is about.
ChartInv == chartSample = NoChart \/ ChartInit
TabInv ==
    /\ FeedInv /\ UserInv /\ TagInv /\ SecretInv
    /\ RegInv /\ RowInv /\ ImportInv /\ ProxyInv /\ ProgressInv
    /\ ListInv /\ BrokenInv /\ RouteInv /\ ChartInv

LEMMA TabInitInv == TabInit => TabInv
<1> SUFFICES ASSUME TabInit PROVE TabInv
  OBVIOUS
<1>1. ChartInv
  BY DEF TabInit, ChartInv
<1>2. FeedInv /\ UserInv /\ TagInv /\ SecretInv /\ RegInv /\ RowInv
  BY FeedInitInv, UserInitInv, TagInitInv, SecretInitInv, RegInitInv, RowInitInv DEF TabInit
<1>3. ImportInv /\ ProxyInv /\ ProgressInv /\ ListInv /\ BrokenInv /\ RouteInv
  BY ImportInitInv, ProxyInitInv, ProgressInitInv, ListInitInv, BrokenInitInv, RouteInitInv DEF TabInit
<1> QED
  BY <1>1, <1>2, <1>3 DEF TabInv

\* A step of the tab is a step of one part, or of none.
LEMMA TabStepIsOfPart ==
    ASSUME [TabNext]_tabVars
    PROVE  /\ [FeedNext]_feedVars /\ [UserNext]_userVars /\ [TagNext]_tagVars
           /\ [SecretNext]_secretVars /\ [RegNext]_regVars /\ [RowNext]_rowVars
           /\ [ImportNext]_importVars /\ [ProxyNext]_proxyVars /\ [ProgressNext]_progressVars
           /\ [ListNext]_listVars /\ [BrokenNext]_brokenVars /\ [RouteNext]_routeVars
           /\ UNCHANGED <<focus, chartVars>>
  BY DEF TabNext, tabVars

LEMMA TabStepInv == TabInv /\ [TabNext]_tabVars => TabInv'
<1> SUFFICES ASSUME TabInv, [TabNext]_tabVars PROVE TabInv'
  OBVIOUS
<1>1. FeedInv' /\ UserInv' /\ TagInv' /\ SecretInv'
  BY TabStepIsOfPart, FeedStepInv, UserStepInv, TagStepInv, SecretStepInv DEF TabInv
<1>2. RegInv' /\ RowInv' /\ ImportInv' /\ ProxyInv' /\ ProgressInv'
  BY TabStepIsOfPart, RegStepInv, RowStepInv, ImportStep, ProxyStepInv, ProgressStepInv DEF TabInv
<1>3. ListInv' /\ BrokenInv' /\ RouteInv'
  BY TabStepIsOfPart, ListStepInv, BrokenStepInv, RouteStepInv DEF TabInv
<1>4. ChartInv'
  BY TabStepIsOfPart DEF TabInv, ChartInv, ChartInit, chartVars
<1> QED
  BY <1>1, <1>2, <1>3, <1>4 DEF TabInv

\* Every state of the tab satisfies the invariants of all the parts.
LEMMA TabAlwaysInv == TabSpec => []TabInv
  BY TabInitInv, TabStepInv, PTL DEF TabSpec

\* The card of a tag saves to the tag it was opened on, and the form of an account holds the values
\* of the account of its page, in whatever order loads are answered, the catalogue is reloaded and
\* the administrator navigates.  Only the reload after a save of another account (refreshUserDetail)
\* puts that account's values on the page, into every section alike, until the page's own account
\* is loaded or reloaded again.
THEOREM EditsKeepTheirSubject == TabSpec => []EditsKeepSubject
<1>1. TabInv => EditsKeepSubject
  BY UserInvImplies DEF TabInv, TagInv, EditsKeepSubject
<1> QED
  BY <1>1, TabAlwaysInv, PTL

\* A copy yields the secret that works, however rotations, hovers, copies and answers interleave
\* and however many buttons show a token (the secret cache and the copy handlers).
THEOREM CopiesStayCurrent == TabSpec => []CopiesAreCurrent
<1>1. TabInv => CopiesAreCurrent
  BY SecretInvImplies DEF TabInv
<1> QED
  BY <1>1, TabAlwaysInv, PTL

\* No answer takes the dashboard back, for any number of loads, drops of the stream and changes
\* of the server's data (dashboardOverviewVersionRef, dashboardSignalsVersionRef).
THEOREM FeedNeverGoesBack == TabSpec => NeverGoesBack
<1>1. TabInv /\ [TabNext]_tabVars
      => [/\ (\E l \in loads, sok \in BOOLEAN : OverviewAnswered(l, TRUE, sok)) => overview' >= overview
          /\ signals' >= signals]_feedVars
  BY TabStepIsOfPart, FeedStepNeverGoesBack DEF TabInv
<1> QED
  BY <1>1, TabAlwaysInv, PTL DEF TabSpec, NeverGoesBack

\* Rows an effect or a refresh brought were asked for with the query on the screen, except where a
\* refresh asks for all kinds under a filter without a matching one, or is of the users and behind
\* the key of their effect; a list says "nothing here" only where the server has nothing on its
\* page, unless the reload of an edit brought the rows or the tokens could not be fetched; and the
\* drawer joins the pages of its own subject to its whole list: for any number of filters, pages,
\* requests on their way, subjects and broken keys, and any size of the drawer's pages (the effects
\* and refreshes of the lists, fetchAllMonthlyBrokenKeyItems).
THEOREM ListsFollowQuery == TabSpec => []ListsShowQuery
<1>1. TabInv => ListsShowQuery
  BY ListInvImplies, BrokenInvImplies DEF TabInv, ListsShowQuery
<1> QED
  BY <1>1, TabAlwaysInv, PTL

\* What spins is running, and an operation on a row that no other of its slot overlaps holds its
\* button (deletions, notes and new tokens are never overlapped; switches and cleared quarantines
\* of several rows can be), for any number of keys, rows, URLs and candidates (the import and
\* proxy dialogs, the row operations, the progress bubble).
THEOREM WhatSpinsIsRunning == TabSpec => []BusyIsTrue
<1>1. TabInv => BusyIsTrue
  BY ImportInvImplies, RowInvImplies, ProxyInvImplies, ProgressInvImplies DEF TabInv, BusyIsTrue
<1> QED
  BY <1>1, TabAlwaysInv, PTL

\* The registration switch shows the server's setting, a save of the proxy settings changes the one
\* field that was edited, and the dialog adds what was typed (toggleAllowRegistration,
\* saveForwardProxySettings, the add dialog).
THEOREM SettingsFollowServer == TabSpec => []SettingsAreServers
<1>1. TabInv => SettingsAreServers
  BY RegInvImplies, ProxyInvImplies DEF TabInv, SettingsAreServers
<1> QED
  BY <1>1, TabAlwaysInv, PTL

\* The page is that of the address, and Back leads to the list the page was opened from as it was,
\* for any addresses, filters, pages and searches (parseAdminPath, buildAdminUsersPath and the
\* other builders of addresses).
THEOREM PagesFollowAddress == TabSpec => []PagesOfAddress
<1>1. TabInv => PagesOfAddress
  BY RouteInvImplies DEF TabInv, PagesOfAddress
<1> QED
  BY <1>1, TabAlwaysInv, PTL

\* The rows rank the nodes, every bar is seen and the bars of a bucket fill their cell, and the line
\* shows the last weight known, uncut: for any nodes, reports, counts, weights and length of the
\* range (buildMergedNodes, buildVisibleBarHeights, normalizeWeightBuckets, buildWeightTrendGeometry).
THEOREM ChartsFollowReports == TabSpec => []ChartsShowReports
<1>1. TabInv => ChartsShowReports
  BY ChartsShow DEF TabInv, ChartInv, ChartsShowReports
<1> QED
  BY <1>1, TabAlwaysInv, PTL

\* Every part keeps to its types, among them that an address leads to a page, that answers belong
\* to requests that were sent, and that the server's copies are of what can exist there.
THEOREM TabTypeCorrect == TabSpec => []TabTypeOK
<1>1. FeedInv /\ UserInv /\ TagInv /\ SecretInv /\ RegInv
      => FeedTypeOK /\ UserTypeOK /\ TagTypeOK /\ SecretTypeOK /\ RegTypeOK
  BY DEF FeedInv, UserInv, TagInv, SecretInv, RegInv
<1>2. RowInv /\ ImportInv /\ ProgressInv /\ ProxyInv /\ ListInv /\ BrokenInv /\ RouteInv
      => /\ RowTypeOK /\ ImportTypeOK /\ ProgressTypeOK /\ ProxyTypeOK
         /\ ListTypeOK /\ BrokenTypeOK /\ RouteTypeOK
  BY RowInvImplies, ImportInvImplies, ProgressInvImplies, ProxyInvImplies, ListInvImplies,
     BrokenInvImplies, RouteInvImplies
<1>3. TabInv /\ focus \in TabPart => TabTypeOK
  BY <1>1, <1>2, ChartsShow DEF TabInv, ChartInv, TabPart, TabTypeOK
<1>4. TabInit => focus \in TabPart
  BY DEF TabInit
<1>5. focus \in TabPart /\ [TabNext]_tabVars => (focus \in TabPart)'
  BY TabStepIsOfPart
<1>6. TabSpec => [](focus \in TabPart)
  BY <1>4, <1>5, PTL DEF TabSpec
<1> QED
  BY <1>3, <1>6, TabAlwaysInv, PTL

\* A key leaves the import dialog for the server only, or with the dialog the administrator closes,
\* however chunks fail, are retried and are answered (handleImport, the validation runs).
THEOREM ImportLosesNoKey == TabSpec => KeysLeaveToServer
<1>1. TabInv /\ [TabNext]_tabVars
      => [validation.open /\ ~CloseImportDialog =>
            \A k \in VisibleRows : k \in VisibleRows' \/ k \in serverKeys']_importVars
  BY TabStepIsOfPart, ImportStep DEF TabInv, KeysKept
<1> QED
  BY <1>1, TabAlwaysInv, PTL DEF TabSpec, KeysLeaveToServer
==============================================================================
