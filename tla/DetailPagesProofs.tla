-------------------------- MODULE DetailPagesProofs --------------------------
(***************************************************************************)
(* Proofs about the pages of one token and of one key, for every value of   *)
(* the constants.  The parts of the pages have no variable in common, so    *)
(* what a part proves of itself holds of the pages (PagesSpec).             *)
(***************************************************************************)
EXTENDS MCDetailPages, FiniteSetTheorems, TLAPS

------------------------------------------------------------------------------
(* The rotation of a token's secret (TokenRotation).                          *)

\* A rotation that the server has answered carries the secret that works, and from the answer
\* on the page has it.
AnswerIsCurrent ==
    \A r \in rotations :
        /\ r.at \in {"answer", "copy"} => r.secret = tokenSecret
        /\ r.at = "copy" => rotated = tokenSecret

\* The flag holds the button while a rotation is on its way, so there is only one.
OneRotation ==
    /\ \A r, s \in rotations : r = s
    /\ rotations # {} => rotationRunning

\* The dialog of the new secret covers the page: nothing can make the secret old while it is open.
DialogIsAlone == rotatedDialog => rotations = {} /\ ~rotateDialog

RotationInv ==
    /\ RotationTypeOK
    /\ AnswerIsCurrent
    /\ OneRotation
    /\ DialogIsAlone
    /\ ShownSecretWorks

LEMMA RotationInitInv == RotationInit => RotationInv
<1> SUFFICES ASSUME RotationInit PROVE RotationInv
  OBVIOUS
<1>1. {rotateDialog, rotationRunning, rotatedDialog} \subseteq BOOLEAN
  BY Zenon DEF RotationInit
<1> QED
  BY <1>1, SecretBound DEF RotationInit, RotationInv, RotationTypeOK, AnswerIsCurrent, OneRotation,
     DialogIsAlone, ShownSecretWorks

\* Every step of the page, of the server and of the clipboard keeps the invariant.
LEMMA RotationStepInv == RotationInv /\ [RotationNext]_rotationVars => RotationInv'
<1> SUFFICES ASSUME RotationInv, [RotationNext]_rotationVars PROVE RotationInv'
  OBVIOUS
<1> USE SecretBound DEF RotationInv, RotationTypeOK, AnswerIsCurrent, OneRotation, DialogIsAlone,
        ShownSecretWorks
<1>1. CASE OpenRotateDialog
  BY <1>1 DEF OpenRotateDialog, PageReached
<1>2. CASE CloseRotateDialog
  BY <1>2 DEF CloseRotateDialog
<1>3. CASE HandleRotateToken
  BY <1>3 DEF HandleRotateToken, RegenerateOffered
<1>4. ASSUME NEW r \in rotations, ServerRotates(r) PROVE RotationInv'
  BY <1>4 DEF ServerRotates
<1>5. ASSUME NEW r \in rotations, RotationAnswered(r) PROVE RotationInv'
  BY <1>5 DEF RotationAnswered
<1>6. ASSUME NEW r \in rotations, RotationFails(r) PROVE RotationInv'
  BY <1>6 DEF RotationFails
<1>7. ASSUME NEW r \in rotations, NEW ok \in BOOLEAN, RotationShown(r, ok) PROVE RotationInv'
  BY <1>7 DEF RotationShown
<1>8. CASE CloseRotatedDialog
  BY <1>8 DEF CloseRotatedDialog
<1>9. CASE HandleCopyRotatedToken
  BY <1>9 DEF HandleCopyRotatedToken
<1>10. ASSUME NEW n \in manualCopies, NEW ok \in BOOLEAN, CopyEnds(n, ok) PROVE RotationInv'
  BY <1>10 DEF CopyEnds
<1>11. CASE UNCHANGED rotationVars
  BY <1>11 DEF rotationVars
<1> QED
  BY <1>1, <1>2, <1>3, <1>4, <1>5, <1>6, <1>7, <1>8, <1>9, <1>10, <1>11 DEF RotationNext

------------------------------------------------------------------------------
(* The bodies of a request record (LogBodies).                                *)

\* BodiesOfList without the texts, and the controllers: a record has one exactly while its
\* request is on its way, so giving it up never counts a request twice.
BodiesFollowList ==
    /\ \A l \in LogId : logBodies[l] # "none" => l \in listedLogs
    /\ \A l \in LogId : bodyRequests[l] = (IF logBodies[l] = "loading" THEN 1 ELSE 0)
    /\ \A l \in expandedLogs : logBodies[l] # "none"
    /\ \A l \in LogId : l \in bodyControllers <=> logBodies[l] = "loading"

BodyInv == BodyTypeOK /\ BodiesFollowList

LEMMA BodyInvImplies == BodyInv => BodiesOfList
<1> SUFFICES ASSUME BodyInv, NEW l \in expandedLogs PROVE BodyText(l) # "no body"
  BY DEF BodyInv, BodiesFollowList, BodiesOfList
<1>1. logBodies[l] \in {"loading", "ready", "error"}
  BY DEF BodyInv, BodyTypeOK, BodiesFollowList
<1> QED
  BY <1>1 DEF BodyText

LEMMA BodyInitInv == BodyInit => BodyInv
  BY LogBodiesConstants DEF BodyInit, BodyInv, BodyTypeOK, BodiesFollowList

LEMMA BodyStepInv == BodyInv /\ [BodyNext]_bodyVars => BodyInv'
<1> SUFFICES ASSUME BodyInv, [BodyNext]_bodyVars PROVE BodyInv'
  OBVIOUS
<1> USE LogBodiesConstants DEF BodyInv, BodyTypeOK, BodiesFollowList
<1>1. \A l \in LogId : GivenUp(l) = 0
  BY DEF GivenUp
<1>2. ASSUME NEW l \in LogId, ExpandLog(l) PROVE BodyInv'
  BY <1>1, <1>2 DEF ExpandLog, BodiesKnown, TriggerLoadLogBodies
<1>3. ASSUME NEW l \in LogId, CollapseLog(l) PROVE BodyInv'
  BY <1>3 DEF CollapseLog
<1>4. ASSUME NEW l \in LogId, RetryLoadBodies(l) PROVE BodyInv'
  BY <1>1, <1>4 DEF RetryLoadBodies, RetryOffered, TriggerLoadLogBodies
<1>5. ASSUME NEW l \in LogId, BodiesAnswered(l) PROVE BodyInv'
  BY <1>5 DEF BodiesAnswered
<1>6. ASSUME NEW l \in LogId, BodiesFail(l) PROVE BodyInv'
  BY <1>6 DEF BodiesFail
<1>7. ASSUME NEW rows \in SUBSET LogId, ListReplaced(rows) PROVE BodyInv'
  BY <1>1, <1>7 DEF ListReplaced
<1>8. CASE UNCHANGED bodyVars
  BY <1>8 DEF bodyVars
<1> QED
  BY <1>2, <1>3, <1>4, <1>5, <1>6, <1>7, <1>8 DEF BodyNext, BodiesSettle

------------------------------------------------------------------------------
(* Request kinds (RequestKinds): what the filters do to kinds of the catalogue. *)

\* A kind of the catalogue is its own canonical key.
LEMMA CanonicalIsNormal ==
    ASSUME NEW k \in CanonicalKind PROVE NormalizeRequestKindSelectionKey(k) = k
  BY DEF CanonicalKind, BillableApi, FreeApi, BillableMcp, FreeMcp, LegacyKind,
     NormalizeRequestKindSelectionKey

LEMMA UniqueOfCanonical ==
    ASSUME NEW S \in SUBSET CanonicalKind PROVE UniqueSelectedRequestKinds(S) = S
  BY CanonicalIsNormal DEF UniqueSelectedRequestKinds

\* A quick filter stands for kinds among the options.
LEMMA QuickFilterSelects ==
    ASSUME NEW options \in SUBSET CanonicalKind, NEW q
    PROVE  BuildQuickFilterSelection(options, q) \in SUBSET options
<1>1. ASSUME NEW S \in SUBSET options PROVE UniqueSelectedRequestKinds(S) = S
  BY UniqueOfCanonical, S \in SUBSET CanonicalKind
<1> QED
  BY <1>1 DEF BuildQuickFilterSelection

\* The kinds in force are those of the quick filter, if one is active, or the ticked ones.
LEMMA EffectiveSelects ==
    ASSUME NEW selected \in SUBSET CanonicalKind, NEW options \in SUBSET CanonicalKind, NEW q
    PROVE  ResolveEffectiveSelection(selected, q, BuildQuickFilterSelection(options, q))
             = IF HasActiveQuickFilters(q) THEN BuildQuickFilterSelection(options, q) ELSE selected
  BY QuickFilterSelects, UniqueOfCanonical DEF ResolveEffectiveSelection

LEMMA ToggleCanonical ==
    ASSUME NEW selected \in SUBSET CanonicalKind, NEW k \in CanonicalKind
    PROVE  ToggleRequestKindSelection(selected, k)
             = IF k \in selected THEN selected \ {k} ELSE selected \cup {k}
  BY CanonicalIsNormal, UniqueOfCanonical DEF ToggleRequestKindSelection

\* The quick filter derived from ticked kinds is none, or stands for exactly those kinds.
LEMMA DerivedQuickFilter ==
    ASSUME NEW selected \in SUBSET CanonicalKind, NEW options \in SUBSET CanonicalKind
    PROVE  LET q == DeriveQuickFilters(selected, options)
           IN  /\ q \in QuickFilter
               /\ q = DefaultQuickFilters \/ BuildQuickFilterSelection(options, q) = selected
<1> DEFINE matches == {q \in QuickFilter \ {DefaultQuickFilters} :
                RequestKindSelectionsMatch(selected, BuildQuickFilterSelection(options, q))}
<1>1. DefaultQuickFilters \in QuickFilter
  BY DEF DefaultQuickFilters, QuickFilter
<1>2. CASE selected # {} /\ Cardinality(matches) = 1
  <2>1. matches # {}
    BY <1>2, FS_EmptySet
  <2>2. DeriveQuickFilters(selected, options) \in matches
    BY <1>2, <2>1 DEF DeriveQuickFilters
  <2>3. ASSUME NEW q \in matches PROVE BuildQuickFilterSelection(options, q) = selected
    BY <2>3, QuickFilterSelects, UniqueOfCanonical DEF RequestKindSelectionsMatch
  <2> QED
    BY <2>2, <2>3
<1>3. CASE ~(selected # {} /\ Cardinality(matches) = 1)
  BY <1>1, <1>3 DEF DeriveQuickFilters
<1> QED
  BY <1>2, <1>3

\* Likewise after a kind was ticked or unticked: the quick filter that follows is none, or
\* stands for exactly the ticked kinds.
LEMMA ManualQuickFilter ==
    ASSUME NEW selected \in SUBSET CanonicalKind, NEW options \in SUBSET CanonicalKind,
           NEW active \in QuickFilter
    PROVE  LET q == ResolveManualQuickFilters(selected, active,
                        BuildQuickFilterSelection(options, active), options)
           IN  /\ q \in QuickFilter
               /\ ~HasActiveQuickFilters(q) \/ BuildQuickFilterSelection(options, q) = selected
<1>1. ~HasActiveQuickFilters(DefaultQuickFilters)
  BY DEF HasActiveQuickFilters, DefaultQuickFilters
<1>2. RequestKindSelectionsMatch(selected, BuildQuickFilterSelection(options, active))
        => BuildQuickFilterSelection(options, active) = selected
  BY QuickFilterSelects, UniqueOfCanonical DEF RequestKindSelectionsMatch
<1> QED
  BY <1>1, <1>2, DerivedQuickFilter DEF ResolveManualQuickFilters

------------------------------------------------------------------------------
(* The request records of a key (KeyLogs).                                    *)

KeyLogViews ==
    [window : KeyLogWindow, quick : QuickFilter, selected : SUBSET KeyLogKind,
     outcome : KeyLogOutcome, page : 1 .. MaxKeyLogPage, options : SUBSET KeyLogKind]
KeyLogStates == {"initial_loading", "switch_loading", "refreshing", "ready", "error"}

\* A table t whose rows, if any, answer the view v.
TableOf(t, v) ==
    /\ t = [rows |-> t.rows, state |-> t.state, pages |-> t.pages, last |-> t.last]
    /\ t.rows \in {NoKeyRequest, KeyLogRequestOf(v)}
    /\ t.state \in KeyLogStates /\ t.pages \in 1 .. MaxKeyLogPage

\* The rows and the request on its way are of the view: every change of what they are made of
\* runs the effect, which drops them.
KeyLogInv ==
    /\ keyLogView \in KeyLogViews /\ keyLogKinds \subseteq KeyLogKind
    /\ TableOf(keyLogTable, keyLogView)
    /\ keyLogRequest \in {NoKeyRequest, KeyLogRequestOf(keyLogView)}

LEMMA KeyLogInvImplies == KeyLogInv => KeyLogTypeOK /\ KeyLogsOfFilters
  BY KeyLogsConstants DEF KeyLogInv, TableOf, KeyLogViews, KeyLogStates, KeyLogTypeOK,
     KeyLogsOfFilters, KeyLogRequestOf, NoKeyRequest

LEMMA KeyLogInitInv == KeyLogInit => KeyLogInv
<1>1. DefaultQuickFilters \in QuickFilter
  BY DEF DefaultQuickFilters, QuickFilter
<1> QED
  BY <1>1, KeyLogsConstants DEF KeyLogInit, KeyLogInv, TableOf, KeyLogViews, KeyLogStates

\* The dependencies of the effect hold everything the request is made of.
LEMMA SameDependencies ==
    ASSUME NEW v, NEW w, EffectDependencies(v) = EffectDependencies(w)
    PROVE  KeyLogRequestOf(v) = KeyLogRequestOf(w)
  BY DEF EffectDependencies, LogsQueryKey, KeyLogRequestOf

LEMMA EffectInv ==
    ASSUME NEW v \in KeyLogViews, NEW last, KeyLogsEffect(v, last)
    PROVE  /\ keyLogView' = v /\ TableOf(keyLogTable', v)
           /\ keyLogRequest' \in {NoKeyRequest, KeyLogRequestOf(v)}
<1>1. EffectState(v, last) \in KeyLogStates
  BY DEF EffectState, KeyLogStates
<1> QED
  BY <1>1, KeyLogsConstants DEF KeyLogsEffect, TableOf, KeyLogStates

LEMMA RenderInv ==
    ASSUME KeyLogInv, NEW v \in KeyLogViews, NEW t, TableOf(t, keyLogView),
           NEW r \in {NoKeyRequest, KeyLogRequestOf(keyLogView)}, KeyLogsRender(v, t, r),
           keyLogKinds' \subseteq KeyLogKind
    PROVE  KeyLogInv'
<1>1. CASE EffectDependencies(v) = EffectDependencies(keyLogView)
  <2>1. KeyLogRequestOf(v) = KeyLogRequestOf(keyLogView)
    BY <1>1, SameDependencies
  <2> QED
    BY <1>1, <2>1 DEF KeyLogsRender, KeyLogInv, TableOf
<1>2. CASE EffectDependencies(v) # EffectDependencies(keyLogView)
  BY <1>2, EffectInv DEF KeyLogsRender, KeyLogInv
<1> QED
  BY <1>1, <1>2

LEMMA KeyLogStepInv == KeyLogInv /\ [KeyLogNext]_keyLogVars => KeyLogInv'
<1> SUFFICES ASSUME KeyLogInv, [KeyLogNext]_keyLogVars PROVE KeyLogInv'
  OBVIOUS
<1>1. /\ keyLogView \in KeyLogViews /\ keyLogKinds \in SUBSET KeyLogKind
      /\ keyLogView.selected \in SUBSET KeyLogKind /\ keyLogView.options \in SUBSET KeyLogKind
      /\ keyLogView.quick \in QuickFilter
  BY DEF KeyLogInv, KeyLogViews
<1>2. KeyLogKind \in SUBSET CanonicalKind /\ 1 \in 1 .. MaxKeyLogPage
  BY KeyLogsConstants
<1>3. ASSUME NEW v \in KeyLogViews, Control(v) PROVE KeyLogInv'
  BY <1>3, <1>1, RenderInv DEF Control, KeyLogInv
<1>4. ASSUME NEW w \in KeyLogWindow, KeyLogsWindow(w) PROVE KeyLogInv'
  <2>1. [keyLogView EXCEPT !.window = w] \in KeyLogViews
    BY <1>1 DEF KeyLogViews
  <2> QED
    BY <1>3, <1>4, <2>1 DEF KeyLogsWindow
<1>5. ASSUME NEW q \in KeyLogQuick, HandleKeyLogQuickFilters(q) PROVE KeyLogInv'
  <2>1. q \in QuickFilter /\ BuildQuickFilterSelection(keyLogView.options, q) \in SUBSET KeyLogKind
    BY <1>1, <1>2, QuickFilterSelects, KeyLogsConstants
  <2>2. [keyLogView EXCEPT !.quick = q, !.page = 1,
             !.selected = BuildQuickFilterSelection(keyLogView.options, q)] \in KeyLogViews
    BY <1>1, <1>2, <2>1 DEF KeyLogViews
  <2> QED
    BY <1>3, <1>5, <2>2 DEF HandleKeyLogQuickFilters
<1>6. ASSUME NEW k \in KeyLogKind, HandleToggleKeyLogKind(k) PROVE KeyLogInv'
  <2> DEFINE next == ToggleRequestKindSelection(KeyLogEffectiveKinds(keyLogView), k)
             quick == ResolveManualQuickFilters(next, keyLogView.quick,
                          KeyLogQuickSelection(keyLogView), keyLogView.options)
  <2>1. KeyLogEffectiveKinds(keyLogView) \in SUBSET KeyLogKind
    BY <1>1, <1>2, EffectiveSelects, QuickFilterSelects
    DEF KeyLogEffectiveKinds, KeyLogQuickSelection
  <2>2. next \in SUBSET KeyLogKind
    BY <1>2, <2>1, ToggleCanonical
  <2>3. quick \in QuickFilter
    BY <1>1, <1>2, <2>2, ManualQuickFilter DEF KeyLogQuickSelection
  <2>4. [keyLogView EXCEPT !.selected = next, !.page = 1, !.quick = quick] \in KeyLogViews
    BY <1>1, <1>2, <2>2, <2>3 DEF KeyLogViews
  <2> QED
    BY <1>3, <1>6, <2>4 DEF HandleToggleKeyLogKind
<1>7. CASE HandleClearKeyLogKinds
  <2>1. [keyLogView EXCEPT !.selected = {}, !.quick = DefaultQuickFilters, !.page = 1] \in KeyLogViews
    BY <1>1, <1>2 DEF KeyLogViews, DefaultQuickFilters, QuickFilter
  <2> QED
    BY <1>3, <1>7, <2>1 DEF HandleClearKeyLogKinds
<1>8. ASSUME NEW o \in KeyLogOutcome, HandleKeyLogOutcomeFilter(o) PROVE KeyLogInv'
  <2>1. [keyLogView EXCEPT !.outcome = o, !.page = 1] \in KeyLogViews
    BY <1>1, <1>2 DEF KeyLogViews
  <2> QED
    BY <1>3, <1>8, <2>1 DEF HandleKeyLogOutcomeFilter
<1>9. ASSUME NEW p \in 1 .. MaxKeyLogPage, GoKeyLogsPage(p) PROVE KeyLogInv'
  <2>1. [keyLogView EXCEPT !.page = p] \in KeyLogViews
    BY <1>1 DEF KeyLogViews
  <2> QED
    BY <1>3, <1>9, <2>1 DEF GoKeyLogsPage
<1>10. CASE ChangeKeyLogsPerPage
  <2>1. [keyLogView EXCEPT !.page = 1] \in KeyLogViews
    BY <1>1, <1>2 DEF KeyLogViews
  <2> QED
    BY <1>1, <1>10, <2>1, EffectInv DEF ChangeKeyLogsPerPage, KeyLogInv
<1>11. CASE LogsNonceGrows
  BY <1>1, <1>11, EffectInv DEF LogsNonceGrows, KeyLogInv
<1>12. ASSUME NEW n \in 1 .. MaxKeyLogPage, KeyLogsAnswered(n) PROVE KeyLogInv'
  <2> DEFINE v == [keyLogView EXCEPT !.options = keyLogKinds]
             t == [rows |-> keyLogRequest, state |-> "ready", pages |-> n,
                   last |-> LogsQueryKey(keyLogView)]
  <2>1. v \in KeyLogViews
    BY <1>1 DEF KeyLogViews
  <2>2. TableOf(t, keyLogView)
    BY DEF KeyLogInv, TableOf, KeyLogStates
  <2>3. KeyLogsRender(v, t, NoKeyRequest) /\ keyLogKinds' \subseteq KeyLogKind
    BY <1>1, <1>12 DEF KeyLogsAnswered
  <2> QED
    BY <2>1, <2>2, <2>3, RenderInv
<1>13. CASE KeyLogsFail
  BY <1>13 DEF KeyLogsFail, KeyLogInv, TableOf, KeyLogStates
<1>14. CASE ServerLogsKey
  BY <1>14 DEF ServerLogsKey, KeyLogInv
<1>15. CASE UNCHANGED keyLogVars
  BY <1>15 DEF keyLogVars, KeyLogInv
<1> QED
  BY <1>4, <1>5, <1>6, <1>7, <1>8, <1>9, <1>10, <1>11, <1>12, <1>13, <1>14, <1>15
  DEF KeyLogNext, KeyLogsSettle

------------------------------------------------------------------------------
(* The request records of a token (TokenLogs).                                *)

LogViews ==
    [window : LogWindow, quick : QuickFilter, selected : SUBSET LogKind,
     facet : LogFacet, page : 1 .. MaxLogPage, options : SUBSET LogKind]
LogStates == {"initial_loading", "switch_loading", "refreshing", "ready", "error"}
FirstPageBy == {"first", "refresh", "perPage"}

\* What was asked is what the view v asks for; after new options the kinds are those of the options.
AskedBy(r, v) ==
    /\ r.asked.window = v.window /\ r.asked.facet = v.facet
    /\ IF r.step = "page" THEN r.asked.kinds = LoadLogsPage(v).kinds
       ELSE r.asked.kinds = KindsUnder(v, r.under)

RowsOf(rows, v) ==
    \/ rows = NoRows
    \/ /\ rows.page \in 1 .. MaxLogPage
       /\ rows.asked.window = v.window /\ rows.asked.facet = v.facet
       /\ \/ rows.asked.kinds = LoadLogsPage(v).kinds
          \/ rows.moved /\ rows.asked.kinds = KindsUnder(v, rows.under)
       /\ rows.page = v.page \/ v.page = 1 \/ rows.beyond

LogTableOf(t, v) ==
    /\ t = [rows |-> t.rows, state |-> t.state, pages |-> t.pages, loaded |-> t.loaded]
    /\ t.state \in LogStates /\ t.pages \in 1 .. MaxLogPage /\ t.loaded \in BOOLEAN
    /\ RowsOf(t.rows, v)

\* The request on its way.  Only a first page is asked for by a page that is shown as the first.
RequestOf(r, v) ==
    \/ r = NoRequest
    \/ /\ r = [by |-> r.by, step |-> r.step, asked |-> r.asked, page |-> r.page, under |-> r.under]
       /\ r.by \in FirstPageBy \cup {"goto", "resync"} /\ r.page \in 1 .. MaxLogPage
       /\ AskedBy(r, v)
       /\ r.by \in FirstPageBy => r.step = "page" /\ r.page = 1 /\ v.page = 1

\* On page 1 the ticked kinds are those an active quick filter stands for.
PresetInForce(v) ==
    v.page = 1 /\ HasActiveQuickFilters(v.quick) => v.selected = QuickSelection(v)

TokenLogInv ==
    /\ logView \in LogViews /\ loggedKinds \in SUBSET LogKind
    /\ optionsRequest \in 0 .. MaxLogPage
    /\ LogTableOf(logTable, logView)
    /\ RequestOf(logsRequest, logView)
    /\ PresetInForce(logView)

LEMMA TokenLogFacts ==
    /\ LogKind \in SUBSET CanonicalKind /\ 1 \in 1 .. MaxLogPage /\ NoFacet \in LogFacet
    /\ DefaultQuickFilters \in QuickFilter /\ ~HasActiveQuickFilters(DefaultQuickFilters)
    /\ LogQuick \subseteq QuickFilter /\ MaxLogPage \in Nat
  BY TokenLogsConstants DEF DefaultQuickFilters, QuickFilter, HasActiveQuickFilters

LEMMA LogViewKinds ==
    ASSUME NEW v \in LogViews
    PROVE  /\ v.selected \in SUBSET CanonicalKind /\ v.options \in SUBSET CanonicalKind
           /\ v.options \in SUBSET LogKind /\ v.quick \in QuickFilter
           /\ QuickSelection(v) \in SUBSET LogKind
           /\ Effective(v) = IF HasActiveQuickFilters(v.quick) THEN QuickSelection(v) ELSE v.selected
           /\ Effective(v) \in SUBSET LogKind
<1>1. /\ v.selected \in SUBSET LogKind /\ v.options \in SUBSET LogKind
      /\ v.quick \in QuickFilter
  BY DEF LogViews
<1>2. v.selected \in SUBSET CanonicalKind /\ v.options \in SUBSET CanonicalKind
  BY <1>1, TokenLogFacts
<1>3. QuickSelection(v) \in SUBSET LogKind
  BY <1>1, <1>2, QuickFilterSelects DEF QuickSelection
<1>4. Effective(v) = IF HasActiveQuickFilters(v.quick) THEN QuickSelection(v) ELSE v.selected
  BY <1>2, EffectiveSelects DEF Effective, QuickSelection
<1> QED
  BY <1>1, <1>2, <1>3, <1>4

\* After a click on a kind the kinds in force are the old ones with that kind changed, and the
\* effect that keeps the preset has nothing to do.
LEMMA ToggleIsEffective ==
    ASSUME NEW v \in LogViews, NEW k \in LogKind
    PROVE  /\ AfterToggle(v, k) \in LogViews
           /\ Effective(PresetResync(AfterToggle(v, k))) = ToggleRequestKindSelection(Effective(v), k)
<1> DEFINE next == ToggleRequestKindSelection(Effective(v), k)
           q == ResolveManualQuickFilters(next, v.quick, QuickSelection(v), v.options)
           a == AfterToggle(v, k)
<1>1. next \in SUBSET LogKind /\ next \in SUBSET CanonicalKind
  <2>1. Effective(v) \in SUBSET CanonicalKind /\ k \in CanonicalKind
    BY LogViewKinds, TokenLogFacts
  <2>2. next = IF k \in Effective(v) THEN Effective(v) \ {k} ELSE Effective(v) \cup {k}
    BY <2>1, ToggleCanonical
  <2> QED
    BY <2>2, LogViewKinds, TokenLogFacts
<1>2. /\ q \in QuickFilter
      /\ ~HasActiveQuickFilters(q) \/ BuildQuickFilterSelection(v.options, q) = next
  BY <1>1, LogViewKinds, ManualQuickFilter DEF QuickSelection
<1>3. a = [v EXCEPT !.page = 1, !.selected = next, !.quick = q]
  BY DEF AfterToggle
<1> HIDE DEF next, q, a
<1>4. /\ a \in LogViews /\ a.options = v.options /\ a.quick = q /\ a.selected = next
  BY <1>1, <1>2, <1>3, TokenLogFacts DEF LogViews
<1>5. PresetResync(a) = a
  BY <1>2, <1>4 DEF PresetResync, QuickSelection
<1>6. Effective(a) = next
  BY <1>2, <1>4, LogViewKinds DEF QuickSelection
<1> QED
  BY <1>4, <1>5, <1>6 DEF a, next

LEMMA TokenLogInvImplies == TokenLogInv => TokenLogTypeOK /\ LogsOfFilters /\ TickedIsAsked
<1> SUFFICES ASSUME TokenLogInv PROVE TokenLogTypeOK /\ LogsOfFilters /\ TickedIsAsked
  OBVIOUS
<1>1. TickedIsAsked
  BY ToggleIsEffective DEF TickedIsAsked, TokenLogInv
<1>2. LogsOfFilters
  BY DEF TokenLogInv, LogTableOf, RowsOf, LogsOfFilters
<1>3. logTable.rows.page \in 0 .. MaxLogPage
  BY TokenLogFacts DEF TokenLogInv, LogTableOf, RowsOf, NoRows
<1>4. logsRequest.by \in {"first", "refresh", "perPage", "goto", "resync", "none"}
  BY DEF TokenLogInv, RequestOf, NoRequest, FirstPageBy
<1>5. TokenLogTypeOK
  BY <1>3, <1>4 DEF TokenLogInv, LogTableOf, LogViews, LogStates, TokenLogTypeOK
<1> QED
  BY <1>1, <1>2, <1>5

LEMMA TokenLogInitInv == TokenLogInit => TokenLogInv
<1> SUFFICES ASSUME TokenLogInit PROVE TokenLogInv
  OBVIOUS
<1>1. logView \in LogViews /\ logView.page = 1 /\ ~HasActiveQuickFilters(logView.quick)
  BY TokenLogFacts DEF TokenLogInit, LogViews
<1>2. LogTableOf(logTable, logView)
  BY TokenLogFacts DEF TokenLogInit, LogTableOf, LogStates, RowsOf
<1>3. RequestOf(logsRequest, logView)
  BY <1>1, TokenLogFacts DEF TokenLogInit, RequestOf, PageRequest, FirstPageBy, AskedBy, LoadLogsPage
<1>4. optionsRequest \in 0 .. MaxLogPage
  BY TokenLogFacts DEF TokenLogInit, NoOptions
<1> QED
  BY <1>1, <1>2, <1>3, <1>4 DEF TokenLogInit, TokenLogInv, PresetInForce

LEMMA ResyncInForce ==
    ASSUME NEW v \in LogViews
    PROVE  LET w == PresetResync(v)
           IN  /\ w \in LogViews /\ PresetInForce(w)
               /\ w.window = v.window /\ w.facet = v.facet /\ w.quick = v.quick
               /\ w.options = v.options /\ w.page = v.page
               /\ w = v \/ w.selected # v.selected
  BY LogViewKinds DEF LogViews, PresetResync, PresetInForce, QuickSelection

\* Two views with the same filters and options ask for the same.
LEMMA SameAsked ==
    ASSUME NEW v, NEW w, LogsQueryBaseKey(v) = LogsQueryBaseKey(w), v.options = w.options
    PROVE  LoadLogsPage(v) = LoadLogsPage(w)
  BY DEF LogsQueryBaseKey, LoadLogsPage, Effective, EmptyMatch, QuickSelection

\* Under given options the kinds depend on the filters alone.
LEMMA SameUnder ==
    ASSUME NEW v \in LogViews, NEW w \in LogViews, LogsQueryBaseKey(v) = LogsQueryBaseKey(w), NEW o
    PROVE  KindsUnder(v, o) = KindsUnder(w, o) /\ KindsUnder(w, w.options) = LoadLogsPage(w).kinds
<1> DEFINE a == [v EXCEPT !.options = o]
           b == [w EXCEPT !.options = o]
<1>1. LogsQueryBaseKey(a) = LogsQueryBaseKey(v) /\ a.options = o
  BY DEF LogViews, LogsQueryBaseKey
<1>2. LogsQueryBaseKey(b) = LogsQueryBaseKey(w) /\ b.options = o
  BY DEF LogViews, LogsQueryBaseKey
<1>3. LoadLogsPage(a) = LoadLogsPage(b)
  <2> HIDE DEF a, b
  <2> QED
    BY <1>1, <1>2, SameAsked
<1>4. [w EXCEPT !.options = w.options] = w
  BY DEF LogViews
<1> QED
  BY <1>3, <1>4 DEF KindsUnder

LEMMA FirstPageInv ==
    ASSUME TokenLogInv, NEW v \in LogViews, FirstPageEffect(v), loggedKinds' \in SUBSET LogKind
    PROVE  TokenLogInv'
<1> DEFINE u == [v EXCEPT !.page = 1]
           w == PresetResync(u)
<1>1. u \in LogViews /\ u.page = 1
  BY TokenLogFacts DEF LogViews
<1>2. w \in LogViews /\ w.page = 1 /\ PresetInForce(w)
  BY <1>1, ResyncInForce
<1>3. /\ logView' = w /\ optionsRequest' = 0
      /\ logTable' = [logTable EXCEPT !.rows = NoRows, !.state = BlockingState, !.pages = 1]
      /\ logsRequest' = PageRequest("first", LoadLogsPage(w), 1)
  BY DEF FirstPageEffect, NoOptions
<1> HIDE DEF w
<1>4. LogTableOf(logTable', w)
  BY <1>3, TokenLogFacts DEF TokenLogInv, LogTableOf, BlockingState, LogStates, RowsOf
<1>5. RequestOf(logsRequest', w)
  BY <1>2, <1>3, TokenLogFacts DEF RequestOf, PageRequest, FirstPageBy, AskedBy, LoadLogsPage
<1> QED
  BY <1>2, <1>3, <1>4, <1>5, TokenLogFacts DEF TokenLogInv

\* A render keeps the invariant if the table and the request it is given are of its view
\* whenever no new query begins.
LEMMA LogRenderInv ==
    ASSUME TokenLogInv, NEW v \in LogViews, NEW t, NEW r, NEW o \in 0 .. MaxLogPage, Render(v, t, r, o),
           LET w == PresetResync(v)
           IN  LogsQueryBaseKey(w) = LogsQueryBaseKey(logView) => LogTableOf(t, w) /\ RequestOf(r, w),
           loggedKinds' \in SUBSET LogKind
    PROVE  TokenLogInv'
<1> DEFINE w == PresetResync(v)
<1>1. w \in LogViews /\ PresetInForce(w)
  BY ResyncInForce
<1>2. CASE LogsQueryBaseKey(w) # LogsQueryBaseKey(logView)
  BY <1>1, <1>2, FirstPageInv DEF Render
<1>3. CASE LogsQueryBaseKey(w) = LogsQueryBaseKey(logView)
  BY <1>1, <1>3 DEF Render, TokenLogInv
<1> QED
  BY <1>2, <1>3

\* A control of the page changes the view, not the options, and leaves the page number or sets it to 1.
LEMMA ControlInv ==
    ASSUME TokenLogInv, NEW v \in LogViews, v.options = logView.options,
           v.page = logView.page \/ v.page = 1,
           Render(v, logTable, logsRequest, optionsRequest), UNCHANGED loggedKinds
    PROVE  TokenLogInv'
<1> DEFINE w == PresetResync(v)
<1>1. w.options = logView.options /\ w.page = v.page /\ w \in LogViews
  BY ResyncInForce
<1>2. ASSUME LogsQueryBaseKey(w) = LogsQueryBaseKey(logView)
      PROVE  LogTableOf(logTable, w) /\ RequestOf(logsRequest, w)
  <2>1. LoadLogsPage(w) = LoadLogsPage(logView) /\ w.window = logView.window /\ w.facet = logView.facet
    BY <1>1, <1>2, SameAsked DEF LogsQueryBaseKey
  <2>2. \A o : KindsUnder(w, o) = KindsUnder(logView, o)
    BY <1>1, <1>2, SameUnder DEF TokenLogInv
  <2> HIDE DEF w
  <2>3. LogTableOf(logTable, w)
    BY <1>1, <2>1, <2>2 DEF TokenLogInv, LogTableOf, RowsOf
  <2>4. RequestOf(logsRequest, w)
    BY <1>1, <2>1, <2>2 DEF TokenLogInv, RequestOf, AskedBy
  <2> QED
    BY <2>3, <2>4
<1> QED
  BY <1>2, LogRenderInv DEF TokenLogInv

\* The rows of the answered request r under the view v its options make.
LEMMA AnswerInv ==
    ASSUME TokenLogInv, NEW v \in LogViews, v.options = loggedKinds,
           NEW r, RequestOf(r, logView), r # NoRequest,
           NEW n \in 1 .. MaxLogPage,
           LET w == PresetResync(v)
           IN  LogsQueryBaseKey(w) = LogsQueryBaseKey(logView) =>
                  /\ r.step = "page" => r.asked.kinds = LoadLogsPage(w).kinds
                  /\ r.page = w.page \/ r.page > n,
           Render(v, Loaded(Rows(r, n), n), NoRequest, optionsRequest), UNCHANGED loggedKinds
    PROVE  TokenLogInv'
<1> DEFINE w == PresetResync(v)
           t == Loaded(Rows(r, n), n)
<1>1. ASSUME LogsQueryBaseKey(w) = LogsQueryBaseKey(logView)
      PROVE  LogTableOf(t, w) /\ RequestOf(NoRequest, w)
  <2>1. /\ r.page = w.page \/ r.page > n
        /\ r.step = "page" => r.asked.kinds = LoadLogsPage(w).kinds
        /\ w.window = logView.window /\ w.facet = logView.facet
    BY <1>1 DEF LogsQueryBaseKey
  <2>2. w \in LogViews /\ w.options = loggedKinds
    BY ResyncInForce
  <2> HIDE DEF w
  <2>3. KindsUnder(w, r.under) = KindsUnder(logView, r.under)
    BY <1>1, <2>2, SameUnder DEF TokenLogInv
  <2>4. KindsUnder(w, loggedKinds) = LoadLogsPage(w).kinds
    BY <2>2, SameUnder
  <2>5. /\ r.asked.window = w.window /\ r.asked.facet = w.facet /\ r.page \in 1 .. MaxLogPage
        /\ r.step # "page" => r.asked.kinds = KindsUnder(w, r.under)
    BY <2>1, <2>3 DEF RequestOf, AskedBy
  <2> DEFINE rows == Rows(r, n)
  <2>6. /\ rows.page = r.page /\ rows.asked = r.asked /\ rows.under = r.under
        /\ rows.beyond = (r.page > n) /\ rows.moved = (r.step # "page" /\ r.under # loggedKinds)
    BY DEF Rows
  <2> HIDE DEF rows
  <2>7. rows.asked.kinds = LoadLogsPage(w).kinds \/ (rows.moved /\ rows.asked.kinds = KindsUnder(w, rows.under))
    <3>1. CASE r.step = "page"
      BY <2>1, <2>6, <3>1
    <3>2. CASE r.step # "page" /\ r.under # loggedKinds
      <4>1. rows.moved
        BY <2>6, <3>2
      <4> QED
        BY <2>5, <2>6, <3>2, <4>1
    <3>3. CASE r.step # "page" /\ r.under = loggedKinds
      BY <2>4, <2>5, <2>6, <3>3
    <3> QED
      BY <3>1, <3>2, <3>3
  <2>8. RowsOf(rows, w)
    BY <2>1, <2>5, <2>6, <2>7 DEF RowsOf
  <2>9. LogTableOf(Loaded(rows, n), w)
    BY <2>8 DEF LogTableOf, Loaded, LogStates
  <2> QED
    BY <2>9 DEF rows, RequestOf
<1> QED
  BY <1>1, LogRenderInv DEF TokenLogInv

\* New options that do not change the selection ask for the same.
LEMMA UnchangedOptions ==
    ASSUME NEW v \in LogViews, NEW options \in SUBSET LogKind,
           ~ResolveOptionsRefresh(options, v.selected, v.quick, Effective(v), EmptyMatch(v)).changed
    PROVE  LET u == [v EXCEPT !.options = options]
           IN  /\ u \in LogViews
               /\ LoadLogsPage(u) = LoadLogsPage(v)
               /\ HasActiveQuickFilters(v.quick) => QuickSelection(u) = QuickSelection(v)
<1> DEFINE u == [v EXCEPT !.options = options]
<1>1. u \in LogViews /\ u.quick = v.quick /\ u.selected = v.selected /\ u.options = options
      /\ u.window = v.window /\ u.facet = v.facet
  BY DEF LogViews
<1> HIDE DEF u
<1>2. /\ RequestKindSelectionsMatch(Effective(u), Effective(v))
      /\ EmptyMatch(u) = EmptyMatch(v)
  BY <1>1 DEF ResolveOptionsRefresh, Effective, EmptyMatch, QuickSelection
<1>3. Effective(u) \in SUBSET CanonicalKind /\ Effective(v) \in SUBSET CanonicalKind
  BY <1>1, LogViewKinds, TokenLogFacts
<1>4. Effective(u) = Effective(v)
  BY <1>2, <1>3, UniqueOfCanonical DEF RequestKindSelectionsMatch
<1>5. HasActiveQuickFilters(v.quick) => QuickSelection(u) = QuickSelection(v)
  BY <1>1, <1>4, LogViewKinds
<1>6. LoadLogsPage(u) = LoadLogsPage(v)
  BY <1>1, <1>2, <1>4 DEF LoadLogsPage
<1> QED
  BY <1>1, <1>5, <1>6 DEF u

\* What new options give is what the view would ask for under them.
LEMMA RefreshedKinds ==
    ASSUME logView \in LogViews, NEW options
    PROVE  KindsAsked(Refreshed(options).effective, Refreshed(options).emptyMatch) = KindsUnder(logView, options)
  BY DEF LogViews, KindsUnder, LoadLogsPage, Refreshed, ResolveOptionsRefresh, Effective, EmptyMatch, QuickSelection

LEMMA TokenLogStepInv == TokenLogInv /\ [TokenLogNext]_tokenLogVars => TokenLogInv'
<1> SUFFICES ASSUME TokenLogInv, [TokenLogNext]_tokenLogVars PROVE TokenLogInv'
  OBVIOUS
<1>1. logView \in LogViews /\ loggedKinds \in SUBSET LogKind
      /\ optionsRequest \in 0 .. MaxLogPage
  BY DEF TokenLogInv
<1>2. ASSUME NEW w \in LogWindow, ChangeWindow(w) PROVE TokenLogInv'
  <2> DEFINE v == [logView EXCEPT !.window = w]
  <2>1. v \in LogViews /\ v.options = logView.options /\ v.page = logView.page
    BY <1>1 DEF LogViews
  <2> QED
    BY <1>2, <2>1, ControlInv DEF ChangeWindow
<1>3. ASSUME NEW q \in LogQuick, ApplyRequestKindQuickFilters(q) PROVE TokenLogInv'
  <2> DEFINE S == BuildQuickFilterSelection(logView.options, q)
             v == [logView EXCEPT !.quick = q, !.page = 1, !.selected = S]
  <2>1. S \in SUBSET LogKind /\ q \in QuickFilter
    BY <1>1, LogViewKinds, QuickFilterSelects, TokenLogFacts
  <2>2. v \in LogViews /\ v.options = logView.options /\ v.page = 1
    BY <1>1, <2>1, TokenLogFacts DEF LogViews
  <2> QED
    BY <1>3, <2>2, ControlInv DEF ApplyRequestKindQuickFilters
<1>4. ASSUME NEW k \in LogKind, HandleToggleRequestKind(k) PROVE TokenLogInv'
  <2>1. AfterToggle(logView, k) \in LogViews
    BY <1>1, ToggleIsEffective
  <2>2. AfterToggle(logView, k).options = logView.options /\ AfterToggle(logView, k).page = 1
    BY <1>1 DEF AfterToggle, LogViews
  <2> QED
    BY <1>4, <2>1, <2>2, ControlInv DEF HandleToggleRequestKind
<1>5. CASE HandleClearRequestKinds
  <2> DEFINE v == [logView EXCEPT !.selected = {}, !.quick = DefaultQuickFilters, !.page = 1]
  <2>1. v \in LogViews /\ v.options = logView.options /\ v.page = 1
    BY <1>1, TokenLogFacts DEF LogViews
  <2> QED
    BY <1>5, <2>1, ControlInv DEF HandleClearRequestKinds
<1>6. ASSUME NEW f \in LogFacet, HandleFacetChange(f) PROVE TokenLogInv'
  <2> DEFINE v == [logView EXCEPT !.facet = f, !.page = 1]
  <2>1. v \in LogViews /\ v.options = logView.options /\ v.page = 1
    BY <1>1, TokenLogFacts DEF LogViews
  <2> QED
    BY <1>6, <2>1, ControlInv DEF HandleFacetChange
<1>7. ASSUME NEW p \in 1 .. MaxLogPage, NEW by \in {"goto", "perPage"}, by = "perPage" => p = 1,
             Render([logView EXCEPT !.page = p],
                    [logTable EXCEPT !.rows = NoRows, !.state = BlockingState],
                    PageRequest(by, LoadLogsPage([logView EXCEPT !.page = p]), p), NoOptions),
             UNCHANGED loggedKinds
      PROVE  TokenLogInv'
  <2> DEFINE v == [logView EXCEPT !.page = p]
             t == [logTable EXCEPT !.rows = NoRows, !.state = BlockingState]
             r == PageRequest(by, LoadLogsPage(v), p)
  <2>1. v \in LogViews /\ v.page = p /\ LogsQueryBaseKey(v) = LogsQueryBaseKey(logView)
    BY <1>1 DEF LogViews, LogsQueryBaseKey
  <2>2. LogTableOf(t, v)
    <3> HIDE DEF v
    <3> SUFFICES ASSUME NEW x, x = [logTable EXCEPT !.rows = NoRows, !.state = BlockingState]
                 PROVE  LogTableOf(x, v)
      OBVIOUS
    <3> QED
      BY DEF TokenLogInv, LogTableOf, BlockingState, LogStates, RowsOf
  <2>3. RequestOf(r, v)
    BY <1>7, <2>1 DEF RequestOf, PageRequest, FirstPageBy, AskedBy, LoadLogsPage
  <2>4. LogsQueryBaseKey(PresetResync(v)) = LogsQueryBaseKey(logView) => PresetResync(v) = v
    BY <2>1, ResyncInForce DEF LogsQueryBaseKey
  <2> HIDE DEF v, t, r
  <2>5. Render(v, t, r, 0) /\ loggedKinds' \in SUBSET LogKind /\ 0 \in 0 .. MaxLogPage
    BY <1>1, <1>7, TokenLogFacts DEF v, t, r, NoOptions
  <2> QED
    BY <2>1, <2>2, <2>3, <2>4, <2>5, LogRenderInv
<1>8. ASSUME NEW p \in 1 .. MaxLogPage, GoToPage(p) PROVE TokenLogInv'
  BY <1>7, <1>8 DEF GoToPage
<1>9. CASE ChangePerPage
  BY <1>7, <1>9, TokenLogFacts DEF ChangePerPage
<1>10. ASSUME NEW n \in 1 .. MaxLogPage, FirstPageAnswered(n) PROVE TokenLogInv'
  <2> DEFINE v == [logView EXCEPT !.page = 1, !.options = loggedKinds]
             w == PresetResync(v)
  <2>1. /\ logsRequest # NoRequest /\ RequestOf(logsRequest, logView)
        /\ logsRequest.step = "page" /\ logsRequest.page = 1 /\ logView.page = 1
    BY <1>10 DEF FirstPageAnswered, TokenLogInv, RequestOf, NoRequest, FirstPageBy
  <2>2. v \in LogViews /\ v.page = 1 /\ v.options = loggedKinds
    BY <1>1, TokenLogFacts DEF LogViews
  <2>3. /\ w \in LogViews /\ w.page = 1 /\ PresetInForce(w)
    BY <2>2, ResyncInForce
  <2>4. ASSUME LogsQueryBaseKey(w) = LogsQueryBaseKey(logView)
        PROVE  logsRequest.asked.kinds = LoadLogsPage(w).kinds
    <3>1. /\ w.window = logView.window /\ w.facet = logView.facet /\ w.quick = logView.quick
          /\ w.selected = logView.selected
      BY <2>4 DEF LogsQueryBaseKey
    <3>2. HasActiveQuickFilters(logView.quick) => QuickSelection(w) = QuickSelection(logView)
      BY <2>1, <2>3, <3>1 DEF TokenLogInv, PresetInForce
    <3>3. Effective(w) = Effective(logView) /\ EmptyMatch(w) = EmptyMatch(logView)
      BY <1>1, <2>3, <3>1, <3>2, LogViewKinds DEF EmptyMatch
    <3>4. LoadLogsPage(w).kinds = LoadLogsPage(logView).kinds
      BY <3>3 DEF LoadLogsPage
    <3> QED
      BY <2>1, <3>1, <3>4 DEF RequestOf, AskedBy
  <2> HIDE DEF v
  <2>5. Render(v, Loaded(Rows(logsRequest, n), n), NoRequest, optionsRequest) /\ UNCHANGED loggedKinds
    BY <1>10 DEF FirstPageAnswered, v
  <2> QED
    BY <2>1, <2>2, <2>3, <2>4, <2>5, AnswerInv
<1>11. ASSUME NEW n \in 1 .. MaxLogPage, LaterPageAnswered(n) PROVE TokenLogInv'
  <2> DEFINE ref == Refreshed(loggedKinds)
  <2>1. /\ RequestOf(logsRequest, logView) /\ logsRequest # NoRequest
        /\ logsRequest.page \in 1 .. MaxLogPage /\ logsRequest.step = "page"
    BY <1>11 DEF LaterPageAnswered, TokenLogInv, RequestOf, NoRequest
  <2>2. CASE ref.changed
    <3>1. RequestOf(logsRequest', logView)
      BY <1>1, <1>11, <2>1, <2>2, RefreshedKinds
      DEF LaterPageAnswered, RequestOf, SelectionRequest, FirstPageBy, AskedBy, LoadLogsPageForSelection
    <3> QED
      BY <1>11, <2>2, <3>1 DEF LaterPageAnswered, TokenLogInv
  <2>3. CASE ~ref.changed
    <3> DEFINE u == [logView EXCEPT !.options = loggedKinds]
               v == [logView EXCEPT !.page = logsRequest.page, !.options = loggedKinds]
               w == PresetResync(v)
    <3>1. u \in LogViews /\ LoadLogsPage(u) = LoadLogsPage(logView)
      BY <1>1, <2>3, UnchangedOptions DEF Refreshed
    <3>2. /\ v \in LogViews /\ v.page = logsRequest.page
          /\ LogsQueryBaseKey(v) = LogsQueryBaseKey(u) /\ v.options = u.options
          /\ LogsQueryBaseKey(v) = LogsQueryBaseKey(logView)
      BY <1>1, <2>1 DEF LogViews, LogsQueryBaseKey
    <3>3. LoadLogsPage(v) = LoadLogsPage(logView)
      BY <3>1, <3>2, SameAsked
    <3>4. logsRequest.asked.kinds = LoadLogsPage(v).kinds /\ v.options = loggedKinds
      BY <1>1, <2>1, <3>3 DEF RequestOf, AskedBy, LogViews
    <3>5. LogsQueryBaseKey(w) = LogsQueryBaseKey(logView) => w = v
      BY <3>2, ResyncInForce DEF LogsQueryBaseKey
    <3>6. Render(v, Loaded(Rows(logsRequest, n), n), NoRequest, optionsRequest) /\ UNCHANGED loggedKinds
      BY <1>11, <2>3 DEF LaterPageAnswered
    <3> HIDE DEF v
    <3> QED
      BY <2>1, <3>2, <3>4, <3>5, <3>6, AnswerInv
  <2> QED
    BY <2>2, <2>3
<1>12. ASSUME NEW n \in 1 .. MaxLogPage, SelectionAnswered(n) PROVE TokenLogInv'
  <2>1. /\ RequestOf(logsRequest, logView) /\ logsRequest # NoRequest
        /\ logsRequest.page \in 1 .. MaxLogPage /\ logsRequest.step \in {"selection", "clamped"}
    BY <1>12 DEF SelectionAnswered, TokenLogInv, RequestOf, NoRequest
  <2>2. CASE logsRequest.step = "selection" /\ n < logsRequest.page
    <3>1. RequestOf(logsRequest', logView)
      BY <1>12, <2>1, <2>2 DEF SelectionAnswered, RequestOf, FirstPageBy, AskedBy
    <3> QED
      BY <1>12, <2>2, <3>1 DEF SelectionAnswered, TokenLogInv
  <2>3. CASE ~(logsRequest.step = "selection" /\ n < logsRequest.page)
    <3> DEFINE v == [logView EXCEPT !.page = Clamp(logsRequest.page, n), !.options = loggedKinds]
               w == PresetResync(v)
    <3>1. /\ v \in LogViews /\ v.page = Clamp(logsRequest.page, n) /\ v.options = loggedKinds
      BY <1>1, <2>1 DEF LogViews, Clamp
    <3>2. w.page = v.page
      BY <3>1, ResyncInForce
    <3> HIDE DEF v, w
    <3>4. logsRequest.step # "page"
      BY <2>1
    <3>5. logsRequest.page = w.page \/ logsRequest.page > n
      BY <2>1, <3>1, <3>2 DEF Clamp
    <3>6. Render(v, Loaded(Rows(logsRequest, n), n), NoRequest, optionsRequest) /\ UNCHANGED loggedKinds
      BY <1>12, <2>3 DEF SelectionAnswered, v
    <3> QED
      BY <2>1, <3>1, <3>4, <3>5, <3>6, AnswerInv DEF w
  <2> QED
    BY <2>2, <2>3
<1>13. CASE LogsFail
  <2>1. LogTableOf(logTable', logView)
    BY <1>13 DEF LogsFail, TokenLogInv, LogTableOf, LogStates
  <2> QED
    BY <1>13, <2>1 DEF LogsFail, TokenLogInv, RequestOf
<1>14. CASE RefreshLogs
  <2>1. LogTableOf(logTable', logView)
    BY <1>14 DEF RefreshLogs, TokenLogInv, LogTableOf, LogStates, RefreshingState
  <2>2. RequestOf(logsRequest', logView)
    BY <1>14, TokenLogFacts DEF RefreshLogs, RequestOf, PageRequest, FirstPageBy, AskedBy, LoadLogsPage
  <2> QED
    BY <1>14, <2>1, <2>2, TokenLogFacts DEF RefreshLogs, TokenLogInv, NoOptions
<1>15. CASE RefreshRequestKindOptions
  <2>1. logView.page \in 0 .. MaxLogPage
    BY <1>1, TokenLogFacts DEF LogViews
  <2> QED
    BY <1>15, <2>1 DEF RefreshRequestKindOptions, TokenLogInv
<1>16. ASSUME NEW n \in 1 .. MaxLogPage, OptionsAnswered(n) PROVE TokenLogInv'
  <2>1. CASE Refreshed(loggedKinds).changed
    <3>1. LogTableOf(logTable', logView)
      BY <1>16, <2>1 DEF OptionsAnswered, TokenLogInv, LogTableOf, LogStates, RefreshingState
    <3>2. RequestOf(logsRequest', logView)
      <4>1. optionsRequest \in 1 .. MaxLogPage
        BY <1>1, <1>16, TokenLogFacts DEF OptionsAnswered, NoOptions
      <4> QED
        BY <1>1, <1>16, <2>1, <4>1, RefreshedKinds
        DEF OptionsAnswered, RequestOf, SelectionRequest, FirstPageBy, AskedBy, LoadLogsPageForSelection
    <3> QED
      BY <1>16, <2>1, <3>1, <3>2, TokenLogFacts DEF OptionsAnswered, TokenLogInv, NoOptions
  <2>2. CASE ~Refreshed(loggedKinds).changed
    <3> DEFINE u == [logView EXCEPT !.options = loggedKinds]
    <3>1. /\ u \in LogViews /\ LoadLogsPage(u) = LoadLogsPage(logView)
          /\ HasActiveQuickFilters(logView.quick) => QuickSelection(u) = QuickSelection(logView)
      BY <1>1, <2>2, UnchangedOptions DEF Refreshed
    <3>2. /\ u.window = logView.window /\ u.facet = logView.facet /\ u.quick = logView.quick
          /\ u.page = logView.page /\ u.selected = logView.selected
      BY <1>1 DEF LogViews
    <3>3. /\ logView' = u /\ logTable' = [logTable EXCEPT !.pages = n] /\ optionsRequest' = 0
          /\ UNCHANGED <<logsRequest, loggedKinds>>
      BY <1>16, <2>2 DEF OptionsAnswered, NoOptions
    <3>u. \A o : KindsUnder(u, o) = KindsUnder(logView, o)
      BY <1>1, <3>1, <3>2, SameUnder DEF LogsQueryBaseKey
    <3> HIDE DEF u
    <3>4. LogTableOf(logTable', u)
      BY <3>1, <3>2, <3>3, <3>u DEF TokenLogInv, LogTableOf, LogStates, RowsOf
    <3>5. RequestOf(logsRequest', u)
      BY <3>1, <3>2, <3>3, <3>u DEF TokenLogInv, RequestOf, AskedBy
    <3> QED
      BY <3>1, <3>2, <3>3, <3>4, <3>5, TokenLogFacts DEF TokenLogInv, PresetInForce
  <2> QED
    BY <2>1, <2>2
<1>17. CASE OptionsFail
  BY <1>17, TokenLogFacts DEF OptionsFail, TokenLogInv, NoOptions
<1>18. CASE ServerLogs
  BY <1>18 DEF ServerLogs, TokenLogInv
<1>19. CASE UNCHANGED tokenLogVars
  BY <1>19 DEF tokenLogVars, TokenLogInv
<1> QED
  BY <1>2, <1>3, <1>4, <1>5, <1>6, <1>8, <1>9, <1>10, <1>11, <1>12, <1>13, <1>14, <1>15, <1>16,
     <1>17, <1>18, <1>19 DEF TokenLogNext, LogsAnswered

------------------------------------------------------------------------------
(* The usage of a token (TokenUsage).                                         *)

\* What is shown, or will be, is of the window in force.
UsageFollowsWindow ==
    LET chart == charts["snapshot"]
    IN  /\ summaryShown \in {ShownWindow, NoWindow}
        /\ summaryLoad.asked \in {ShownWindow, NoWindow}
        /\ chart.asked \in {ShownWindow, NoWindow}
        /\ ~chart.loading => chart.shown \in {ShownWindow, NoWindow}

UsageInv == UsageTypeOK /\ UsageFollowsWindow

LEMMA UsageInvImplies == UsageInv => UsageOfWindow
  BY DEF UsageInv, UsageFollowsWindow, UsageOfWindow, SummaryCards, ChartRegion

LEMMA WindowsOfInputs ==
    ASSUME NEW p \in UsagePeriod, NEW input \in StartInput
    PROVE  WindowOf(p, input) \in UsageWindow
<1>1. input.start \in {"now", "past"}
  BY DEF StartInput, NoInput
<1> QED
  BY <1>1 DEF WindowOf, ComputeStart, UsageWindow

LEMMA UsageInitInv == UsageInit => UsageInv
<1> SUFFICES ASSUME UsageInit PROVE UsageInv
  OBVIOUS
<1>1. /\ NoInput \in StartInput /\ DefaultInputValue("month") \in StartInput
      /\ WindowOf("month", NoInput) \in UsageWindow
  BY UsagePeriods, WindowsOfInputs DEF StartInput, NoInput, DefaultInputValue
<1>2. UsageTypeOK
  <2>1. charts \in [Chart -> [shown : ChartWindow, loading : BOOLEAN, asked : ChartWindow]]
    BY <1>1 DEF UsageInit, ChartWindow
  <2>2. summaryLoad \in [state : {"initial_loading", "switch_loading", "ready", "error"},
                         loaded : BOOLEAN, asked : UsageWindow \cup {NoWindow}]
    BY <1>1 DEF UsageInit
  <2>3. {startTimer, startWarning, infoShown, usageStream} \subseteq BOOLEAN
    BY Zenon DEF UsageInit
  <2> QED
    BY <1>1, <2>1, <2>2, <2>3, UsagePeriods DEF UsageInit, UsageTypeOK
<1>3. UsageFollowsWindow
  BY DEF UsageInit, UsageFollowsWindow, ShownWindow, Chart
<1> QED
  BY <1>2, <1>3 DEF UsageInv

\* A new period or start: the requests before are dropped with what they showed.
LEMMA RewindowInv ==
    ASSUME UsageInv, NEW p \in UsagePeriod, NEW input \in StartInput, Rewindow(p, input),
           usagePeriod' = p, startApplied' = input
    PROVE  /\ UsageFollowsWindow'
           /\ summaryShown' \in UsageWindow \cup {NoWindow}
           /\ summaryLoad' \in [state : {"initial_loading", "switch_loading", "ready", "error"},
                               loaded : BOOLEAN, asked : UsageWindow \cup {NoWindow}]
           /\ charts' \in [Chart -> [shown : ChartWindow, loading : BOOLEAN, asked : ChartWindow]]
<1>1. ShownWindow' = WindowOf(p, input) /\ WindowOf(p, input) \in UsageWindow
  BY WindowsOfInputs DEF ShownWindow
<1>2. CASE WindowOf(p, input) = ShownWindow
  BY <1>1, <1>2 DEF Rewindow, UsageInv, UsageTypeOK, UsageFollowsWindow
<1>3. CASE WindowOf(p, input) # ShownWindow
  <2> DEFINE w == WindowOf(p, input)
  <2> HIDE DEF w
  <2>1. w \in UsageWindow /\ ShownWindow' = w /\ WindowEffects(w)
    BY <1>1, <1>3 DEF Rewindow, w
  <2>2. /\ charts' \in [Chart -> [shown : ChartWindow, loading : BOOLEAN, asked : ChartWindow]]
        /\ charts'["snapshot"].loading = TRUE /\ charts'["snapshot"].asked = w
    BY <2>1 DEF WindowEffects, RefreshSnapshotUsage, RefreshChart, UsageInv, UsageTypeOK, ChartWindow,
       Chart
  <2> QED
    BY <2>1, <2>2 DEF WindowEffects, UsageInv, UsageTypeOK, UsageFollowsWindow
<1> QED
  BY <1>2, <1>3

LEMMA UsageStepInv == UsageInv /\ [UsageNext]_usageVars => UsageInv'
<1> SUFFICES ASSUME UsageInv, [UsageNext]_usageVars PROVE UsageInv'
  OBVIOUS
<1>1. ASSUME NEW start \in {"past", "now", "future"}, HandleStartChange(start) PROVE UsageInv'
  BY <1>1 DEF HandleStartChange, SetStartInput, SanitizeInput, UsageInv, UsageTypeOK,
     UsageFollowsWindow, ShownWindow, StartInput
<1>2. ASSUME NEW p \in UsagePeriod, SetPeriod(p) PROVE UsageInv'
  <2>1. startApplied \in StartInput /\ DefaultInputValue(p) \in StartInput
    BY DEF UsageInv, UsageTypeOK, DefaultInputValue, StartInput
  <2>2. /\ UsageFollowsWindow'
        /\ summaryShown' \in UsageWindow \cup {NoWindow}
        /\ summaryLoad' \in [state : {"initial_loading", "switch_loading", "ready", "error"},
                            loaded : BOOLEAN, asked : UsageWindow \cup {NoWindow}]
        /\ charts' \in [Chart -> [shown : ChartWindow, loading : BOOLEAN, asked : ChartWindow]]
    BY <1>2, <2>1, RewindowInv DEF SetPeriod
  <2> QED
    BY <1>2, <2>1, <2>2 DEF SetPeriod, SetStartInput, UsageInv, UsageTypeOK
<1>3. CASE ApplyStart
  <2>1. startInput \in StartInput /\ usagePeriod \in UsagePeriod
    BY DEF UsageInv, UsageTypeOK
  <2>2. /\ UsageFollowsWindow'
        /\ summaryShown' \in UsageWindow \cup {NoWindow}
        /\ summaryLoad' \in [state : {"initial_loading", "switch_loading", "ready", "error"},
                            loaded : BOOLEAN, asked : UsageWindow \cup {NoWindow}]
        /\ charts' \in [Chart -> [shown : ChartWindow, loading : BOOLEAN, asked : ChartWindow]]
    BY <1>3, <2>1, RewindowInv DEF ApplyStart
  <2> QED
    BY <1>3, <2>1, <2>2 DEF ApplyStart, UsageInv, UsageTypeOK
<1>4. CASE WarningExpires
  BY <1>4 DEF WarningExpires, UsageInv, UsageTypeOK, UsageFollowsWindow, ShownWindow
<1>5. ASSUME NEW ok \in BOOLEAN, DetailAnswered(ok) PROVE UsageInv'
  BY <1>5 DEF DetailAnswered, inputVars, UsageInv, UsageTypeOK, UsageFollowsWindow, ShownWindow
<1>6. ASSUME NEW c \in Chart, NEW ok \in BOOLEAN, ChartAnswered(c, ok) PROVE UsageInv'
  <2>1. charts' \in [Chart -> [shown : ChartWindow, loading : BOOLEAN, asked : ChartWindow]]
    BY <1>6 DEF ChartAnswered, UsageInv, UsageTypeOK, ChartWindow
  <2>2. charts'["snapshot"].asked \in {ShownWindow, NoWindow}
    BY <1>6 DEF ChartAnswered, UsageInv, UsageTypeOK, UsageFollowsWindow, Chart
  <2>3. ~charts'["snapshot"].loading => charts'["snapshot"].shown \in {ShownWindow, NoWindow}
    BY <1>6 DEF ChartAnswered, UsageInv, UsageTypeOK, UsageFollowsWindow, Chart
  <2> QED
    BY <1>6, <2>1, <2>2, <2>3 DEF ChartAnswered, inputVars, UsageInv, UsageTypeOK,
       UsageFollowsWindow, ShownWindow
<1>7. ASSUME NEW ok \in BOOLEAN, InfoRefreshed(ok) PROVE UsageInv'
  BY <1>7 DEF InfoRefreshed, inputVars, UsageInv, UsageTypeOK, UsageFollowsWindow, ShownWindow
<1>8. CASE UsageSnapshot
  <2>1. ShownWindow \in UsageWindow /\ ShownWindow' = ShownWindow
    BY <1>8, WindowsOfInputs DEF UsageSnapshot, ShownWindow, UsageInv, UsageTypeOK
  <2>2. IsMonthView => WindowOf("month", NoInput) = ShownWindow
    BY DEF IsMonthView, ShownWindow, WindowOf, ComputeStart, NoInput, DefaultInputValue
  <2>3. charts' \in [Chart -> [shown : ChartWindow, loading : BOOLEAN, asked : ChartWindow]]
    BY <1>8, <2>1 DEF UsageSnapshot, RefreshQuickUsage, RefreshSnapshotUsage, RefreshChart, UsageInv,
       UsageTypeOK, Chart, ChartWindow
  <2>4. charts'["snapshot"].loading = TRUE /\ charts'["snapshot"].asked = ShownWindow
    BY <1>8 DEF UsageSnapshot, RefreshQuickUsage, RefreshSnapshotUsage, RefreshChart, UsageInv,
       UsageTypeOK, Chart, ChartWindow
  <2>5. /\ summaryShown' \in {ShownWindow, NoWindow}
        /\ summaryLoad' \in [state : {"initial_loading", "switch_loading", "ready", "error"},
                            loaded : BOOLEAN, asked : UsageWindow \cup {NoWindow}]
        /\ summaryLoad'.asked \in {ShownWindow, NoWindow}
    BY <1>8, <2>2 DEF UsageSnapshot, UsageInv, UsageTypeOK, UsageFollowsWindow
  <2> QED
    BY <1>8, <2>1, <2>3, <2>4, <2>5 DEF UsageSnapshot, inputVars, UsageInv, UsageTypeOK,
       UsageFollowsWindow
<1>9. CASE StreamChanges
  BY <1>9 DEF StreamChanges, inputVars, UsageInv, UsageTypeOK, UsageFollowsWindow, ShownWindow
<1>10. CASE UNCHANGED usageVars
  BY <1>10 DEF usageVars, UsageInv, UsageTypeOK, UsageFollowsWindow, ShownWindow
<1> QED
  BY <1>1, <1>2, <1>3, <1>4, <1>5, <1>6, <1>7, <1>8, <1>9, <1>10
  DEF UsageNext, DetailSettles, ChartSettles

------------------------------------------------------------------------------
(* The page of a key (KeyDetails).                                            *)

KeyViews == [window : KeyWindow, page : 1 .. StickyPages]
PanelStates == {"initial_loading", "switch_loading", "refreshing", "ready", "error"}

\* Rows or a request x of panel p answer the view v, or the click of an operation before it.
AnswersView(x, p, v) ==
    \/ x = Nothing
    \/ /\ x.query \in PanelQuery
       /\ x.query = QueryOf(v, p) \/ x.by = "click"

PanelFits(c, p, v) ==
    /\ c = [rows |-> c.rows, state |-> c.state, last |-> c.last, request |-> c.request]
    /\ c.state \in PanelStates
    /\ AnswersView(c.rows, p, v) /\ AnswersView(c.request, p, v)
    /\ c.rows # Nothing => c.last = c.rows.query
    /\ c.last = NoLoad \/ c.last \in PanelQuery

RunFits(r) ==
    /\ r = [step |-> r.step, asks |-> r.asks, awaits |-> r.awaits]
    /\ r.step \in {"idle", "server", "reload"}
    /\ r.step = "server" => \A p \in Panel : r.asks[p] \in PanelQuery

KeyShape ==
    /\ keyView \in KeyViews
    /\ panel = [p \in Panel |-> panel[p]] /\ \A p \in Panel : PanelFits(panel[p], p, keyView)
    /\ keyRecord \in [shown : {"none", "quarantined", "clear"}, maybe : SUBSET {"quarantined", "clear"}]
    /\ keyRun = [o \in KeyOperation |-> keyRun[o]] /\ \A o \in KeyOperation : RunFits(keyRun[o])
    /\ syncFeedback \in [state : {"idle", "syncing", "success"}, timer : BOOLEAN]
    /\ keyError \in BOOLEAN /\ quarantined \in BOOLEAN

\* The record is shown with the rows of the summary.
RecordWithRows == keyRecord.shown # "none" => panel["summary"].rows # Nothing

\* A record that says "quarantined", on the page or on its way, of a key that is not: an operation
\* waits for the server, or an error was shown.  The loads after an operation read the key anew.
StaleIsExcused == keyError \/ \E o \in KeyOperation : keyRun[o].step = "server"
ClearedIsExplained ==
    /\ "quarantined" \in keyRecord.maybe /\ ~quarantined => StaleIsExcused
    /\ QuarantinePanel /\ ~quarantined /\ panel["summary"].state = "ready" => StaleIsExcused

KeyInv == KeyShape /\ RecordWithRows /\ ClearedIsExplained

LEMMA KeyInvImplies == KeyInv => KeyTypeOK /\ PanelsOfQuery /\ ClearedIsSeen
<1> SUFFICES ASSUME KeyInv PROVE KeyTypeOK /\ PanelsOfQuery /\ ClearedIsSeen
  OBVIOUS
<1>1. KeyTypeOK
  BY DEF KeyInv, KeyShape, KeyViews, PanelFits, PanelStates, AnswersView, RunFits, KeyTypeOK
<1>2. QuotaCards # "none" => MetricCards # Nothing
  BY DEF KeyInv, RecordWithRows, QuotaCards, MetricCards
<1>3. ASSUME NEW p \in Panel, ShownRows(p) # Nothing PROVE ShownRows(p) = panel[p].rows
  <2>1. p \in {"summary", "users", "nodes"}
    BY KeyDetailsConstants DEF Panel
  <2> QED
    BY <1>3, <2>1 DEF ShownRows, MetricCards, StickyUsersTable, StickyNodesTable
<1>4. ASSUME NEW p \in Panel, ShownRows(p) # Nothing
      PROVE  ShownRows(p).query = QueryOf(keyView, p) \/ ShownRows(p).by = "click"
  BY <1>3, <1>4 DEF KeyInv, KeyShape, PanelFits, AnswersView
<1>5. ClearedIsSeen
  BY DEF KeyInv, ClearedIsExplained, StaleIsExcused, ClearedIsSeen
<1> QED
  BY <1>1, <1>2, <1>4, <1>5 DEF PanelsOfQuery

LEMMA QueriesOfView ==
    ASSUME NEW v \in KeyViews, NEW p \in Panel
    PROVE  QueryOf(v, p) \in PanelQuery
<1>1. p \in {"summary", "users", "nodes"}
  BY KeyDetailsConstants DEF Panel
<1>2. v.window \in KeyWindow /\ v.page \in 1 .. StickyPages
  BY DEF KeyViews
<1> QED
  BY <1>1, <1>2 DEF QueryOf, PanelQuery

LEMMA KeyInitInv == KeyInit => KeyInv
<1> SUFFICES ASSUME KeyInit PROVE KeyInv
  OBVIOUS
<1>1. keyView \in KeyViews
  BY KeyDetailsConstants DEF KeyInit, KeyViews
<1>2. ASSUME NEW p \in Panel PROVE PanelFits(panel[p], p, keyView)
  BY <1>1, QueriesOfView DEF KeyInit, PanelFits, PanelStates, AnswersView
<1>3. ASSUME NEW o \in KeyOperation PROVE RunFits(keyRun[o])
  BY DEF KeyInit, RunFits, IdleRun
<1>4. keyError \in BOOLEAN
  BY Zenon DEF KeyInit
<1>5. syncFeedback \in [state : {"idle", "syncing", "success"}, timer : BOOLEAN]
  BY DEF KeyInit
<1>6. panel = [p \in Panel |-> panel[p]] /\ keyRun = [o \in KeyOperation |-> keyRun[o]]
  BY DEF KeyInit
<1>7. /\ keyRecord \in [shown : {"none", "quarantined", "clear"}, maybe : SUBSET {"quarantined", "clear"}]
      /\ quarantined \in BOOLEAN
  BY DEF KeyInit, RecordOf
<1>8. KeyShape
  BY <1>1, <1>2, <1>3, <1>4, <1>5, <1>6, <1>7 DEF KeyShape
<1> QED
  BY <1>8 DEF KeyInit, KeyInv, RecordWithRows, ClearedIsExplained, QuarantinePanel, RecordOf

\* A load leaves a panel that fits the new view w, and that is loading.
LEMMA LoadFits ==
    ASSUME NEW c, NEW p \in Panel, NEW v, NEW w, PanelFits(c, p, v), NEW q \in PanelQuery,
           NEW reason, NEW by, q = QueryOf(w, p) \/ by = "click",
           reason = "refresh" => AnswersView(c.rows, p, w), NEW l, l = Load(c, q, reason, by)
    PROVE  /\ PanelFits(l, p, w) /\ l.state # "ready"
           /\ reason = "refresh" => l.rows = c.rows
<1>1. l = [rows |-> IF reason = "refresh" THEN c.rows ELSE Nothing,
           state |-> IF reason = "refresh" THEN RefreshingPanelState(c.last) ELSE BlockingPanelState(c.last),
           last |-> c.last, request |-> [query |-> q, by |-> by]]
  BY DEF Load, PanelFits
<1>2. AnswersView([query |-> q, by |-> by], p, w)
  BY DEF AnswersView
<1>3. AnswersView(Nothing, p, w)
  BY DEF AnswersView
<1> QED
  BY <1>1, <1>2, <1>3 DEF PanelFits, PanelStates, RefreshingPanelState, BlockingPanelState

\* The loads at the end of an operation, with the queries of its click.
LEMMA ReloadFits ==
    ASSUME NEW c, NEW p \in Panel, NEW w, PanelFits(c, p, w), NEW q \in PanelQuery,
           NEW by, q = QueryOf(w, p) \/ by = "click", NEW l, l = Load(c, q, "refresh", by)
    PROVE  PanelFits(l, p, w) /\ l.state # "ready" /\ l.rows = c.rows
<1>1. AnswersView(c.rows, p, w)
  BY DEF PanelFits
<1> QED
  BY <1>1, LoadFits

\* The fields of a run after an update; the provers see them once the records have names.
LEMMA RunRecord ==
    ASSUME NEW r, RunFits(r), NEW s, NEW W
    PROVE  [r EXCEPT !.step = s, !.awaits = W] = [step |-> s, asks |-> r.asks, awaits |-> W]
<1> SUFFICES ASSUME NEW x, x = [r EXCEPT !.step = s, !.awaits = W]
             PROVE  x = [step |-> s, asks |-> r.asks, awaits |-> W]
  OBVIOUS
<1> QED
  BY DEF RunFits

LEMMA LoadsOverFits ==
    ASSUME \A o \in KeyOperation : RunFits(keyRun[o]), NEW S
    PROVE  /\ LoadsOver(S) = [o \in KeyOperation |-> LoadsOver(S)[o]]
           /\ \A o \in KeyOperation :
                 RunFits(LoadsOver(S)[o]) /\ LoadsOver(S)[o].step = keyRun[o].step
<1>1. ASSUME NEW r, RunFits(r), NEW x, x = [r EXCEPT !.awaits = @ \ S]
      PROVE  RunFits(x) /\ x.step = r.step
  BY <1>1 DEF RunFits
<1>2. ASSUME NEW o \in KeyOperation PROVE RunFits(Awaited(o, S)) /\ Awaited(o, S).step = keyRun[o].step
  BY <1>1 DEF Awaited
<1> QED
  BY <1>2 DEF LoadsOver

\* One panel is loaded again, and the view may have changed for that panel only.
LEMMA OnePanelLoaded ==
    ASSUME KeyShape, NEW p \in Panel, NEW w \in KeyViews, NEW q \in PanelQuery, NEW reason,
           q = QueryOf(w, p), \A s \in Panel : s # p => QueryOf(w, s) = QueryOf(keyView, s),
           reason = "refresh" => AnswersView(panel[p].rows, p, w), keyView' = w,
           panel' = [panel EXCEPT ![p] = Load(@, q, reason, "page")]
    PROVE  /\ panel' = [s \in Panel |-> panel'[s]]
           /\ \A s \in Panel : PanelFits(panel'[s], s, w)
           /\ panel'[p].state # "ready"
           /\ reason = "refresh" => panel'[p].rows = panel[p].rows
           /\ \A s \in Panel : s # p => panel'[s] = panel[s]
<1>1. /\ panel' = [s \in Panel |-> panel'[s]]
      /\ panel'[p] = Load(panel[p], q, reason, "page")
      /\ \A s \in Panel : s # p => panel'[s] = panel[s]
  BY DEF KeyShape
<1>2. PanelFits(panel[p], p, keyView)
  BY DEF KeyShape
<1>3. /\ PanelFits(panel'[p], p, w) /\ panel'[p].state # "ready"
      /\ reason = "refresh" => panel'[p].rows = panel[p].rows
  BY <1>1, <1>2, LoadFits
<1>4. ASSUME NEW s \in Panel, s # p PROVE PanelFits(panel'[s], s, w)
  BY <1>1, <1>4 DEF KeyShape, PanelFits, AnswersView
<1> QED
  BY <1>1, <1>3, <1>4

LEMMA LoadRecordFits ==
    ASSUME KeyShape, NEW reason
    PROVE  /\ LoadRecord(reason) \in [shown : {"none", "quarantined", "clear"},
                                     maybe : SUBSET {"quarantined", "clear"}]
           /\ "quarantined" \in LoadRecord(reason).maybe => quarantined
           /\ LoadRecord(reason).shown = IF reason = "refresh" THEN keyRecord.shown ELSE "none"
  BY DEF KeyShape, LoadRecord, RecordOf

LEMMA KeyStepInv == KeyInv /\ [KeyNext]_keyVars => KeyInv'
<1> SUFFICES ASSUME KeyInv, [KeyNext]_keyVars PROVE KeyInv'
  OBVIOUS
<1> "summary" \in Panel
  BY DEF Panel
<1>1. KeyShape /\ keyView \in KeyViews
  BY DEF KeyInv, KeyShape
<1>2. ASSUME NEW S, keyRun' = LoadsOver(S)
      PROVE  /\ keyRun' = [o \in KeyOperation |-> keyRun'[o]]
             /\ \A o \in KeyOperation : RunFits(keyRun'[o])
             /\ \A o \in KeyOperation : keyRun'[o].step = keyRun[o].step
  BY <1>1, <1>2, LoadsOverFits DEF KeyShape
<1>0. ASSUME keyError' = FALSE PROVE keyError' \in BOOLEAN
  BY <1>0, Zenon
<1>3. ASSUME NEW w \in KeyWindow, ChangeKeyWindow(w) PROVE KeyInv'
  <2> DEFINE v == [keyView EXCEPT !.window = w]
             q == QueryOf(v, "summary")
             reason == LoadReason(panel["summary"].last, q)
  <2>1. v \in KeyViews /\ v.page = keyView.page
    BY <1>1 DEF KeyViews
  <2>2. ASSUME NEW s \in Panel, s # "summary" PROVE QueryOf(v, s) = QueryOf(keyView, s)
    <3>1. s \in {"users", "nodes"}
      BY <2>2, KeyDetailsConstants DEF Panel
    <3> QED
      BY <2>1, <3>1 DEF QueryOf
  <2>3. q \in PanelQuery
    BY <2>1, QueriesOfView
  <2>4. reason = "refresh" => AnswersView(panel["summary"].rows, "summary", v)
    <3>1. reason = "refresh" => panel["summary"].last = q
      BY DEF LoadReason
    <3>2. PanelFits(panel["summary"], "summary", keyView)
      BY <1>1 DEF KeyShape
    <3> HIDE DEF reason, v
    <3> QED
      BY <3>1, <3>2 DEF PanelFits, AnswersView
  <2>5. /\ keyView' = v /\ panel' = [panel EXCEPT !["summary"] = Load(@, q, reason, "page")]
        /\ keyRecord' = LoadRecord(reason) /\ keyRun' = LoadsOver({"summary"}) /\ keyError' = FALSE
        /\ UNCHANGED <<syncFeedback, quarantined>>
    BY <1>3 DEF ChangeKeyWindow
  <2> HIDE DEF v, q, reason
  <2>6. /\ panel' = [s \in Panel |-> panel'[s]]
        /\ \A s \in Panel : PanelFits(panel'[s], s, v)
        /\ panel'["summary"].state # "ready"
        /\ reason = "refresh" => panel'["summary"].rows = panel["summary"].rows
    BY <1>1, <2>1, <2>2, <2>3, <2>4, <2>5, OnePanelLoaded DEF q
  <2>7. KeyShape'
    <3>1. keyError' \in BOOLEAN
      BY <1>0, <2>5
    <3> QED
      BY <1>1, <1>2, <2>1, <2>5, <2>6, <3>1, LoadRecordFits DEF KeyShape
  <2> QED
    BY <1>1, <2>5, <2>6, <2>7, LoadRecordFits DEF KeyInv, RecordWithRows, ClearedIsExplained
<1>4. CASE ApplyWindow
  <2> DEFINE q == QueryOf(keyView, "summary")
  <2>1. q \in PanelQuery /\ AnswersView(panel["summary"].rows, "summary", keyView)
    BY <1>1, QueriesOfView DEF KeyShape, PanelFits
  <2>2. /\ keyView' = keyView /\ panel' = [panel EXCEPT !["summary"] = Load(@, q, "refresh", "page")]
        /\ keyRecord' = LoadRecord("refresh") /\ keyRun' = LoadsOver({"summary"}) /\ keyError' = FALSE
        /\ UNCHANGED <<syncFeedback, quarantined>>
    BY <1>4 DEF ApplyWindow
  <2> HIDE DEF q
  <2>3. /\ panel' = [s \in Panel |-> panel'[s]]
        /\ \A s \in Panel : PanelFits(panel'[s], s, keyView)
        /\ panel'["summary"].state # "ready"
        /\ panel'["summary"].rows = panel["summary"].rows
    BY <1>1, <2>1, <2>2, OnePanelLoaded DEF q
  <2>4. KeyShape'
    <3>1. keyError' \in BOOLEAN
      BY <1>0, <2>2
    <3> QED
      BY <1>1, <1>2, <2>2, <2>3, <3>1, LoadRecordFits DEF KeyShape
  <2> QED
    BY <1>1, <2>2, <2>3, <2>4, LoadRecordFits DEF KeyInv, RecordWithRows, ClearedIsExplained
<1>5. ASSUME NEW p \in 1 .. StickyPages, TurnStickyPage(p) PROVE KeyInv'
  <2> DEFINE v == [keyView EXCEPT !.page = p]
             q == QueryOf(v, "users")
             reason == LoadReason(panel["users"].last, q)
  <2>1. v \in KeyViews /\ v.window = keyView.window /\ "users" \in Panel
    BY <1>1, <1>5 DEF KeyViews, TurnStickyPage, PagerOffers
  <2>2. ASSUME NEW s \in Panel, s # "users" PROVE QueryOf(v, s) = QueryOf(keyView, s)
    <3>1. s \in {"summary", "nodes"}
      BY <2>2, KeyDetailsConstants DEF Panel
    <3> QED
      BY <2>1, <3>1 DEF QueryOf
  <2>3. q \in PanelQuery
    BY <2>1, QueriesOfView
  <2>4. reason = "refresh" => AnswersView(panel["users"].rows, "users", v)
    <3>1. reason = "refresh" => panel["users"].last = q
      BY DEF LoadReason
    <3>2. PanelFits(panel["users"], "users", keyView)
      BY <1>1, <2>1 DEF KeyShape
    <3> HIDE DEF reason, v
    <3> QED
      BY <3>1, <3>2 DEF PanelFits, AnswersView
  <2>5. /\ keyView' = v /\ panel' = [panel EXCEPT !["users"] = Load(@, q, reason, "page")]
        /\ keyRun' = LoadsOver({"users"}) /\ UNCHANGED <<keyRecord, syncFeedback, keyError, quarantined>>
    BY <1>1, <1>5, <2>1 DEF TurnStickyPage, KeyShape
  <2> HIDE DEF v, q, reason
  <2>6. /\ panel' = [s \in Panel |-> panel'[s]]
        /\ \A s \in Panel : PanelFits(panel'[s], s, v)
        /\ panel'["summary"] = panel["summary"]
    BY <1>1, <2>1, <2>2, <2>3, <2>4, <2>5, OnePanelLoaded DEF q
  <2>7. KeyShape'
    BY <1>1, <1>2, <2>1, <2>5, <2>6 DEF KeyShape
  <2> QED
    BY <1>2, <2>5, <2>6, <2>7 DEF KeyInv, RecordWithRows, ClearedIsExplained, StaleIsExcused, QuarantinePanel
<1>6. ASSUME NEW p \in Panel, PanelAnswered(p)
      PROVE  /\ panel' = [s \in Panel |-> panel'[s]]
             /\ \A s \in Panel : PanelFits(panel'[s], s, keyView)
             /\ panel'[p].rows # Nothing
             /\ \A s \in Panel : s # p => panel'[s] = panel[s]
  <2>1. /\ panel' = [s \in Panel |-> panel'[s]]
        /\ panel'[p] = [rows |-> panel[p].request, state |-> "ready",
                        last |-> panel[p].request.query, request |-> Nothing]
        /\ \A s \in Panel : s # p => panel'[s] = panel[s]
    BY <1>1, <1>6 DEF PanelAnswered, KeyShape
  <2>2. panel[p].request # Nothing /\ PanelFits(panel[p], p, keyView)
    BY <1>1, <1>6 DEF PanelAnswered, KeyShape
  <2>3. PanelFits(panel'[p], p, keyView)
    BY <2>1, <2>2 DEF PanelFits, PanelStates, AnswersView
  <2> QED
    BY <1>1, <2>1, <2>2, <2>3 DEF KeyShape
<1>7. CASE SummaryAnswered
  <2>1. PanelAnswered("summary")
    BY <1>7 DEF SummaryAnswered
  <2>2. PICK r \in keyRecord.maybe \cup {"none"} : keyRecord' = [shown |-> r, maybe |-> {}]
    BY <1>7 DEF SummaryAnswered
  <2>3. /\ keyRun' = LoadsOver({"summary"}) /\ UNCHANGED <<keyView, syncFeedback, keyError, quarantined>>
    BY <2>1 DEF PanelAnswered
  <2>4. keyRecord' \in [shown : {"none", "quarantined", "clear"}, maybe : SUBSET {"quarantined", "clear"}]
    BY <1>1, <2>2 DEF KeyShape
  <2>5. KeyShape'
    BY <1>1, <1>2, <1>6, <2>1, <2>3, <2>4 DEF KeyShape
  <2> QED
    BY <1>2, <1>6, <2>1, <2>2, <2>3, <2>5 DEF KeyInv, RecordWithRows, ClearedIsExplained, StaleIsExcused,
       QuarantinePanel
<1>8. ASSUME NEW p \in Panel, BoundAnswered(p) PROVE KeyInv'
  <2>1. PanelAnswered(p) /\ p # "summary" /\ UNCHANGED keyRecord
    BY <1>8 DEF BoundAnswered
  <2>2. /\ keyRun' = LoadsOver({p}) /\ UNCHANGED <<keyView, syncFeedback, keyError, quarantined>>
    BY <2>1 DEF PanelAnswered
  <2>3. KeyShape'
    BY <1>1, <1>2, <1>6, <2>1, <2>2 DEF KeyShape
  <2> QED
    BY <1>2, <1>6, <2>1, <2>2, <2>3 DEF KeyInv, RecordWithRows, ClearedIsExplained, StaleIsExcused,
       QuarantinePanel
<1>9. ASSUME NEW p \in Panel, PanelFails(p) PROVE KeyInv'
  <2>1. ASSUME NEW c, PanelFits(c, p, keyView), NEW d,
               d = [c EXCEPT !.state = "error", !.request = Nothing]
        PROVE  PanelFits(d, p, keyView) /\ d.state = "error" /\ d.rows = c.rows
    BY <2>1 DEF PanelFits, PanelStates, AnswersView
  <2>2. /\ panel' = [s \in Panel |-> panel'[s]]
        /\ panel'[p] = [panel[p] EXCEPT !.state = "error", !.request = Nothing]
        /\ \A s \in Panel : s # p => panel'[s] = panel[s]
    BY <1>1, <1>9 DEF PanelFails, KeyShape
  <2>3. PanelFits(panel'[p], p, keyView) /\ panel'[p].state = "error" /\ panel'[p].rows = panel[p].rows
    BY <1>1, <2>1, <2>2 DEF KeyShape
  <2>4. /\ keyRun' = LoadsOver({p}) /\ UNCHANGED <<keyView, keyRecord, syncFeedback, quarantined>>
        /\ keyError' = (keyError \/ p = "summary")
    BY <1>9 DEF PanelFails
  <2>5. KeyShape'
    <3>1. keyError' \in BOOLEAN
      BY <2>4, Zenon
    <3>2. \A s \in Panel : PanelFits(panel'[s], s, keyView)
      BY <1>1, <2>2, <2>3 DEF KeyShape
    <3> QED
      BY <1>1, <1>2, <2>2, <2>4, <3>1, <3>2 DEF KeyShape
  <2> QED
    BY <1>2, <2>2, <2>3, <2>4, <2>5 DEF KeyInv, RecordWithRows, ClearedIsExplained, StaleIsExcused,
       QuarantinePanel
<1>10. ASSUME NEW o \in KeyOperation, StartRun(o) PROVE KeyInv'
  <2>1. RunFits([step |-> "server", awaits |-> {}, asks |-> [p \in Panel |-> QueryOf(keyView, p)]])
    BY <1>1, QueriesOfView DEF RunFits
  <2>2. /\ keyRun' = [x \in KeyOperation |-> keyRun'[x]]
        /\ \A x \in KeyOperation : RunFits(keyRun'[x])
        /\ keyRun'[o].step = "server"
    BY <1>1, <1>10, <2>1 DEF StartRun, KeyShape
  <2>3. syncFeedback' \in [state : {"idle", "syncing", "success"}, timer : BOOLEAN]
    BY <1>1, <1>10 DEF StartRun, KeyShape
  <2>4. KeyShape'
    BY <1>1, <1>10, <2>2, <2>3 DEF StartRun, KeyShape
  <2> QED
    BY <1>10, <2>2, <2>4 DEF StartRun, KeyInv, RecordWithRows, ClearedIsExplained, StaleIsExcused
<1>11. ASSUME NEW o \in KeyOperation, RunReloads(o) PROVE KeyInv'
  <2>1. ASSUME NEW p \in Panel
        PROVE  /\ PanelFits(panel'[p], p, keyView) /\ panel'[p].state # "ready"
               /\ panel'[p].rows = panel[p].rows
    <3> DEFINE q == keyRun[o].asks[p]
    <3>1. panel'[p] = Load(panel[p], q, "refresh", QueryFrom(q, p))
      BY <1>11 DEF RunReloads
    <3>2. q = QueryOf(keyView, p) \/ QueryFrom(q, p) = "click"
      BY DEF QueryFrom
    <3>3. keyRun[o].asks[p] \in PanelQuery /\ PanelFits(panel[p], p, keyView)
      BY <1>1, <1>11 DEF RunReloads, KeyShape, RunFits, PanelFits
    <3> HIDE DEF q
    <3>4. q \in PanelQuery
      BY <3>3 DEF q
    <3> QED
      BY <3>1, <3>2, <3>3, <3>4, ReloadFits
  <2>2. panel' = [p \in Panel |-> panel'[p]]
    BY <1>11 DEF RunReloads
  <2>3. /\ keyRun' = [x \in KeyOperation |-> keyRun'[x]]
        /\ \A x \in KeyOperation : RunFits(keyRun'[x])
    <3> DEFINE L == LoadsOver(Panel)
    <3>1. /\ L = [x \in KeyOperation |-> L[x]] /\ \A x \in KeyOperation : RunFits(L[x])
      BY <1>1, LoadsOverFits DEF KeyShape
    <3>2. keyRun' = [L EXCEPT ![o].step = "reload", ![o].awaits = Panel]
      BY <1>11 DEF RunReloads
    <3> HIDE DEF L
    <3>3. ASSUME NEW x, x = [L[o] EXCEPT !.step = "reload", !.awaits = Panel] PROVE RunFits(x)
      <4>1. x = [step |-> "reload", asks |-> L[o].asks, awaits |-> Panel]
        BY <3>1, <3>3, RunRecord
      <4> QED
        BY <4>1 DEF RunFits
    <3>4. /\ keyRun' = [x \in KeyOperation |-> keyRun'[x]]
          /\ keyRun'[o] = [L[o] EXCEPT !.step = "reload", !.awaits = Panel]
          /\ \A x \in KeyOperation : x # o => keyRun'[x] = L[x]
      BY <3>1, <3>2
    <3> QED
      BY <3>1, <3>3, <3>4
  <2>4. KeyShape'
    BY <1>1, <1>11, <2>1, <2>2, <2>3, LoadRecordFits DEF RunReloads, KeyShape
  <2> QED
    BY <1>1, <1>11, <2>1, <2>4, LoadRecordFits DEF RunReloads, KeyInv, RecordWithRows, ClearedIsExplained
<1>12. ASSUME NEW o \in KeyOperation, RunEnds(o) PROVE KeyInv'
  <2>1. /\ keyRun' = [x \in KeyOperation |-> keyRun'[x]]
        /\ \A x \in KeyOperation : RunFits(keyRun'[x])
        /\ \A x \in KeyOperation : keyRun[x].step = "server" => keyRun'[x].step = "server"
    BY <1>1, <1>12 DEF RunEnds, KeyShape, RunFits, IdleRun
  <2>2. syncFeedback' \in [state : {"idle", "syncing", "success"}, timer : BOOLEAN]
    BY <1>1, <1>12 DEF RunEnds, KeyShape
  <2>3. KeyShape'
    BY <1>1, <1>12, <2>1, <2>2 DEF RunEnds, KeyShape
  <2> QED
    BY <1>12, <2>1, <2>3 DEF RunEnds, KeyInv, RecordWithRows, ClearedIsExplained, StaleIsExcused,
       QuarantinePanel
<1>13. ASSUME NEW o \in KeyOperation, RunFails(o) PROVE KeyInv'
  <2>1. /\ keyRun' = [x \in KeyOperation |-> keyRun'[x]]
        /\ \A x \in KeyOperation : RunFits(keyRun'[x])
    BY <1>1, <1>13 DEF RunFails, KeyShape, RunFits, IdleRun
  <2>2. syncFeedback' \in [state : {"idle", "syncing", "success"}, timer : BOOLEAN]
    BY <1>1, <1>13 DEF RunFails, KeyShape
  <2>3. KeyShape'
    BY <1>1, <1>13, <2>1, <2>2 DEF RunFails, KeyShape
  <2> QED
    BY <1>13, <2>3 DEF RunFails, KeyInv, RecordWithRows, ClearedIsExplained, StaleIsExcused
<1>14. CASE ServerClears
  <2>1. KeyShape'
    BY <1>1, <1>14 DEF ServerClears, KeyShape
  <2> QED
    BY <1>14, <2>1 DEF ServerClears, KeyInv, KeyShape, RecordWithRows, ClearedIsExplained, StaleIsExcused
<1>15. CASE ServerQuarantines
  <2>1. KeyShape'
    BY <1>1, <1>15 DEF ServerQuarantines, KeyShape
  <2> QED
    BY <1>15, <2>1 DEF ServerQuarantines, KeyInv, KeyShape, RecordWithRows, ClearedIsExplained
<1>16. CASE FeedbackExpires
  <2>1. KeyShape'
    BY <1>1, <1>16 DEF FeedbackExpires, KeyShape
  <2> QED
    BY <1>16, <2>1 DEF FeedbackExpires, KeyInv, RecordWithRows, ClearedIsExplained, StaleIsExcused,
       QuarantinePanel
<1>17. CASE UNCHANGED keyVars
  BY <1>17 DEF keyVars, KeyInv, KeyShape, RecordWithRows, ClearedIsExplained, StaleIsExcused,
     QuarantinePanel
<1>18. ASSUME NEW p \in Panel, PanelSettles(p) PROVE KeyInv'
  BY <1>7, <1>8, <1>9, <1>18 DEF PanelSettles
<1> QED
  BY <1>3, <1>4, <1>5, <1>10, <1>11, <1>12, <1>13, <1>14, <1>15, <1>16, <1>17, <1>18
  DEF KeyNext, RunAdvances

------------------------------------------------------------------------------
(* The calendar and the windows of usage (UsageDates).                        *)

\* A year has 365 or 366 days.
LEMMA YearLengths ==
    ASSUME NEW y \in Int
    PROVE  /\ DaysBefore(y) \in Int
           /\ DaysBefore(y + 1) = DaysBefore(y) + (IF Leap(y) THEN 366 ELSE 365)
  BY DEF DaysBefore, Leap

\* Years do not overlap.
LEMMA YearsInOrder ==
    ASSUME NEW y \in Int, NEW z \in Int, y < z
    PROVE  DaysBefore(y + 1) <= DaysBefore(z)
  BY DEF DaysBefore

\* YearOf is a year that holds the day ...
LEMMA YearHoldsDay ==
    ASSUME NEW d \in Nat
    PROVE  /\ YearOf(d) \in Int
           /\ DaysBefore(YearOf(d)) <= d /\ d < DaysBefore(YearOf(d) + 1)
<1> DEFINE q == (d + 365) \div 1461
           r == (d + 365) % 1461
           k == IF r >= 1095 THEN 3 ELSE r \div 365
<1>1. q \in Int /\ r \in 0 .. 1460 /\ d + 365 = 1461 * q + r
  OBVIOUS
<1>2. YearOf(d) = 1969 + 4 * q + k
  BY DEF YearOf
<1> HIDE DEF q, r
<1>3. k \in 0 .. 3 /\ 365 * k <= r /\ r < 365 * k + (IF k = 3 THEN 366 ELSE 365)
  BY <1>1
<1> HIDE DEF k
<1>4. DaysBefore(1969 + 4 * q + k) = 1461 * q - 365 + 365 * k
  BY <1>1, <1>3 DEF DaysBefore
<1>5. DaysBefore(1969 + 4 * q + k + 1) = 1461 * q - 365 + 365 * k + (IF k = 3 THEN 366 ELSE 365)
  BY <1>1, <1>3 DEF DaysBefore
<1> QED
  BY <1>1, <1>2, <1>3, <1>4, <1>5

\* ... and the only one.
LEMMA YearIsUnique ==
    ASSUME NEW d \in Nat, NEW y \in Int, DaysBefore(y) <= d, d < DaysBefore(y + 1)
    PROVE  YearOf(d) = y
<1> DEFINE Y == YearOf(d)
<1>1. Y \in Int /\ DaysBefore(Y) <= d /\ d < DaysBefore(Y + 1)
  BY YearHoldsDay
<1> HIDE DEF Y
<1>2. /\ DaysBefore(y) \in Int /\ DaysBefore(y + 1) \in Int
      /\ DaysBefore(Y) \in Int /\ DaysBefore(Y + 1) \in Int
  BY <1>1, YearLengths, y + 1 \in Int, Y + 1 \in Int
<1>3. ~(Y < y)
  <2> SUFFICES ASSUME Y < y PROVE FALSE
    OBVIOUS
  <2>1. DaysBefore(Y + 1) <= DaysBefore(y)
    BY <1>1, YearsInOrder
  <2> QED
    BY <1>1, <1>2, <2>1
<1>4. ~(y < Y)
  <2> SUFFICES ASSUME y < Y PROVE FALSE
    OBVIOUS
  <2>1. DaysBefore(y + 1) <= DaysBefore(Y)
    BY <1>1, YearsInOrder
  <2> QED
    BY <1>1, <1>2, <2>1
<1> QED
  BY <1>1, <1>3, <1>4 DEF Y

\* The months of a year follow each other and fill it.
LEMMA MonthLengths ==
    ASSUME NEW y \in Int, NEW m \in 1 .. 12
    PROVE  /\ MonthStart(y, m) \in Int /\ NextMonth(y, m) \in Int
           /\ MonthStart(y, 1) = DaysBefore(y)
           /\ m < 12 => NextMonth(y, m) = MonthStart(y, m + 1)
           /\ m = 12 => NextMonth(y, m) = DaysBefore(y + 1)
           /\ MonthStart(y, m) < NextMonth(y, m)
           /\ DaysBefore(y) <= MonthStart(y, m) /\ NextMonth(y, m) <= DaysBefore(y + 1)
<1> DEFINE D == DaysBefore(y)
           E == DaysBefore(y + 1)
           l == IF Leap(y) THEN 1 ELSE 0
<1>1. D \in Int /\ E = D + 365 + l /\ l \in 0 .. 1
  BY YearLengths
<1>2. /\ MonthStart(y, 1) = D /\ MonthStart(y, 2) = D + 31 /\ MonthStart(y, 3) = D + 59 + l
      /\ MonthStart(y, 4) = D + 90 + l /\ MonthStart(y, 5) = D + 120 + l
      /\ MonthStart(y, 6) = D + 151 + l /\ MonthStart(y, 7) = D + 181 + l
      /\ MonthStart(y, 8) = D + 212 + l /\ MonthStart(y, 9) = D + 243 + l
      /\ MonthStart(y, 10) = D + 273 + l /\ MonthStart(y, 11) = D + 304 + l
      /\ MonthStart(y, 12) = D + 334 + l
  BY <1>1 DEF MonthStart
<1> HIDE DEF D, l
<1>3. m < 12 => NextMonth(y, m) = MonthStart(y, m + 1)
  BY DEF NextMonth
<1>4. m = 12 => NextMonth(y, m) = E
  BY DEF NextMonth
<1> HIDE DEF E
<1>5. \/ m = 1 \/ m = 2 \/ m = 3 \/ m = 4 \/ m = 5 \/ m = 6
      \/ m = 7 \/ m = 8 \/ m = 9 \/ m = 10 \/ m = 11 \/ m = 12
  OBVIOUS
<1> QED
  BY <1>1, <1>2, <1>3, <1>4, <1>5 DEF D, E

\* Months of a year do not overlap.
LEMMA MonthsInOrder ==
    ASSUME NEW y \in Int, NEW m \in 1 .. 12, NEW n \in 1 .. 12, m < n
    PROVE  NextMonth(y, m) <= MonthStart(y, n)
<1> DEFINE S(k) == MonthStart(y, k)
<1>1. ASSUME NEW k \in 1 .. 12 PROVE S(k) \in Int
  BY MonthLengths
<1>2. ASSUME NEW k \in 1 .. 12, NEW j \in 1 .. 12, j = k + 1 PROVE S(k) < S(j) /\ NextMonth(y, k) = S(j)
  <2>1. k < 12
    BY <1>2
  <2>2. NextMonth(y, k) = MonthStart(y, k + 1) /\ MonthStart(y, k) < NextMonth(y, k)
    BY <2>1, MonthLengths
  <2> QED
    BY <1>2, <2>2
<1>3. m + 1 \in 1 .. 12 /\ NextMonth(y, m) = S(m + 1)
  BY <1>2
<1> HIDE DEF S
<1>4. /\ S(1) < S(2) /\ S(2) < S(3) /\ S(3) < S(4) /\ S(4) < S(5) /\ S(5) < S(6) /\ S(6) < S(7)
      /\ S(7) < S(8) /\ S(8) < S(9) /\ S(9) < S(10) /\ S(10) < S(11) /\ S(11) < S(12)
  BY <1>2
<1>5. ASSUME NEW a \in 1 .. 12, NEW b \in 1 .. 12, a <= b PROVE S(a) <= S(b)
  <2>1. \/ a = 1 \/ a = 2 \/ a = 3 \/ a = 4 \/ a = 5 \/ a = 6
        \/ a = 7 \/ a = 8 \/ a = 9 \/ a = 10 \/ a = 11 \/ a = 12
    OBVIOUS
  <2>2. \/ b = 1 \/ b = 2 \/ b = 3 \/ b = 4 \/ b = 5 \/ b = 6
        \/ b = 7 \/ b = 8 \/ b = 9 \/ b = 10 \/ b = 11 \/ b = 12
    OBVIOUS
  <2> QED
    BY <1>1, <1>4, <1>5, <2>1, <2>2
<1> QED
  BY <1>3, <1>5 DEF S

\* MonthOf chooses the one month that holds the day.
LEMMA MonthHoldsDay ==
    ASSUME NEW d \in Nat
    PROVE  /\ MonthOf(d) \in 1 .. 12
           /\ MonthStart(YearOf(d), MonthOf(d)) <= d /\ d < NextMonth(YearOf(d), MonthOf(d))
<1> DEFINE y == YearOf(d)
           Holds(m) == MonthStart(y, m) <= d /\ d < NextMonth(y, m)
<1>1. y \in Int /\ DaysBefore(y) <= d /\ d < DaysBefore(y + 1)
  BY YearHoldsDay
<1>2. \E m \in 1 .. 12 : Holds(m)
  <2> HIDE DEF y
  <2> SUFFICES ASSUME \A m \in 1 .. 12 : ~Holds(m) PROVE FALSE
    OBVIOUS
  <2>1. ASSUME NEW m \in 1 .. 12, MonthStart(y, m) <= d PROVE NextMonth(y, m) <= d
    <3>1. NextMonth(y, m) \in Int
      BY <1>1, MonthLengths
    <3>2. ~(d < NextMonth(y, m))
      BY <2>1
    <3> QED
      BY <3>1, <3>2
  <2>2. ASSUME NEW m \in 1 .. 11, MonthStart(y, m) <= d PROVE MonthStart(y, m + 1) <= d
    <3>1. m \in 1 .. 12 /\ m < 12
      OBVIOUS
    <3>2. NextMonth(y, m) = MonthStart(y, m + 1)
      BY <1>1, <3>1, MonthLengths
    <3> QED
      BY <2>1, <2>2, <3>1, <3>2
  <2>3. MonthStart(y, 1) <= d
    BY <1>1, MonthLengths, 1 \in 1 .. 12
  <2> DEFINE B == {m \in 1 .. 12 : MonthStart(y, m) <= d}
  <2>4. 1 \in B /\ \A m \in 1 .. 11 : m \in B => m + 1 \in B
    BY <2>2, <2>3
  <2> HIDE DEF B
  <2>5. 2 \in B /\ 3 \in B /\ 4 \in B
    BY <2>4
  <2>8. 5 \in B /\ 6 \in B /\ 7 \in B
    BY <2>4, <2>5
  <2>9. 8 \in B /\ 9 \in B /\ 10 \in B
    BY <2>4, <2>8
  <2>6. 11 \in B /\ 12 \in B
    BY <2>4, <2>9
  <2>7. NextMonth(y, 12) <= d
    BY <2>1, <2>6 DEF B
  <2> QED
    BY <1>1, <2>7, MonthLengths, 12 \in 1 .. 12
<1>3. MonthOf(d) = CHOOSE m \in 1 .. 12 : Holds(m)
  BY DEF MonthOf
<1> QED
  BY <1>2, <1>3

\* No other month of any year holds the day.
LEMMA MonthIsUnique ==
    ASSUME NEW d \in Nat, NEW y \in Int, NEW m \in 1 .. 12,
           MonthStart(y, m) <= d, d < NextMonth(y, m)
    PROVE  YearOf(d) = y /\ MonthOf(d) = m
<1>1. /\ DaysBefore(y) \in Int /\ DaysBefore(y + 1) \in Int
      /\ MonthStart(y, m) \in Int /\ NextMonth(y, m) \in Int
      /\ DaysBefore(y) <= MonthStart(y, m) /\ NextMonth(y, m) <= DaysBefore(y + 1)
  <2>1. y + 1 \in Int
    OBVIOUS
  <2>2. DaysBefore(y) \in Int /\ DaysBefore(y + 1) \in Int
    BY <2>1, YearLengths
  <2> QED
    BY <2>2, MonthLengths
<1>2. YearOf(d) = y
  BY <1>1, YearIsUnique
<1> DEFINE n == MonthOf(d)
<1>3. n \in 1 .. 12 /\ MonthStart(y, n) <= d /\ d < NextMonth(y, n)
  BY <1>2, MonthHoldsDay
<1> HIDE DEF n
<1>4. MonthStart(y, n) \in Int /\ NextMonth(y, n) \in Int
  BY <1>3, MonthLengths
<1>5. ~(n < m)
  <2>1. n < m => NextMonth(y, n) <= MonthStart(y, m)
    BY <1>3, MonthsInOrder
  <2> QED
    BY <1>1, <1>3, <1>4, <2>1
<1>6. ~(m < n)
  <2>1. m < n => NextMonth(y, m) <= MonthStart(y, n)
    BY <1>3, MonthsInOrder
  <2> QED
    BY <1>1, <1>3, <1>4, <2>1
<1> QED
  BY <1>2, <1>3, <1>5, <1>6 DEF n

\* A month begins on a day of the calendar, which it holds itself.
LEMMA MonthOfItsStart ==
    ASSUME NEW d \in Nat
    PROVE  /\ StartOfMonth(d) \in Nat /\ StartOfMonth(d) <= d
           /\ YearOf(StartOfMonth(d)) = YearOf(d) /\ MonthOf(StartOfMonth(d)) = MonthOf(d)
           /\ d < NextMonth(YearOf(d), MonthOf(d))
<1> DEFINE y == YearOf(d)
           m == MonthOf(d)
           s == StartOfMonth(d)
<1>1. y \in Int /\ d < DaysBefore(y + 1)
  BY YearHoldsDay
<1>2. m \in 1 .. 12 /\ s <= d /\ d < NextMonth(y, m) /\ s = MonthStart(y, m)
  BY MonthHoldsDay DEF StartOfMonth
<1> HIDE DEF y, m, s
<1>3. /\ s \in Int /\ DaysBefore(y) <= s /\ s < NextMonth(y, m) /\ NextMonth(y, m) \in Int
      /\ DaysBefore(y) \in Int /\ DaysBefore(y + 1) \in Int
  <2>1. y + 1 \in Int
    BY <1>1
  <2>2. DaysBefore(y) \in Int /\ DaysBefore(y + 1) \in Int
    BY <1>1, <2>1, YearLengths
  <2> QED
    BY <1>1, <1>2, <2>2, MonthLengths
<1>4. y >= 1970
  <2>1. DaysBefore(1970) = 0
    BY DEF DaysBefore
  <2>2. y < 1970 => DaysBefore(y + 1) <= DaysBefore(1970)
    BY <1>1, YearsInOrder
  <2> QED
    BY <1>1, <1>3, <2>1, <2>2
<1>5. s \in Nat
  <2>1. DaysBefore(y) >= 0
    BY <1>1, <1>4 DEF DaysBefore
  <2> QED
    BY <1>3, <2>1
<1>6. YearOf(s) = y /\ MonthOf(s) = m
  BY <1>1, <1>2, <1>3, <1>5, MonthIsUnique
<1> QED
  BY <1>2, <1>5, <1>6 DEF y, m, s

\* A week begins on a Monday, at most six days before any of its days.
LEMMA WeekStarts ==
    ASSUME NEW d \in Nat, NEW w, w = StartOfWeek(d)
    PROVE  w \in Int /\ w <= d /\ d < w + 7 /\ Weekday(w) = 0 /\ w + 3 \in Nat
  BY DEF StartOfWeek, Weekday

\* The number of a week leads back to its Monday and is before the first week of the next year.
LEMMA WeekInput ==
    ASSUME NEW w \in Int, Weekday(w) = 0, w + 3 \in Nat
    PROVE  /\ ReadInput("week", FormatWeekInput(w)) = w
           /\ w < ReadInput("week", [year |-> FormatWeekInput(w).year + 1, part |-> 1])
<1> DEFINE y == YearOf(w + 3)
           j == DaysBefore(y) + 3
           p == 1 + ((w + 3) - j - 3 + Weekday(j)) \div 7
           k == DaysBefore(y + 1) + 3
<1>1. FormatWeekInput(w) = [year |-> y, part |-> p]
  <2>1. w + 3 - Weekday(w) = w + 3
    OBVIOUS
  <2> DEFINE Of(t) == LET jan4 == DaysBefore(YearOf(t)) + 3
                      IN  [year |-> YearOf(t), part |-> 1 + (t - jan4 - 3 + Weekday(jan4)) \div 7]
  <2>2. FormatWeekInput(w) = Of(w + 3 - Weekday(w))
    BY DEF FormatWeekInput
  <2>3. Of(w + 3) = [year |-> y, part |-> p]
    OBVIOUS
  <2> HIDE DEF Of
  <2> QED
    BY <2>1, <2>2, <2>3
<1>2. y \in Int /\ w + 3 < DaysBefore(y + 1)
  BY YearHoldsDay
<1>3. DaysBefore(y) \in Int /\ DaysBefore(y + 1) \in Int
  BY <1>2, YearLengths, y + 1 \in Int
<1> HIDE DEF y
<1>4. ReadInput("week", [year |-> y, part |-> p]) = j - Weekday(j) + (p - 1) * 7
  BY DEF ReadInput
<1>5. ReadInput("week", [year |-> y + 1, part |-> 1]) = k - Weekday(k)
  <2>1. ReadInput("week", [year |-> y + 1, part |-> 1]) = k - Weekday(k) + (1 - 1) * 7
    BY DEF ReadInput
  <2>2. k - Weekday(k) \in Int
    BY <1>3 DEF Weekday
  <2> QED
    BY <2>1, <2>2
<1>6. j - Weekday(j) + (p - 1) * 7 = w
  <2>1. j \in Int
    BY <1>3
  <2> HIDE DEF j
  <2> QED
    BY <2>1 DEF Weekday
<1>7. w < k - Weekday(k)
  BY <1>2, <1>3 DEF Weekday
<1> QED
  BY <1>1, <1>4, <1>5, <1>6, <1>7

\* The input of a day, a week or a month stands for the window of the day.
LEMMA DatesWindow == DateTypeOK => WindowOfInput
<1> DEFINE p == dateSample.period
           d == dateSample.day
           input == FormatPeriodInput(p, StartOf(p, d))
           start == ComputeStartDate(p, input)
<1> SUFFICES ASSUME dateSample \in DateSample
             PROVE  /\ d <= Today => /\ start <= d /\ d < ComputeEndDate(p, start)
                                     /\ start = StartOf(p, d) /\ Sanitize(p, input) = input
                    /\ p = "week" => StartOf(p, d) < ReadInput(p, [year |-> input.year + 1, part |-> 1])
                    /\ StartOf(p, d) > Today => Sanitize(p, input) = FormatPeriodInput(p, StartOf(p, Today))
  BY DEF WindowOfInput, DateTypeOK
<1>1. d \in Nat /\ Today \in Nat /\ p \in {"day", "week", "month"}
  BY DateConstants DEF DateSample
<1> HIDE DEF d, p
<1>2. CASE p = "day"
  <2>1. YearOf(d) \in Int /\ DaysBefore(YearOf(d)) \in Int
    BY <1>1, YearHoldsDay, YearLengths
  <2>2. StartOf(p, d) = d /\ StartOf(p, Today) = Today
    BY <1>2 DEF StartOf
  <2>3. input = [year |-> YearOf(d), part |-> d - DaysBefore(YearOf(d))]
    BY <1>2, <2>2 DEF FormatPeriodInput
  <2>4. ReadInput(p, input) = d
    BY <1>1, <1>2, <2>1, <2>3 DEF ReadInput
  <2> HIDE DEF input
  <2>5. start = IF d <= Today THEN d ELSE Today
    BY <1>2, <2>4 DEF ComputeStartDate
  <2>6. input = FormatPeriodInput(p, d)
    BY <2>2 DEF input
  <2>7. Sanitize(p, input) = FormatPeriodInput(p, start)
    BY DEF Sanitize
  <2>8. ComputeEndDate(p, start) = start + 1
    BY <1>2 DEF ComputeEndDate
  <2> HIDE DEF start
  <2> QED
    BY <1>1, <1>2, <2>2, <2>5, <2>6, <2>7, <2>8
<1>3. CASE p = "week"
  <2> DEFINE w == StartOfWeek(d)
             t == StartOfWeek(Today)
  <2>1. w \in Int /\ w <= d /\ d < w + 7 /\ Weekday(w) = 0 /\ w + 3 \in Nat
    BY <1>1, WeekStarts
  <2>2. t \in Int /\ Weekday(t) = 0 /\ t = Today - Weekday(Today) /\ Weekday(Today) \in Int
    BY <1>1, WeekStarts DEF StartOfWeek, Weekday
  <2>3. StartOf(p, d) = w /\ StartOf(p, Today) = t
    BY <1>3 DEF StartOf
  <2> HIDE DEF w, t
  <2>4. input = FormatWeekInput(w)
    BY <1>3, <2>3 DEF FormatPeriodInput
  <2>5. ReadInput(p, input) = w /\ w < ReadInput(p, [year |-> input.year + 1, part |-> 1])
    BY <1>3, <2>1, <2>4, WeekInput
  <2> HIDE DEF input
  <2>6. start = IF w <= Today THEN w ELSE Today
    BY <1>3, <2>5 DEF ComputeStartDate
  <2>7. Sanitize(p, input) = FormatWeekInput(start)
    BY <1>3 DEF Sanitize, FormatPeriodInput
  <2>8. ComputeEndDate(p, start) = start + 7
    BY <1>3 DEF ComputeEndDate
  <2>9. FormatPeriodInput(p, t) = FormatWeekInput(Today)
    <3>1. Today + 3 - Weekday(Today) = t + 3 - Weekday(t)
      BY <1>1, <2>2
    <3> QED
      BY <1>3, <3>1 DEF FormatPeriodInput, FormatWeekInput
  <2> HIDE DEF start
  <2> QED
    BY <1>1, <1>3, <2>1, <2>3, <2>4, <2>5, <2>6, <2>7, <2>8, <2>9
<1>4. CASE p = "month"
  <2> DEFINE s == StartOfMonth(d)
             t == StartOfMonth(Today)
  <2>1. /\ s \in Nat /\ s <= d /\ YearOf(s) = YearOf(d) /\ MonthOf(s) = MonthOf(d)
        /\ d < NextMonth(YearOf(d), MonthOf(d)) /\ s = MonthStart(YearOf(d), MonthOf(d))
    BY <1>1, MonthOfItsStart DEF StartOfMonth
  <2>2. StartOf(p, d) = s /\ StartOf(p, Today) = t
    BY <1>4 DEF StartOf
  <2>3. NextMonth(YearOf(d), MonthOf(d)) \in Int
    BY <1>1, YearHoldsDay, MonthHoldsDay, MonthLengths
  <2>4. StartOfMonth(s) = s
    BY <2>1 DEF StartOfMonth
  <2> HIDE DEF s, t
  <2>5. input = [year |-> YearOf(d), part |-> MonthOf(d)]
    BY <1>4, <2>1, <2>2 DEF FormatPeriodInput
  <2>6. ReadInput(p, input) = s
    BY <1>4, <2>1, <2>5 DEF ReadInput
  <2>7. input = FormatPeriodInput(p, s)
    BY <2>2
  <2> HIDE DEF input
  <2>8. start = IF s <= Today THEN s ELSE t
    BY <1>4, <2>6 DEF ComputeStartDate, t
  <2>9. Sanitize(p, input) = FormatPeriodInput(p, start)
    BY DEF Sanitize
  <2>10. ComputeEndDate(p, s) = NextMonth(YearOf(d), MonthOf(d)) + s - s
    BY <1>4, <2>1, <2>4 DEF ComputeEndDate
  <2> HIDE DEF start
  <2> QED
    BY <1>1, <1>4, <2>1, <2>2, <2>3, <2>7, <2>8, <2>9, <2>10
<1> QED
  BY <1>1, <1>2, <1>3, <1>4

\* The bars of a chart, for any window that is not empty.
LEMMA BarsOfWindow ==
    ASSUME NEW p, NEW start \in Int, NEW end \in Int, start < end
    PROVE  LET bars == SnapshotBuckets(p, start, end)
               size == BucketSize(p)
           IN  /\ \E b \in bars : b <= start /\ start < b + size
               /\ \E b \in bars : b < end /\ end <= b + size
               /\ \A b \in bars : b + size > start /\ b < end /\ (b + size < end => b + size \in bars)
<1> DEFINE size == BucketSize(p)
           first == AlignToBucket(start, size)
           far == Max2(first + size, end)
           count == Max2(1, Ceil(far - first, size))
           bars == {first + i * size : i \in 0 .. count - 1}
<1>1. size = 2 \/ size = 48
  BY DEF BucketSize
<1>2. SnapshotBuckets(p, start, end) = bars
  BY DEF SnapshotBuckets
<1> HIDE DEF size
<1>3. first \in Int /\ first <= start /\ start < first + size
  BY <1>1 DEF AlignToBucket
<1> HIDE DEF first
<1>4. far \in Int /\ far >= first + size /\ far >= end /\ (far = first + size \/ far = end)
  BY <1>1, <1>3 DEF Max2
<1> HIDE DEF far
<1>5. /\ count \in Nat /\ count >= 1
      /\ first + (count - 1) * size < far /\ far <= first + count * size
  <2> DEFINE n == Ceil(far - first, size)
  <2>1. n \in Int /\ first + (n - 1) * size < far /\ far <= first + n * size
    <3>1. CASE size = 2
      BY <1>3, <1>4, <3>1 DEF Ceil
    <3>2. CASE size = 48
      BY <1>3, <1>4, <3>2 DEF Ceil
    <3> QED
      BY <1>1, <3>1, <3>2
  <2> HIDE DEF n
  <2>2. n >= 1
    BY <1>1, <1>3, <1>4, <2>1
  <2>3. count = Max2(1, n)
    BY DEF n
  <2> HIDE DEF count
  <2>4. count = n
    BY <2>1, <2>2, <2>3 DEF Max2
  <2> QED
    BY <2>1, <2>2, <2>4
<1> HIDE DEF count
<1>6. first + (count - 1) * size < end /\ end <= first + count * size
  BY <1>1, <1>3, <1>4, <1>5
<1>7. first \in bars
  <2>1. first = first + 0 * size /\ 0 \in 0 .. count - 1
    BY <1>1, <1>3, <1>5
  <2> QED
    BY <2>1
<1>8. first + (count - 1) * size \in bars
  BY <1>5
<1>9. first + (count - 1) * size + size = first + count * size
  BY <1>1, <1>3, <1>5
<1>10. ASSUME NEW b \in bars PROVE b + size > start /\ b < end /\ (b + size < end => b + size \in bars)
  <2>1. PICK i \in 0 .. count - 1 : b = first + i * size
    BY <1>10
  <2>2. b \in Int /\ b >= first /\ b <= first + (count - 1) * size
    BY <1>1, <1>3, <1>5, <2>1
  <2>3. b + size = first + (i + 1) * size
    <3>1. i \in Int
      BY <1>5
    <3>2. CASE size = 2
      BY <1>3, <2>1, <3>1, <3>2
    <3>3. CASE size = 48
      BY <1>3, <2>1, <3>1, <3>3
    <3> QED
      BY <1>1, <3>2, <3>3
  <2>4. b + size < end => i + 1 \in 0 .. count - 1
    BY <1>1, <1>3, <1>5, <1>6, <2>1, <2>3
  <2>5. b + size < end => b + size \in bars
    BY <2>3, <2>4
  <2>6. b + size > start /\ b < end
    BY <1>1, <1>3, <1>5, <1>6, <2>2
  <2> QED
    BY <2>5, <2>6
<1> HIDE DEF bars
<1>11. \E b \in bars : b <= start /\ start < b + size
  BY <1>3, <1>7
<1>12. \E b \in bars : b < end /\ end <= b + size
  BY <1>6, <1>8, <1>9
<1> QED
  BY <1>2, <1>10, <1>11, <1>12 DEF size

\* The bars cover the window of a day, a week or a month in any time zone.
LEMMA DatesBars == DateTypeOK => BarsCoverWindow
<1> DEFINE p == dateSample.period
           d == dateSample.day
           z == dateSample.zone
           first == StartOf(p, d)
           start == 48 * first - z
           end == 48 * ComputeEndDate(p, first) - z
<1> SUFFICES ASSUME dateSample \in DateSample
             PROVE  LET bars == SnapshotBuckets(p, start, end)
                        size == BucketSize(p)
                    IN  /\ \E b \in bars : b <= start /\ start < b + size
                        /\ \E b \in bars : b < end /\ end <= b + size
                        /\ \A b \in bars : b + size > start /\ b < end /\ (b + size < end => b + size \in bars)
  BY DEF BarsCoverWindow, DateTypeOK
<1>1. d \in Nat /\ z \in Int /\ p \in {"day", "week", "month"}
  <2>1. d \in SampleDay /\ z \in ZoneOffset /\ p \in {"day", "week", "month"}
    BY DEF DateSample
  <2>2. z \in -24 .. 28
    BY <2>1, DateConstants
  <2>3. \A x \in -24 .. 28 : x \in Int
    BY SMT
  <2>4. d \in Nat
    BY <2>1, DateConstants
  <2> QED
    BY <2>1, <2>2, <2>3, <2>4
<1> HIDE DEF d, p, z
<1>2. first \in Int /\ ComputeEndDate(p, first) \in Int /\ first < ComputeEndDate(p, first)
  <2>1. CASE p = "day"
    BY <1>1, <2>1 DEF StartOf, ComputeEndDate
  <2>2. CASE p = "week"
    <3>1. first = StartOfWeek(d) /\ ComputeEndDate(p, first) = first + 7
      BY <2>2 DEF StartOf, ComputeEndDate
    <3> QED
      BY <1>1, <3>1, WeekStarts
  <2>3. CASE p = "month"
    <3>1. /\ first = StartOfMonth(d)
          /\ ComputeEndDate(p, first) = NextMonth(YearOf(first), MonthOf(first)) + first - StartOfMonth(first)
      BY <2>3 DEF StartOf, ComputeEndDate
    <3> HIDE DEF first
    <3>2. first \in Nat /\ YearOf(first) = YearOf(d) /\ MonthOf(first) = MonthOf(d)
      BY <1>1, <3>1, MonthOfItsStart
    <3>3. StartOfMonth(first) = first
      BY <3>1, <3>2 DEF StartOfMonth
    <3>4. YearOf(first) \in Int /\ MonthOf(first) \in 1 .. 12 /\ first < NextMonth(YearOf(first), MonthOf(first))
      BY <3>2, YearHoldsDay, MonthHoldsDay
    <3>5. NextMonth(YearOf(first), MonthOf(first)) \in Int
      BY <3>4, MonthLengths
    <3> QED
      BY <3>1, <3>2, <3>3, <3>4, <3>5
  <2> QED
    BY <1>1, <2>1, <2>2, <2>3
<1> HIDE DEF first
<1>3. start \in Int /\ end \in Int /\ start < end
  BY <1>1, <1>2
<1> HIDE DEF start, end
<1> QED
  BY <1>3, BarsOfWindow

------------------------------------------------------------------------------
(* The pages.                                                                 *)

\* Every part keeps its own invariant, whichever part the behaviour is about.
PagesInv ==
    /\ focus \in PagePart
    /\ TokenLogInv /\ UsageInv /\ RotationInv /\ DateTypeOK /\ KeyInv /\ KeyLogInv /\ BodyInv

LEMMA PagesInitInv == PagesInit => PagesInv
  BY TokenLogInitInv, UsageInitInv, RotationInitInv, KeyInitInv, KeyLogInitInv, BodyInitInv
  DEF PagesInit, PagesInv, DateInit, DateTypeOK

\* A step of the pages is a step of one part, or of none.
LEMMA PagesStepInv == PagesInv /\ [PagesNext]_pagesVars => PagesInv'
<1> SUFFICES ASSUME PagesInv, [PagesNext]_pagesVars PROVE PagesInv'
  OBVIOUS
<1>1. /\ UNCHANGED focus /\ UNCHANGED dateSample
      /\ [TokenLogNext]_tokenLogVars /\ [UsageNext]_usageVars /\ [RotationNext]_rotationVars
      /\ [KeyNext]_keyVars /\ [KeyLogNext]_keyLogVars /\ [BodyNext]_bodyVars
  BY DEF PagesNext, pagesVars
<1>2. TokenLogInv' /\ UsageInv' /\ RotationInv'
  BY <1>1, TokenLogStepInv, UsageStepInv, RotationStepInv DEF PagesInv
<1>3. KeyInv' /\ KeyLogInv' /\ BodyInv'
  BY <1>1, KeyStepInv, KeyLogStepInv, BodyStepInv DEF PagesInv
<1>4. focus' \in PagePart /\ DateTypeOK'
  BY <1>1 DEF PagesInv, DateTypeOK, DateSample, NoDate
<1> QED
  BY <1>2, <1>3, <1>4 DEF PagesInv

\* Every state of the pages satisfies the invariants of all the parts.
LEMMA PagesAlwaysInv == PagesSpec => []PagesInv
  BY PagesInitInv, PagesStepInv, PTL DEF PagesSpec

\* Whatever the part, the state of its page keeps to its types: loads, tables, dialogs and
\* requests are of the views and records of the page.
THEOREM PagesTypeCorrect == PagesSpec => []PagesTypeOK
<1>1. PagesInv => PagesTypeOK
  <2> SUFFICES ASSUME PagesInv PROVE PagesTypeOK
    OBVIOUS
  <2>1. TokenLogTypeOK /\ UsageTypeOK /\ RotationTypeOK /\ DateTypeOK
    BY TokenLogInvImplies DEF PagesInv, UsageInv, RotationInv
  <2>2. KeyTypeOK /\ KeyLogTypeOK /\ BodyTypeOK
    BY KeyInvImplies, KeyLogInvImplies DEF PagesInv, BodyInv
  <2>3. focus \in PagePart
    BY DEF PagesInv
  <2> QED
    BY <2>1, <2>2, <2>3 DEF PagesTypeOK, PagePart
<1> QED
  BY <1>1, PagesAlwaysInv, PTL

\* The secret in the dialog after a rotation (rotateSecret of TokenDetail.tsx) is the one the
\* server accepts, whatever became of the rotations before it.
THEOREM RotatedSecretWorks == PagesSpec => []ShownSecretWorks
<1>1. PagesInv => ShownSecretWorks
  BY DEF PagesInv, RotationInv
<1> QED
  BY <1>1, PagesAlwaysInv, PTL

\* The tables of request records of a token and of a key hold what their window and filters ask
\* for, rows asked for again after a change of the kinds on record among them, which are of the
\* kinds they were asked under where the kinds changed once more before they came; ticks of kinds
\* and requests agree, and expanded bodies are of listed records: for every catalogue of kinds,
\* number of pages and records, and any order of answers (the effects and the stream of TokenDetail,
\* the effect of KeyDetails, AdminRecentRequestsPanel).
THEOREM TablesFollowFilters == PagesSpec => []TablesOfFilters
<1>1. PagesInv => TablesOfFilters
  BY TokenLogInvImplies, KeyLogInvImplies, BodyInvImplies DEF PagesInv, TablesOfFilters
<1> QED
  BY <1>1, PagesAlwaysInv, PTL

\* Cards and charts of a token are of the window on the screen, and so are the panels of a key
\* unless they were loaded by an operation that was clicked under another window or page and
\* answered under this one; a quarantine that was cleared is not shown for good; a period, its
\* input and the bars of its chart stand for the same days, for every day, current day and time
\* zone (the effects of TokenDetail and KeyDetails, syncUsage, clearQuarantine, UsageDates).
THEOREM PanelsFollowWindow == PagesSpec => []PanelsOfWindow
<1>1. PagesInv => PanelsOfWindow
  BY UsageInvImplies, KeyInvImplies, DatesWindow, DatesBars DEF PagesInv, PanelsOfWindow
<1> QED
  BY <1>1, PagesAlwaysInv, PTL
=============================================================================
