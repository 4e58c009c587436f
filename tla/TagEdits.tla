------------------------------ MODULE TagEdits ------------------------------
(***************************************************************************)
(* The catalog of user tags in the admin dashboard                          *)
(* (web/src/AdminDashboard.tsx): loading it, the card that is edited, and   *)
(* creating, changing and deleting a tag.  A save or a deletion ends with a *)
(* reload of the catalog that nothing aborts, and a save then leaves the    *)
(* editor by the route it was clicked on.                                   *)
(***************************************************************************)
EXTENDS Integers, FiniteSets

CONSTANTS
    Tag,             \* custom tags
    NewCard,         \* NEW_USER_TAG_CARD_ID, and the route of the create page
    NoTag,
    MaxTagRequests   \* bound: loads and edits on their way at once

ASSUME TagConstants ==
    NewCard \notin Tag /\ NoTag \notin Tag \cup {NewCard} /\ MaxTagRequests \in Nat

VARIABLES
    tagRoute,        \* "away", "list", or the tag or card the editor page is about
    tagCatalog, tagCatalogLoading, tagCatalogLoadedOnce,
    catalogLoads,    \* loads of the route's effect, with what the server read for them
    activeEditor,    \* activeUserTagEditorId
    tagDraft,        \* the tagId of userTagCatalogDraft: a tag, or NewCard for an empty form
    pendingDelete,   \* pendingUserTagDelete
    tagEdits,        \* saves and deletions that have not returned
    serverTags

tagVars == <<tagRoute, tagCatalog, tagCatalogLoading, tagCatalogLoadedOnce, catalogLoads,
             activeEditor, tagDraft, pendingDelete, tagEdits, serverTags>>

CardId == Tag \cup {NewCard}
TagRoute == CardId \cup {"away", "list"}

TagTypeOK ==
    /\ tagRoute \in TagRoute
    /\ tagCatalog \subseteq Tag /\ serverTags \subseteq Tag
    /\ tagCatalogLoading \in BOOLEAN /\ tagCatalogLoadedOnce \in BOOLEAN
    /\ catalogLoads \subseteq [aborted : BOOLEAN, served : BOOLEAN, read : SUBSET Tag]
    /\ activeEditor \in CardId \cup {NoTag}
    /\ tagDraft \in CardId
    /\ pendingDelete \in Tag \cup {NoTag}
    /\ tagEdits \subseteq [what : {"update", "create", "delete"}, tag : CardId, card : CardId,
                           onEditor : BOOLEAN, phase : {"write", "reload"}]

TagInit ==
    /\ tagRoute = "away" /\ tagCatalog = {} /\ tagCatalogLoading = FALSE
    /\ tagCatalogLoadedOnce = FALSE /\ catalogLoads = {}
    /\ activeEditor = NoTag /\ tagDraft = NewCard /\ pendingDelete = NoTag
    /\ tagEdits = {} /\ serverTags \in SUBSET Tag

TagRoom == Cardinality(catalogLoads) + Cardinality(tagEdits) < MaxTagRequests
SavingTag == \E e \in tagEdits : e.what # "delete"
DeletingTag == \E e \in tagEdits : e.what = "delete"

-----------------------------------------------------------------------------
(* What the pages show and offer.                                             *)

\* The cards of the catalog page; the new one is first while it is edited.
VisibleTagCards == tagCatalog \cup (IF activeEditor = NewCard THEN {NewCard} ELSE {})
CatalogPage ==
    CASE tagRoute = "away" -> "other"
      [] tagRoute # "away" /\ tagCatalogLoading -> "loading"
      [] OTHER -> IF VisibleTagCards = {} THEN "empty" ELSE "cards"

\* A card being edited offers save and cancel, any other one edit; custom tags delete.
CardOffers(c, what) ==
    /\ CatalogPage = "cards" /\ c \in VisibleTagCards
    /\ CASE what \in {"save", "cancel"} -> activeEditor = c /\ ~SavingTag
         [] what = "edit" -> activeEditor # c /\ c # NewCard
         [] OTHER -> c # NewCard /\ ~(\E e \in tagEdits : e.what = "delete" /\ e.tag = c)
                     /\ (activeEditor = c => ~SavingTag)

CreateOffered == tagRoute # "away" /\ activeEditor # NewCard
\* The summary on the users page shows the same catalog, without controls.
TagSummaryPanel == IF tagCatalogLoading THEN {} ELSE tagCatalog
DeleteDialogOffers == pendingDelete # NoTag /\ ~DeletingTag

-----------------------------------------------------------------------------

\* The effect of the editor page, run when its route, the catalog or the flags change: an
\* empty form, the form of the tag, or "tag not found".
OpenEditor(route, catalog, loaded, loading) ==
    CASE route = NewCard -> activeEditor' = NewCard /\ tagDraft' = NewCard
      [] route \in catalog -> activeEditor' = route /\ tagDraft' = route
      [] route \in Tag \ catalog /\ loaded /\ ~loading -> activeEditor' = NoTag /\ UNCHANGED tagDraft
      [] OTHER -> UNCHANGED <<activeEditor, tagDraft>>

\* The effect of every page that shows tags: abort the load before, send one.
LoadTagCatalog(route) ==
    LET aborted == {[l EXCEPT !.aborted = TRUE] : l \in catalogLoads}
    IN IF route = "away" THEN catalogLoads' = aborted /\ UNCHANGED tagCatalogLoading
       ELSE /\ catalogLoads' = aborted \cup {[aborted |-> FALSE, served |-> FALSE, read |-> {}]}
            /\ tagCatalogLoading' = TRUE

\* navigateUserTags, navigateUserTagCreate, navigateUserTagEdit, Back, or another page.
GoTagRoute(route) ==
    /\ tagRoute # route /\ TagRoom
    /\ tagRoute' = route
    /\ LoadTagCatalog(route)
    /\ OpenEditor(route, tagCatalog, tagCatalogLoadedOnce, route # "away")
    /\ UNCHANGED <<tagCatalog, tagCatalogLoadedOnce, pendingDelete, tagEdits, serverTags>>

ServeCatalog(l) ==
    /\ l \in catalogLoads /\ ~l.served
    /\ catalogLoads' = (catalogLoads \ {l}) \cup {[l EXCEPT !.served = TRUE, !.read = serverTags]}
    /\ UNCHANGED <<tagRoute, tagCatalog, tagCatalogLoading, tagCatalogLoadedOnce, activeEditor,
                   tagDraft, pendingDelete, tagEdits, serverTags>>

\* A failed load empties the catalog.
CatalogAnswered(l, ok) ==
    /\ l \in catalogLoads /\ l.served
    /\ catalogLoads' = catalogLoads \ {l}
    /\ IF l.aborted THEN UNCHANGED <<tagCatalog, tagCatalogLoading, tagCatalogLoadedOnce,
                                     activeEditor, tagDraft>>
       ELSE /\ tagCatalog' = IF ok THEN l.read ELSE {}
            /\ tagCatalogLoading' = FALSE /\ tagCatalogLoadedOnce' = TRUE
            /\ OpenEditor(tagRoute, tagCatalog', TRUE, FALSE)
    /\ UNCHANGED <<tagRoute, pendingDelete, tagEdits, serverTags>>

\* Mutant: the form is dropped, not emptied.
CancelEditNoForm(onEditor) ==
    /\ activeEditor' = NoTag /\ tagDraft' = NoTag
    /\ IF onEditor /\ tagRoute # "list" THEN tagRoute' = "list" /\ LoadTagCatalog("list")
       ELSE UNCHANGED <<tagRoute, catalogLoads, tagCatalogLoading>>

\* cancelUserTagCatalogEdit; "onEditor" is the route of the handler that calls it.
CancelEdit(onEditor) ==
    /\ activeEditor' = NoTag /\ tagDraft' = NewCard
    /\ IF onEditor /\ tagRoute # "list" THEN tagRoute' = "list" /\ LoadTagCatalog("list")
       ELSE UNCHANGED <<tagRoute, catalogLoads, tagCatalogLoading>>

CancelUserTagCatalogEdit ==
    /\ CardOffers(activeEditor, "cancel") /\ TagRoom
    /\ CancelEdit(tagRoute \in CardId)
    /\ UNCHANGED <<tagCatalog, tagCatalogLoadedOnce, pendingDelete, tagEdits, serverTags>>

\* saveUserTagCatalog: an update if the form's tag is in the catalog, a new tag otherwise.
SaveUserTagCatalog ==
    /\ activeEditor # NoTag /\ CardOffers(activeEditor, "save") /\ TagRoom
    /\ tagEdits' = tagEdits \cup
          {[what |-> IF tagDraft \in tagCatalog THEN "update" ELSE "create", tag |-> tagDraft,
            card |-> activeEditor, onEditor |-> tagRoute \in CardId, phase |-> "write"]}
    /\ UNCHANGED <<tagRoute, tagCatalog, tagCatalogLoading, tagCatalogLoadedOnce, catalogLoads,
                   activeEditor, tagDraft, pendingDelete, serverTags>>

RequestDelete(t) ==
    /\ CardOffers(t, "delete") /\ pendingDelete = NoTag
    /\ pendingDelete' = t
    /\ UNCHANGED <<tagRoute, tagCatalog, tagCatalogLoading, tagCatalogLoadedOnce, catalogLoads,
                   activeEditor, tagDraft, tagEdits, serverTags>>

CloseDeleteDialog ==
    /\ DeleteDialogOffers
    /\ pendingDelete' = NoTag
    /\ UNCHANGED <<tagRoute, tagCatalog, tagCatalogLoading, tagCatalogLoadedOnce, catalogLoads,
                   activeEditor, tagDraft, tagEdits, serverTags>>

ConfirmTagDelete ==
    /\ DeleteDialogOffers /\ TagRoom
    /\ tagEdits' = tagEdits \cup {[what |-> "delete", tag |-> pendingDelete, card |-> tagDraft,
                                   onEditor |-> tagRoute \in CardId, phase |-> "write"]}
    /\ UNCHANGED <<tagRoute, tagCatalog, tagCatalogLoading, tagCatalogLoadedOnce, catalogLoads,
                   activeEditor, tagDraft, pendingDelete, serverTags>>

\* The server takes the write; a new tag gets an id of its own.
TagWritten(e) ==
    /\ e \in tagEdits /\ e.phase = "write"
    /\ e.what = "update" => e.tag \in serverTags
    /\ serverTags' \in CASE e.what = "update" -> {serverTags}
                         [] e.what = "delete" -> {serverTags \ {e.tag}}
                         [] OTHER -> {serverTags \cup {t} : t \in Tag \ serverTags}
    /\ tagEdits' = (tagEdits \ {e}) \cup {[e EXCEPT !.phase = "reload"]}
    /\ UNCHANGED <<tagRoute, tagCatalog, tagCatalogLoading, tagCatalogLoadedOnce, catalogLoads,
                   activeEditor, tagDraft, pendingDelete>>

TagEditFails(e) ==
    /\ e \in tagEdits
    /\ tagEdits' = tagEdits \ {e}
    /\ UNCHANGED <<tagRoute, tagCatalog, tagCatalogLoading, tagCatalogLoadedOnce, catalogLoads,
                   activeEditor, tagDraft, pendingDelete, serverTags>>

\* The reload is there: a save, or the deletion of the tag in the form of its click,
\* leaves the editor; the dialog of a deletion closes.
TagEditDone(e) ==
    /\ e \in tagEdits /\ e.phase = "reload"
    /\ tagEdits' = tagEdits \ {e}
    /\ tagCatalog' = serverTags
    /\ pendingDelete' = IF e.what = "delete" /\ pendingDelete = e.tag THEN NoTag ELSE pendingDelete
    /\ IF e.what # "delete" \/ e.card = e.tag THEN CancelEdit(e.onEditor)
       ELSE /\ OpenEditor(tagRoute, serverTags, tagCatalogLoadedOnce, tagCatalogLoading)
            /\ UNCHANGED <<tagRoute, catalogLoads, tagCatalogLoading>>
    /\ UNCHANGED <<tagCatalogLoadedOnce, serverTags>>

TagAnswers ==
    \/ \E l \in catalogLoads : ServeCatalog(l) \/ \E ok \in BOOLEAN : CatalogAnswered(l, ok)
    \/ \E e \in tagEdits : TagWritten(e) \/ TagEditFails(e) \/ TagEditDone(e)

TagNext ==
    \/ \E r \in TagRoute : GoTagRoute(r)
    \/ \E t \in Tag : RequestDelete(t)
    \/ CancelUserTagCatalogEdit \/ SaveUserTagCatalog \/ CloseDeleteDialog \/ ConfirmTagDelete
    \/ TagAnswers

TagSpec == TagInit /\ [][TagNext]_tagVars

-----------------------------------------------------------------------------
\* A save does what its card says: the form of a tag changes that tag, even when the
\* catalog was reloaded or emptied under it, and the new card creates one.
SaveMeansCard ==
    \A e \in tagEdits : e.what # "delete" =>
        IF e.card = NewCard THEN e.what = "create" ELSE e.what = "update" /\ e.tag = e.card
=============================================================================
