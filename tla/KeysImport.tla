----------------------------- MODULE KeysImport -----------------------------
(***************************************************************************)
(* Adding upstream keys in the admin dashboard (web/src/AdminDashboard.tsx, *)
(* components/ApiKeysValidationDialog.tsx): an input that unfolds into an   *)
(* overlay when the pointer or the focus comes near and folds again by      *)
(* itself; a dialog that validates the pasted keys in chunks, retries the   *)
(* ones that failed and imports the valid ones in chunks.                   *)
(*                                                                          *)
(* A line of the pasted text is the key in it.  A run of validation is      *)
(* identified by keysValidateRunIdRef; an import remembers the run it       *)
(* started under.  Lines that repeat a key follow the first one.            *)
(***************************************************************************)
EXTENDS Integers, FiniteSets

CONSTANTS
    NewKey,          \* keys that can be pasted
    ValidateChunk,   \* CHUNK_SIZE of runValidateKeys
    ImportChunk,     \* API_KEYS_IMPORT_CHUNK_SIZE
    MaxRuns,         \* bound: runs of validation
    MaxImports       \* bound: imports

ASSUME ImportConstants ==
    /\ IsFiniteSet(NewKey)
    /\ ValidateChunk \in Nat \ {0} /\ ImportChunk \in Nat \ {0}
    /\ MaxRuns \in Nat /\ MaxImports \in Nat

VARIABLES
    newKeysText,     \* the text of the input: the keys in it, and whether it is blank
    overlay,         \* keysBatchExpanded, keysBatchClosing and the two timers
    pointer,         \* where the pointer is: on the anchor, on the overlay, or away
    overlayFocus,    \* the focus is in the overlay
    suppressHover,   \* keysBatchSuppressNextHoverRef
    validation,      \* keysValidation, the state of the dialog
    runId,           \* keysValidateRunIdRef
    validating,      \* runs of runValidateKeys that have not returned
    importing,       \* calls of handleImportValidatedKeys that have not returned
    importCount,
    serverKeys       \* keys the server has

overlayVars == <<overlay, pointer, overlayFocus, suppressHover>>
dialogVars == <<validation, runId, validating, importing, importCount, serverKeys>>
importVars == <<newKeysText, overlayVars, dialogVars>>

RowStatus == {"absent", "pending", "ok", "ok_exhausted", "invalid", "error"}
Failed == {"invalid", "error"}
NoDialog == [open |-> FALSE, rows |-> [k \in NewKey |-> "absent"], checking |-> FALSE,
             importing |-> FALSE, imported |-> {}, importError |-> FALSE]
Blank == [blank |-> TRUE, keys |-> {}]

ImportTypeOK ==
    /\ newKeysText \in [blank : BOOLEAN, keys : SUBSET NewKey]
    /\ overlay \in [expanded : BOOLEAN, closing : BOOLEAN,
                    collapseTimer : {"none", "blur", "hover"}, closeTimer : BOOLEAN]
    /\ pointer \in {"away", "anchor", "overlay"}
    /\ overlayFocus \in BOOLEAN /\ suppressHover \in BOOLEAN
    /\ validation \in [open : BOOLEAN, rows : [NewKey -> RowStatus], checking : BOOLEAN,
                       importing : BOOLEAN, imported : SUBSET NewKey, importError : BOOLEAN]
    /\ runId \in 0 .. MaxRuns
    /\ validating \subseteq [run : 1 .. MaxRuns, todo : SUBSET NewKey, sent : SUBSET NewKey,
                             aborted : BOOLEAN]
    /\ importing \subseteq [id : 1 .. MaxImports, run : 1 .. MaxRuns, todo : SUBSET NewKey,
                            sent : SUBSET NewKey, done : SUBSET NewKey, before : SUBSET NewKey,
                            phase : {"adding", "refreshing"}]
    /\ importCount \in 0 .. MaxImports
    /\ serverKeys \subseteq NewKey

ImportInit ==
    /\ newKeysText = Blank
    /\ overlay = [expanded |-> FALSE, closing |-> FALSE, collapseTimer |-> "none",
                  closeTimer |-> FALSE]
    /\ pointer = "away" /\ overlayFocus = FALSE /\ suppressHover = FALSE
    /\ validation = NoDialog
    /\ runId = 0
    /\ validating = {} /\ importing = {} /\ importCount = 0
    /\ serverKeys = {}

-----------------------------------------------------------------------------
(* The overlay.                                                               *)

KeysBatchVisible == overlay.expanded \/ overlay.closing

\* clearKeysBatchAutoCollapseTimer and clearKeysBatchCloseTimer.
ClearCollapseTimer(o) == [o EXCEPT !.collapseTimer = "none"]
ClearCloseTimer(o) == [o EXCEPT !.closeTimer = FALSE]
Expand(o) == [ClearCloseTimer(ClearCollapseTimer(o)) EXCEPT !.closing = FALSE, !.expanded = TRUE]

\* beginKeysBatchClose.  With reduced motion there is no animation to wait for.
\* maybeSuppressHoverReopen: under a resting pointer the anchor is not to open again.
BeginKeysBatchClose(reducedMotion) ==
    IF ~KeysBatchVisible THEN UNCHANGED <<overlay, suppressHover>>
    ELSE /\ overlay' = [expanded |-> FALSE, closing |-> ~reducedMotion, collapseTimer |-> "none",
                        closeTimer |-> ~reducedMotion]
         /\ suppressHover' = (suppressHover \/ pointer = "anchor")

\* The pointer enters or leaves the anchor.  Entering it opens the overlay unless it was
\* closed under the pointer.
AnchorEnter ==
    /\ pointer = "away"
    /\ pointer' = "anchor"
    /\ suppressHover' = FALSE
    /\ overlay' = IF suppressHover
                  THEN [ClearCloseTimer(ClearCollapseTimer(overlay)) EXCEPT !.closing = FALSE]
                  ELSE Expand(overlay)
    /\ UNCHANGED <<newKeysText, overlayFocus, dialogVars>>

\* scheduleKeysBatchAutoCollapse.
Schedule(mode) ==
    IF overlay.expanded /\ newKeysText.blank THEN [overlay EXCEPT !.collapseTimer = mode]
    ELSE overlay

AnchorLeave ==
    /\ pointer = "anchor"
    /\ pointer' \in {"away"} \cup (IF KeysBatchVisible THEN {"overlay"} ELSE {})
    /\ suppressHover' = FALSE
    /\ overlay' = Schedule("hover")
    /\ UNCHANGED <<newKeysText, overlayFocus, dialogVars>>

\* The keyboard or a click puts the focus on the anchor: the overlay opens and its text
\* area takes the focus over in the next frame.
AnchorFocus ==
    /\ ~overlayFocus
    /\ overlayFocus' = TRUE
    /\ overlay' = Expand(overlay)
    /\ UNCHANGED <<newKeysText, pointer, suppressHover, dialogVars>>

OverlayEnter ==
    /\ KeysBatchVisible /\ pointer # "overlay"
    /\ pointer' = "overlay"
    /\ overlay' = IF overlay.closing THEN Expand(overlay) ELSE ClearCollapseTimer(overlay)
    /\ UNCHANGED <<newKeysText, overlayFocus, suppressHover, dialogVars>>

OverlayLeave ==
    /\ KeysBatchVisible /\ pointer = "overlay"
    /\ pointer' = "away"
    /\ overlay' = Schedule("hover")
    /\ UNCHANGED <<newKeysText, overlayFocus, suppressHover, dialogVars>>

\* onPointerDown of the overlay: the text area gets the focus.
OverlayPress ==
    /\ KeysBatchVisible /\ pointer = "overlay"
    /\ overlay' = IF overlay.closing THEN Expand(overlay) ELSE ClearCollapseTimer(overlay)
    /\ overlayFocus' = TRUE
    /\ UNCHANGED <<newKeysText, pointer, suppressHover, dialogVars>>

\* The text area loses the focus to something outside the overlay.
TextareaBlur ==
    /\ KeysBatchVisible /\ overlayFocus
    /\ overlayFocus' = FALSE
    /\ overlay' = Schedule("blur")
    /\ UNCHANGED <<newKeysText, pointer, suppressHover, dialogVars>>

Type(blank, keys) ==
    /\ overlay.expanded /\ overlayFocus
    /\ blank => keys = {}
    /\ newKeysText' = [blank |-> blank, keys |-> keys]
    /\ UNCHANGED <<overlayVars, dialogVars>>

\* A press outside, or Escape.
PressOutside(reducedMotion) ==
    /\ overlay.expanded
    /\ overlayFocus' = FALSE
    /\ BeginKeysBatchClose(reducedMotion)
    /\ UNCHANGED <<newKeysText, pointer, dialogVars>>

\* What keeps the overlay open when the timer fires.
KeepsOpen == \/ ~newKeysText.blank
             \/ overlayFocus
             \/ overlay.collapseTimer = "hover" /\ pointer # "away"

CollapseTimerFires(reducedMotion) ==
    /\ overlay.collapseTimer # "none"
    /\ IF KeepsOpen THEN overlay' = ClearCollapseTimer(overlay) /\ UNCHANGED suppressHover
       ELSE BeginKeysBatchClose(reducedMotion)
    /\ UNCHANGED <<newKeysText, pointer, overlayFocus, dialogVars>>

CloseTimerFires ==
    /\ overlay.closeTimer
    /\ overlay' = [overlay EXCEPT !.closeTimer = FALSE, !.closing = FALSE]
    /\ pointer' = IF pointer = "overlay" THEN "away" ELSE pointer
    /\ overlayFocus' = FALSE
    /\ UNCHANGED <<newKeysText, suppressHover, dialogVars>>

-----------------------------------------------------------------------------
(* The dialog: what it shows and offers.                                      *)

VisibleRows == {k \in NewKey : validation.rows[k] # "absent" /\ k \notin validation.imported}
RowsWith(status) == {k \in VisibleRows : validation.rows[k] \in status}
ValidKeys == RowsWith({"ok", "ok_exhausted"})
ExhaustedKeys == RowsWith({"ok_exhausted"})

\* keysValidationCounts and the segments of the progress bar.
Counts ==
    [pending |-> Cardinality(RowsWith({"pending"})), ok |-> Cardinality(RowsWith({"ok"})),
     exhausted |-> Cardinality(ExhaustedKeys), invalid |-> Cardinality(RowsWith({"invalid"})),
     error |-> Cardinality(RowsWith({"error"})), totalToCheck |-> Cardinality(VisibleRows)]

\* filterKeyForStatus: the rows under a chip of the legend.
FilteredRows(filter) == IF filter = "all" THEN VisibleRows ELSE RowsWith({filter})

IsBusy == validation.checking \/ validation.importing
CanRetryFailed == validation.open /\ ~IsBusy /\ Counts.invalid + Counts.error > 0
CanRetryOne(k) == validation.open /\ ~IsBusy /\ k \in RowsWith(Failed)
CanImport == validation.open /\ ~IsBusy /\ Counts.pending = 0 /\ ValidKeys # {}

\* The rows of the dialog, as cards on a small viewport and as a table otherwise.
ImportRowOffers(k) == IF CanRetryOne(k) THEN {"retry"} ELSE {}
ImportDialogOffers ==
    (IF CanRetryFailed THEN {"retryFailed"} ELSE {}) \cup (IF CanImport THEN {"import"} ELSE {})
    \cup (IF validation.open THEN {"close"} ELSE {})

-----------------------------------------------------------------------------
(* Validation.                                                                *)

Chunks(keys, size) ==
    LET n == IF Cardinality(keys) < size THEN Cardinality(keys) ELSE size
    IN {c \in SUBSET keys : Cardinality(c) = n}

\* runValidateKeys starts: the run before is aborted, the first chunk is sent.
StartValidating(run, keys) ==
    \E c \in Chunks(keys, ValidateChunk) :
        validating' = {[v EXCEPT !.aborted = TRUE] : v \in validating}
                      \cup {[run |-> run, todo |-> keys \ c, sent |-> c, aborted |-> FALSE]}

\* extractApiKeyImportEntriesFromText: the keys of the text, a repeated one once.
ParsedKeys == newKeysText.keys

\* The add button of the overlay, or of the folded input.
AddKeyOffered == ParsedKeys # {} /\ ~validation.open

\* handleAddKey: a new run and a new dialog; the overlay folds.
HandleAddKey(reducedMotion) ==
    LET keys == ParsedKeys
    IN /\ AddKeyOffered
       /\ runId < MaxRuns
       /\ runId' = runId + 1
       /\ validation' = [NoDialog EXCEPT !.open = TRUE, !.checking = TRUE,
                            !.rows = [k \in NewKey |-> IF k \in keys THEN "pending" ELSE "absent"]]
       /\ newKeysText' = Blank
       /\ BeginKeysBatchClose(reducedMotion)
       /\ overlayFocus' = FALSE
       /\ StartValidating(runId + 1, keys)
       /\ UNCHANGED <<pointer, importing, importCount, serverKeys>>

\* markKeysPendingForRetry and the rest of the retry handlers.
Retry(keys) ==
    /\ runId < MaxRuns
    /\ runId' = runId + 1
    /\ validation' = [validation EXCEPT !.checking = TRUE, !.importError = FALSE,
                         !.rows = [k \in NewKey |-> IF k \in keys THEN "pending" ELSE @[k]]]
    /\ StartValidating(runId + 1, keys)
    /\ UNCHANGED <<newKeysText, overlayVars, importing, importCount, serverKeys>>

\* The keys of the rows that failed, those that are hidden included.
HandleRetryFailed ==
    /\ CanRetryFailed
    /\ Retry({k \in NewKey : validation.rows[k] \in Failed})
HandleRetryOne(k) == CanRetryOne(k) /\ Retry({k})

\* Mutant: results are applied whatever run they are of.
ApplyAnyResults(run, keys, res) ==
    IF validation.open
    THEN [validation EXCEPT !.rows = [k \in NewKey |-> IF k \in keys /\ @[k] # "absent"
                                                       THEN res[k] ELSE @[k]]]
    ELSE validation

\* applyValidationResults: only for the dialog that is open and the run that is current.
ApplyResults(run, keys, res) ==
    IF validation.open /\ run = runId
    THEN [validation EXCEPT !.rows = [k \in NewKey |-> IF k \in keys /\ @[k] # "absent"
                                                       THEN res[k] ELSE @[k]]]
    ELSE validation

\* The chunk on its way is answered, with "applied" as the dialog that results; the next
\* chunk is sent, or the run is over, and "checking" ends if it is the current one.
NextChunk(v, applied) ==
    IF v.todo = {}
    THEN /\ validating' = validating \ {v}
         /\ validation' = IF v.run = runId THEN [applied EXCEPT !.checking = FALSE] ELSE applied
    ELSE /\ \E c \in Chunks(v.todo, ValidateChunk) :
               validating' = (validating \ {v})
                             \cup {[v EXCEPT !.todo = @ \ c, !.sent = c]}
         /\ validation' = applied

ChunkValidated(v, res) ==
    /\ v \in validating /\ ~v.aborted
    /\ NextChunk(v, ApplyResults(v.run, v.sent, res))
    /\ UNCHANGED <<newKeysText, overlayVars, runId, importing, importCount, serverKeys>>

\* A chunk fails, or was aborted: its keys become errors, and the loop goes on.
ChunkFails(v) ==
    /\ v \in validating
    /\ NextChunk(v, ApplyResults(v.run, v.sent, [k \in NewKey |-> "error"]))
    /\ UNCHANGED <<newKeysText, overlayVars, runId, importing, importCount, serverKeys>>

\* closeKeysValidationDialog: an import goes on without its dialog.
CloseImportDialog ==
    /\ validation.open
    /\ validation' = NoDialog
    /\ validating' = {[v EXCEPT !.aborted = TRUE] : v \in validating}
    /\ UNCHANGED <<newKeysText, overlayVars, runId, importing, importCount, serverKeys>>

-----------------------------------------------------------------------------
(* Import.                                                                    *)

HandleImport ==
    /\ CanImport
    /\ importCount < MaxImports
    /\ importCount' = importCount + 1
    /\ validation' = [validation EXCEPT !.importing = TRUE, !.importError = FALSE]
    /\ \E c \in Chunks(ValidKeys, ImportChunk) :
          importing' = importing \cup
              {[id |-> importCount + 1, run |-> runId, todo |-> ValidKeys \ c, sent |-> c,
                done |-> {}, before |-> validation.imported, phase |-> "adding"]}
    /\ UNCHANGED <<newKeysText, overlayVars, runId, validating, serverKeys>>

\* Mutant: every key that was sent counts as imported.
ImportedAsSent(i, done) ==
    LET all == i.before \cup done \cup i.sent
        inDialog == {k \in NewKey : validation.rows[k] # "absent"}
    IN IF ~validation.open \/ i.run # runId THEN validation
       ELSE IF inDialog \subseteq all THEN NoDialog
       ELSE [validation EXCEPT !.importing = FALSE, !.imported = all]

\* The dialog after the last chunk of import i, unless another run has begun: the keys the
\* server took are hidden, and the dialog closes if they were all.
Imported(i, done) ==
    LET all == i.before \cup done
        inDialog == {k \in NewKey : validation.rows[k] # "absent"}
    IN IF ~validation.open \/ i.run # runId THEN validation
       ELSE IF inDialog \subseteq all THEN NoDialog
       ELSE [validation EXCEPT !.importing = FALSE, !.imported = all]

\* A chunk is answered: "taken" were created, undeleted or there already.  After the last
\* one the lists are refreshed.
ChunkImported(i, taken) ==
    LET done == i.done \cup taken
    IN /\ i \in importing /\ i.phase = "adding"
       /\ taken \subseteq i.sent
       /\ serverKeys' = serverKeys \cup taken
       /\ IF i.todo = {}
          THEN /\ validation' = Imported(i, done)
               /\ importing' = (importing \ {i})
                               \cup {[i EXCEPT !.done = done, !.sent = {}, !.phase = "refreshing"]}
          ELSE /\ \E c \in Chunks(i.todo, ImportChunk) :
                     importing' = (importing \ {i})
                                  \cup {[i EXCEPT !.done = done, !.todo = @ \ c, !.sent = c]}
               /\ UNCHANGED validation
       /\ UNCHANGED <<newKeysText, overlayVars, runId, validating, importCount>>

\* The catch of handleImportValidatedKeys, of a chunk and of the refresh after the last
\* one alike: keys of the chunks before stay on the server, and in the dialog.
ImportFails(i) ==
    /\ i \in importing
    /\ importing' = importing \ {i}
    /\ \E taken \in SUBSET i.sent : serverKeys' = serverKeys \cup taken
    /\ validation' = IF validation.open /\ i.run = runId
                     THEN [validation EXCEPT !.importing = FALSE, !.importError = TRUE]
                     ELSE validation
    /\ UNCHANGED <<newKeysText, overlayVars, runId, validating, importCount>>

ListsRefreshed(i) ==
    /\ i \in importing /\ i.phase = "refreshing"
    /\ importing' = importing \ {i}
    /\ UNCHANGED <<newKeysText, overlayVars, validation, runId, validating, importCount, serverKeys>>

-----------------------------------------------------------------------------
OverlayTimers == CloseTimerFires \/ \E m \in BOOLEAN : CollapseTimerFires(m)

\* The dialog is modal: while it is open the page under it gets no events.
OverlayEvents ==
    /\ ~validation.open
    /\ \/ AnchorEnter \/ AnchorLeave \/ AnchorFocus \/ OverlayEnter \/ OverlayLeave
       \/ OverlayPress \/ TextareaBlur
       \/ \E m \in BOOLEAN : PressOutside(m)
       \/ \E blank \in BOOLEAN, keys \in SUBSET NewKey : Type(blank, keys)

ImportProgress ==
    \/ \E v \in validating :
          \/ \E res \in [NewKey -> RowStatus \ {"absent", "pending"}] : ChunkValidated(v, res)
          \/ ChunkFails(v)
    \/ \E i \in importing : \/ \E taken \in SUBSET NewKey : ChunkImported(i, taken)
                            \/ ImportFails(i) \/ ListsRefreshed(i)

ImportNext ==
    \/ OverlayEvents \/ OverlayTimers \/ ImportProgress
    \/ \E m \in BOOLEAN : HandleAddKey(m)
    \/ HandleRetryFailed \/ HandleImport \/ CloseImportDialog
    \/ \E k \in NewKey : HandleRetryOne(k)

ImportSpec == ImportInit /\ [][ImportNext]_importVars

-----------------------------------------------------------------------------
\* The rows the dialog shows as pending are those the current run has still to answer: a
\* chunk that fails leaves none behind, and the answer of a run that was closed or
\* overtaken touches none (the run id checks of applyValidationResults).
PendingIsBeingChecked ==
    validation.open =>
        {k \in NewKey : validation.rows[k] = "pending"} =
        UNION {v.todo \cup v.sent : v \in {w \in validating : w.run = runId}}

\* A key leaves the dialog, unless the administrator closes it, only once the server has
\* it, through retries, partly failed imports and the dialog that closes by itself.
KeysLeaveToServer ==
    [][validation.open /\ ~CloseImportDialog =>
          \A k \in VisibleRows : k \in VisibleRows' \/ k \in serverKeys']_importVars
=============================================================================
