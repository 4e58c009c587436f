------------------------------ MODULE RowEdits ------------------------------
(***************************************************************************)
(* Edits of rows in the token and key lists of the admin page               *)
(* (web/src/AdminDashboard.tsx): enable, disable, delete, note, quarantine, *)
(* one new token and a batch of them.  Each is an asynchronous handler that *)
(* marks a slot as busy (togglingId, deletingId, ...), changes the server,  *)
(* loads the lists again and frees the slot; some are confirmed in a        *)
(* dialog.  Slots are shared by all rows and, some, by tokens and keys;     *)
(* dialogs can be cancelled while their handler runs.                       *)
(***************************************************************************)
EXTENDS Integers, FiniteSets

CONSTANTS
    TokenRow,      \* tokens in the list
    KeyRow,        \* keys in the list
    NoRow,         \* null
    MaxRowOps      \* bound: handlers running at once
\* There is a row: the one a slot holds when a token is created stands for "some".
ASSUME RowEditsConstants ==
    /\ TokenRow \cap KeyRow = {} /\ TokenRow \cup KeyRow # {}
    /\ NoRow \notin TokenRow \cup KeyRow /\ MaxRowOps \in Nat \ {0}

VARIABLES
    rowDialog,     \* pendingTokenDeleteId, editingTokenId, pendingDeleteId, pendingDisableId and
                   \* the batch dialog (open on every row or none), by dialog
    rowSlot,       \* togglingId, deletingId, clearingQuarantineId, savingTokenNote, submitting,
                   \* batchCreating (the last three: any row but NoRow is true)
    rowOps,        \* the handlers that run; alone: since it started, no other of its slot has run
    batchLinks,    \* batchShareText # null
    keyStatus      \* external: active, disabled or quarantined keys, as listed

rowVars == <<rowDialog, rowSlot, rowOps, batchLinks, keyStatus>>

Row == TokenRow \cup KeyRow
RowDialog == {"tokenDelete", "tokenNote", "keyDelete", "keyDisable", "batch"}
RowSlot == {"toggling", "deleting", "clearing", "note", "submitting", "batch"}
RowOp == {"toggleToken", "deleteToken", "saveTokenNote", "deleteKey", "disableKey", "enableKey",
          "clearQuarantine", "addToken", "batchCreate"}
SomeRow == CHOOSE r \in Row : TRUE

RowTypeOK ==
    /\ rowDialog \in [RowDialog -> Row \cup {NoRow}]
    /\ rowSlot \in [RowSlot -> Row \cup {NoRow}]
    /\ rowOps \subseteq [op : RowOp, row : Row, step : {"server", "reload"},
                  n : 1 .. MaxRowOps, alone : BOOLEAN]
    /\ batchLinks \in BOOLEAN
    /\ keyStatus \in [KeyRow -> {"active", "disabled", "quarantined"}]

SlotOf(op) == CASE op \in {"toggleToken", "disableKey", "enableKey"} -> "toggling"
                [] op \in {"deleteToken", "deleteKey"} -> "deleting"
                [] op = "clearQuarantine" -> "clearing"
                [] op = "saveTokenNote" -> "note"
                [] op = "addToken" -> "submitting"
                [] op = "batchCreate" -> "batch"
DialogOf(op) == CASE op = "deleteToken" -> "tokenDelete" [] op = "saveTokenNote" -> "tokenNote"
                  [] op = "deleteKey" -> "keyDelete" [] op = "disableKey" -> "keyDisable"
                  [] op = "batchCreate" -> "batch" [] OTHER -> "none"

RowInit ==
    /\ rowDialog = [d \in RowDialog |-> NoRow] /\ rowSlot = [s \in RowSlot |-> NoRow]
    /\ rowOps = {} /\ batchLinks = FALSE
    /\ keyStatus \in [KeyRow -> {"active", "disabled", "quarantined"}]

\* A dialog covers the page.
PageReachable == \A d \in RowDialog : rowDialog[d] = NoRow

RunningOps(s) == {o \in rowOps : SlotOf(o.op) = s}

\* A handler starts, and takes the slot from the one that has it.
Begin(op, r) ==
    \E n \in 1 .. MaxRowOps :
        LET beside == RunningOps(SlotOf(op)) IN
        /\ \A o \in rowOps : o.n # n
        /\ rowOps' = (rowOps \ beside) \cup {[o EXCEPT !.alone = FALSE] : o \in beside}
                     \cup {[op |-> op, row |-> r, step |-> "server", n |-> n, alone |-> beside = {}]}
        /\ rowSlot' = [rowSlot EXCEPT ![SlotOf(op)] = r]

-----------------------------------------------------------------------------
(* The rows.                                                                  *)

\* The buttons of a row.  Table and cards disagree in details (a card's switch also waits for a
\* quarantine being cleared, a table's delete button too): the looser of the two.
TokenActions(t) == [toggle |-> rowSlot["toggling"] # t, delete |-> rowSlot["deleting"] # t]
KeyActions(k) ==
    [clear |-> keyStatus[k] = "quarantined" /\ rowSlot["clearing"] # k,
     enable |-> keyStatus[k] = "disabled" /\ rowSlot["toggling"] # k,
     disable |-> keyStatus[k] = "active" /\ rowSlot["toggling"] # k,
     delete |-> rowSlot["deleting"] # k]

ToggleToken(t) ==
    /\ PageReachable /\ TokenActions(t).toggle /\ Begin("toggleToken", t)
    /\ UNCHANGED <<rowDialog, batchLinks, keyStatus>>
EnableKey(k) ==
    /\ PageReachable /\ KeyActions(k).enable /\ Begin("enableKey", k)
    /\ UNCHANGED <<rowDialog, batchLinks, keyStatus>>
HandleClearQuarantine(k) ==
    /\ PageReachable /\ KeyActions(k).clear /\ Begin("clearQuarantine", k)
    /\ UNCHANGED <<rowDialog, batchLinks, keyStatus>>

OpenRowDialog(d, r) ==
    /\ PageReachable
    /\ \/ d = "tokenDelete" /\ r \in TokenRow /\ TokenActions(r).delete
       \/ d = "tokenNote" /\ r \in TokenRow
       \/ d = "keyDelete" /\ r \in KeyRow /\ KeyActions(r).delete
       \/ d = "keyDisable" /\ r \in KeyRow /\ KeyActions(r).disable
    /\ rowDialog' = [rowDialog EXCEPT ![d] = r]
    /\ UNCHANGED <<rowSlot, rowOps, batchLinks, keyStatus>>

\* cancelTokenDelete, cancelTokenNote, cancelDelete, cancelDisable, closeBatchDialog
CancelRowDialog(d) ==
    /\ rowDialog[d] # NoRow /\ rowDialog' = [rowDialog EXCEPT ![d] = NoRow]
    /\ UNCHANGED <<rowSlot, rowOps, batchLinks, keyStatus>>

-----------------------------------------------------------------------------
(* The dialogs.                                                               *)

\* The confirming buttons wait until the slot is free, whatever row holds it.
ConfirmOffered(op) == rowSlot[SlotOf(op)] = NoRow

Confirm(op) ==
    /\ rowDialog[DialogOf(op)] # NoRow /\ ConfirmOffered(op)
    /\ Begin(op, rowDialog[DialogOf(op)])
    /\ UNCHANGED <<rowDialog, batchLinks, keyStatus>>

ConfirmTokenDelete == Confirm("deleteToken")
SaveTokenNote == Confirm("saveTokenNote")
ConfirmKeyDelete == Confirm("deleteKey")
ConfirmDisable == Confirm("disableKey")

HandleAddToken ==
    /\ PageReachable /\ rowSlot["submitting"] = NoRow /\ Begin("addToken", SomeRow)
    /\ UNCHANGED <<rowDialog, batchLinks, keyStatus>>

OpenBatchDialog ==
    /\ PageReachable /\ rowSlot["submitting"] = NoRow
    /\ rowDialog' = [rowDialog EXCEPT !["batch"] = SomeRow] /\ batchLinks' = FALSE
    /\ UNCHANGED <<rowSlot, rowOps, keyStatus>>

\* The form of the dialog, not its result; a blank group is not sent.
SubmitBatchCreate == ~batchLinks /\ Confirm("batchCreate")

-----------------------------------------------------------------------------
(* The handlers.                                                              *)

\* A handler closes the dialog of its kind, whatever row it is now open on.
DialogClosed(op) == IF DialogOf(op) = "none" THEN rowDialog
                    ELSE [rowDialog EXCEPT ![DialogOf(op)] = NoRow]

StatusAfter(o) ==
    CASE o.op = "disableKey" -> [keyStatus EXCEPT ![o.row] = "disabled"]
      [] o.op \in {"enableKey", "clearQuarantine"} -> [keyStatus EXCEPT ![o.row] = "active"]
      [] OTHER -> keyStatus

\* The server has done it: the dialog of a deletion or a note closes, the links of a batch are
\* shown, and the lists are loaded again (AdminFeed, AdminLists).
OpDone(o) ==
    /\ o \in rowOps /\ o.step = "server"
    /\ rowOps' = (rowOps \ {o}) \cup {[o EXCEPT !.step = "reload"]}
    /\ rowDialog' = IF o.op \in {"deleteToken", "saveTokenNote", "deleteKey"}
                    THEN DialogClosed(o.op) ELSE rowDialog
    /\ batchLinks' = (batchLinks \/ o.op = "batchCreate")
    /\ UNCHANGED <<rowSlot, keyStatus>>

\* The handler ends: after the lists are loaded or could not be, or because the server refused.
\* The dialog of a disabled key closes only now, and also when it was refused.
Finish(o) ==
    /\ rowOps' = rowOps \ {o}
    /\ rowSlot' = [rowSlot EXCEPT ![SlotOf(o.op)] = NoRow]
    /\ rowDialog' = IF o.op = "disableKey" THEN DialogClosed(o.op) ELSE rowDialog

OpReloaded(o) ==
    /\ o \in rowOps /\ o.step = "reload" /\ Finish(o)
    /\ keyStatus' \in {keyStatus, StatusAfter(o)}
    /\ UNCHANGED batchLinks

OpFails(o) ==
    /\ o \in rowOps /\ o.step = "server" /\ Finish(o)
    /\ UNCHANGED <<batchLinks, keyStatus>>

OpAdvances == \E o \in rowOps : OpDone(o) \/ OpReloaded(o) \/ OpFails(o)

RowNext ==
    \/ \E t \in TokenRow : ToggleToken(t)
    \/ \E k \in KeyRow : EnableKey(k) \/ HandleClearQuarantine(k)
    \/ \E d \in RowDialog, r \in Row : OpenRowDialog(d, r)
    \/ \E d \in RowDialog : CancelRowDialog(d)
    \/ ConfirmTokenDelete \/ SaveTokenNote \/ ConfirmKeyDelete \/ ConfirmDisable
    \/ HandleAddToken \/ OpenBatchDialog \/ SubmitBatchCreate
    \/ OpAdvances

RowSpec == RowInit /\ [][RowNext]_rowVars

-----------------------------------------------------------------------------
(* Properties.                                                                *)

\* A busy slot is held by a handler that runs on its row, so no button stays disabled after the
\* handlers are gone, in whatever order they end or fail.
BusyIsRunning ==
    \A s \in RowSlot : rowSlot[s] # NoRow => \E o \in RunningOps(s) : o.row = rowSlot[s]

\* A handler that no other of its slot has overlapped holds the slot with its row until it ends,
\* so its button cannot be pressed twice, whatever runs in the other slots.  Of two switches (or
\* two quarantines cleared) side by side the slot keeps the later row and the first to end frees
\* it: the other runs on without a sign.
AloneHoldsSlot == \A o \in rowOps : o.alone => rowSlot[SlotOf(o.op)] = o.row

\* Deletions, notes and new tokens never overlap, tokens and keys together.
OneAtATime ==
    \A s \in {"deleting", "note", "submitting", "batch"} :
        /\ Cardinality(RunningOps(s)) <= 1
        /\ \A o \in RunningOps(s) : o.alone
=============================================================================
