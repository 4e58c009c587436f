--------------------------- MODULE TokenRotation ---------------------------
(***************************************************************************)
(* Regenerating a token's secret on its page (web/src/pages/                *)
(* TokenDetail.tsx): the confirmation, which can be closed and opened again *)
(* while the server works, the automatic copy, and the dialog that shows    *)
(* the new secret once.  Secrets are numbered as the server makes them.     *)
(***************************************************************************)
EXTENDS Integers

CONSTANT MaxSecrets    \* bound: secrets made
ASSUME SecretBound == MaxSecrets \in Nat \ {0}

VARIABLES
    tokenSecret,     \* external: the secret that works
    rotateDialog,    \* isRotateDialogOpen
    rotations,       \* runs of handleRotateToken: what each waits for
    rotationRunning, \* rotating
    rotated,         \* rotatedToken
    rotatedDialog,   \* isRotatedDialogOpen
    rotatedCopy,     \* rotatedCopyState
    manualCopies,    \* runs of handleCopyRotatedToken: the secret each copies
    clipboardSecret, \* external: the secret on the clipboard
    cachedSecret     \* onSecretRotated: the secret the dashboard keeps for its copy buttons

rotationVars == <<tokenSecret, rotateDialog, rotations, rotationRunning, rotated, rotatedDialog,
                  rotatedCopy, manualCopies, clipboardSecret, cachedSecret>>

RotationTypeOK ==
    /\ {tokenSecret, rotated, clipboardSecret, cachedSecret} \subseteq 0 .. MaxSecrets
    /\ {rotateDialog, rotationRunning, rotatedDialog} \subseteq BOOLEAN
    /\ rotations \subseteq [at : {"server", "answer", "copy"}, secret : 0 .. MaxSecrets]
    /\ rotatedCopy \in {"idle", "copied", "error"}
    /\ manualCopies \subseteq 0 .. MaxSecrets

RotationInit ==
    /\ tokenSecret = 0 /\ rotated = 0 /\ clipboardSecret = 0 /\ cachedSecret = 0
    /\ rotateDialog = FALSE /\ rotatedDialog = FALSE /\ rotationRunning = FALSE
    /\ rotations = {} /\ rotatedCopy = "idle" /\ manualCopies = {}

\* The dialogs are modal: the button of the page is reached when both are closed.
PageReached == ~rotateDialog /\ ~rotatedDialog

OpenRotateDialog ==
    /\ PageReached /\ rotateDialog' = TRUE
    /\ UNCHANGED <<tokenSecret, rotations, rotationRunning, rotated, rotatedDialog, rotatedCopy,
                   manualCopies, clipboardSecret, cachedSecret>>

\* Cancel, or a click outside; a rotation on its way goes on.
CloseRotateDialog ==
    /\ rotateDialog /\ rotateDialog' = FALSE
    /\ UNCHANGED <<tokenSecret, rotations, rotationRunning, rotated, rotatedDialog, rotatedCopy,
                   manualCopies, clipboardSecret, cachedSecret>>

\* The button of the dialog.
RegenerateOffered == rotateDialog /\ ~rotationRunning

HandleRotateToken ==
    /\ RegenerateOffered /\ tokenSecret < MaxSecrets
    /\ rotationRunning' = TRUE
    /\ rotations' = rotations \cup {[at |-> "server", secret |-> 0]}
    /\ UNCHANGED <<tokenSecret, rotateDialog, rotated, rotatedDialog, rotatedCopy, manualCopies,
                   clipboardSecret, cachedSecret>>

\* External: the server makes a new secret; the old one no longer works.
ServerRotates(r) ==
    /\ r.at = "server" /\ tokenSecret < MaxSecrets
    /\ tokenSecret' = tokenSecret + 1
    /\ rotations' = (rotations \ {r}) \cup {[at |-> "answer", secret |-> tokenSecret + 1]}
    /\ UNCHANGED <<rotateDialog, rotationRunning, rotated, rotatedDialog, rotatedCopy, manualCopies,
                   clipboardSecret, cachedSecret>>

\* The answer: the dashboard learns the secret, and the automatic copy starts.
RotationAnswered(r) ==
    /\ r.at = "answer"
    /\ rotated' = r.secret /\ cachedSecret' = r.secret
    /\ rotations' = (rotations \ {r}) \cup {[r EXCEPT !.at = "copy"]}
    /\ UNCHANGED <<tokenSecret, rotateDialog, rotationRunning, rotatedDialog, rotatedCopy, manualCopies,
                   clipboardSecret>>

\* Mutant: the secret is shown although the answer was lost.
RotationFailsShown(r) ==
    /\ r.at \in {"server", "answer"}
    /\ rotations' = rotations \ {r} /\ rotationRunning' = FALSE
    /\ rotateDialog' = FALSE /\ rotatedDialog' = TRUE
    /\ UNCHANGED <<tokenSecret, rotated, rotatedCopy, manualCopies, clipboardSecret, cachedSecret>>

\* The request fails, before or after the server acted; an alert names the error.
RotationFails(r) ==
    /\ r.at \in {"server", "answer"}
    /\ rotations' = rotations \ {r} /\ rotationRunning' = FALSE
    /\ rotateDialog' = FALSE
    /\ UNCHANGED <<tokenSecret, rotated, rotatedDialog, rotatedCopy, manualCopies,
                   clipboardSecret, cachedSecret>>

\* The copy has ended: the new secret is shown, and whether it was copied.
RotationShown(r, ok) ==
    /\ r.at = "copy"
    /\ rotations' = rotations \ {r} /\ rotationRunning' = FALSE
    /\ clipboardSecret' = IF ok THEN r.secret ELSE clipboardSecret
    /\ rotatedCopy' = IF ok THEN "copied" ELSE "error"
    /\ rotateDialog' = FALSE /\ rotatedDialog' = TRUE
    /\ UNCHANGED <<tokenSecret, rotated, manualCopies, cachedSecret>>

CloseRotatedDialog ==
    /\ rotatedDialog /\ rotatedDialog' = FALSE
    /\ UNCHANGED <<tokenSecret, rotateDialog, rotations, rotationRunning, rotated, rotatedCopy,
                   manualCopies, clipboardSecret, cachedSecret>>

HandleCopyRotatedToken ==
    /\ rotatedDialog /\ rotated # 0
    /\ manualCopies' = manualCopies \cup {rotated}
    /\ UNCHANGED <<tokenSecret, rotateDialog, rotations, rotationRunning, rotated, rotatedDialog,
                   rotatedCopy, clipboardSecret, cachedSecret>>

\* The copy of the dialog's button ends; the dialog may be another one by then.
CopyEnds(n, ok) ==
    /\ n \in manualCopies /\ manualCopies' = manualCopies \ {n}
    /\ clipboardSecret' = IF ok THEN n ELSE clipboardSecret
    /\ rotatedCopy' = IF ok THEN "copied" ELSE "error"
    /\ UNCHANGED <<tokenSecret, rotateDialog, rotations, rotationRunning, rotated, rotatedDialog,
                   cachedSecret>>

RotationNext ==
    \/ OpenRotateDialog \/ CloseRotateDialog \/ HandleRotateToken
    \/ \E r \in rotations : ServerRotates(r) \/ RotationAnswered(r) \/ RotationFails(r)
    \/ \E r \in rotations, ok \in BOOLEAN : RotationShown(r, ok)
    \/ CloseRotatedDialog \/ HandleCopyRotatedToken
    \/ \E n \in manualCopies, ok \in BOOLEAN : CopyEnds(n, ok)

RotationSpec == RotationInit /\ [][RotationNext]_rotationVars

-----------------------------------------------------------------------------
(* Properties.                                                                *)

\* The secret the dialog shows as new is the one that works: dialogs closed and opened again
\* during a rotation, lost answers and failed copies never leave an older one in it.
ShownSecretWorks == rotatedDialog => rotated = tokenSecret
=============================================================================
