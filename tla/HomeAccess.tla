----------------------------- MODULE HomeAccess -----------------------------
(***************************************************************************)
(* What of a token is in clear on the page before login (web/src/           *)
(* PublicHome.tsx): the box and the dialog, which share one eye and one     *)
(* copy button's handler, and the guides.  How the token comes into the box *)
(* is the matter of PublicHome; here it may change at any time.             *)
(***************************************************************************)
EXTENDS Naturals, FiniteSets

CONSTANTS
    AccessToken,    \* full tokens
    OtherDraft,     \* texts that are no full token
    NoDraft,        \* the empty text, null, and the placeholder of the guides
    TrimDraft,      \* a text without the blanks around it
    MaxHomeCopies   \* bound: copies that wait for the clipboard

AccessText == AccessToken \cup OtherDraft \cup {NoDraft}

ASSUME AccessAssumption ==
    /\ TrimDraft \in [AccessText -> AccessText]
    /\ \A v \in AccessToken \cup {NoDraft} : TrimDraft[v] = v
    /\ NoDraft \notin AccessToken \cup OtherDraft

VARIABLES
    accessBox,      \* token
    panelsAllowed,  \* the page has loaded and the visitor is not known to be logged out
    accessDialog,   \* isTokenAccessDialogOpen, tokenDraft
    tokenVisible,   \* where the eye, or a copy that failed, has put the text in clear
    homeCopies,     \* runs of handleCopyToken that wait for the clipboard
    revealedToken,  \* revealedGuideToken
    askedToSee,     \* history: tokens whose eye in the guides was pressed
    lateCopy        \* history: a copy begun in the dialog failed when the dialog was gone

accessVars == <<accessBox, panelsAllowed, accessDialog, tokenVisible, homeCopies, revealedToken,
                askedToSee, lateCopy>>

AccessTypeOK ==
    /\ accessBox \in AccessText /\ {panelsAllowed, lateCopy} \subseteq BOOLEAN
    /\ accessDialog \in [open : BOOLEAN, draft : AccessText]
    /\ tokenVisible \in {"no", "box", "dialog"}
    /\ homeCopies \subseteq [from : {"box", "dialog"}, value : AccessText]
    /\ revealedToken \in AccessToken \cup {NoDraft} /\ askedToSee \subseteq AccessToken

AccessInit ==
    /\ accessBox = NoDraft /\ panelsAllowed = FALSE /\ accessDialog = [open |-> FALSE, draft |-> NoDraft]
    /\ tokenVisible = "no" /\ homeCopies = {} /\ revealedToken = NoDraft
    /\ askedToSee = {} /\ lateCopy = FALSE

FullDraft(text) == text \in AccessToken
PanelsHidden == TrimDraft[accessBox] = NoDraft /\ ~panelsAllowed

\* The box is on the page, and no dialog covers it.
BoxReached == ~PanelsHidden /\ ~accessDialog.open

\* The token is typed, comes from storage or from the account; the profile arrives.
BoxChanges(text, allowed) ==
    /\ accessBox' = text /\ panelsAllowed' = allowed
    /\ UNCHANGED <<accessDialog, tokenVisible, homeCopies, revealedToken, askedToSee, lateCopy>>

OpenTokenAccessDialog ==
    /\ PanelsHidden /\ ~accessDialog.open
    /\ accessDialog' = [open |-> TRUE, draft |-> accessBox] /\ tokenVisible' = "no"
    /\ UNCHANGED <<accessBox, panelsAllowed, homeCopies, revealedToken, askedToSee, lateCopy>>

TypeDraft(text) ==
    /\ accessDialog.open /\ text # accessDialog.draft
    /\ accessDialog' = [accessDialog EXCEPT !.draft = text]
    /\ UNCHANGED <<accessBox, panelsAllowed, tokenVisible, homeCopies, revealedToken, askedToSee, lateCopy>>

CloseTokenAccessDialog ==
    /\ accessDialog.open
    /\ accessDialog' = [accessDialog EXCEPT !.open = FALSE] /\ tokenVisible' = "no"
    /\ UNCHANGED <<accessBox, panelsAllowed, homeCopies, revealedToken, askedToSee, lateCopy>>

ConfirmTokenAccessDialog ==
    /\ accessDialog.open /\ FullDraft(TrimDraft[accessDialog.draft])
    /\ accessBox' = TrimDraft[accessDialog.draft]
    /\ accessDialog' = [accessDialog EXCEPT !.open = FALSE] /\ tokenVisible' = "no"
    /\ UNCHANGED <<panelsAllowed, homeCopies, revealedToken, askedToSee, lateCopy>>

\* The eye of the box and the eye of the dialog are one switch.
ToggleTokenVisibility(at) ==
    /\ IF at = "dialog" THEN accessDialog.open ELSE BoxReached
    /\ tokenVisible' = IF tokenVisible = "no" THEN at ELSE "no"
    /\ UNCHANGED <<accessBox, panelsAllowed, accessDialog, homeCopies, revealedToken, askedToSee, lateCopy>>

HandleCopyToken(at) ==
    /\ Cardinality(homeCopies) < MaxHomeCopies
    /\ IF at = "dialog" THEN accessDialog.open /\ TrimDraft[accessDialog.draft] # NoDraft ELSE BoxReached
    /\ homeCopies' = homeCopies \cup
          {[from |-> at, value |-> TrimDraft[IF at = "dialog" THEN accessDialog.draft ELSE accessBox]]}
    /\ UNCHANGED <<accessBox, panelsAllowed, accessDialog, tokenVisible, revealedToken, askedToSee, lateCopy>>

HomeCopied(c) ==
    /\ homeCopies' = homeCopies \ {c}
    /\ UNCHANGED <<accessBox, panelsAllowed, accessDialog, tokenVisible, revealedToken, askedToSee, lateCopy>>

\* A copy that fails puts its text in clear, to be copied by hand: into the dialog if the dialog
\* was open when the copy began, else into box and draft.
HomeCopyFails(c) ==
    /\ homeCopies' = homeCopies \ {c}
    /\ IF c.value = NoDraft THEN UNCHANGED <<accessBox, accessDialog, tokenVisible, lateCopy>>
       ELSE /\ accessBox' = IF c.from = "dialog" THEN accessBox ELSE c.value
            /\ accessDialog' = [accessDialog EXCEPT !.draft = c.value]
            /\ tokenVisible' = c.from
            /\ lateCopy' = (lateCopy \/ (c.from = "dialog" /\ ~accessDialog.open))
    /\ UNCHANGED <<panelsAllowed, revealedToken, askedToSee>>

\* The guides: revealed is a token, so that another one in the box is masked again.
ShouldRevealPublicGuideToken == FullDraft(accessBox) /\ revealedToken = accessBox
ResolvePublicGuideToken == IF ShouldRevealPublicGuideToken THEN accessBox ELSE NoDraft

\* Every guide names the token in a step or a snippet.
GuideContent == [guide \in {"codex", "claude", "vscode", "claudeDesktop", "cursor", "windsurf",
                            "cherryStudio", "other"} |-> ResolvePublicGuideToken]

ToggleGuideToken ==
    /\ FullDraft(accessBox) /\ ~accessDialog.open
    /\ revealedToken' = IF ShouldRevealPublicGuideToken THEN NoDraft ELSE accessBox
    /\ askedToSee' = IF ShouldRevealPublicGuideToken THEN askedToSee \ {accessBox}
                     ELSE askedToSee \cup {accessBox}
    /\ UNCHANGED <<accessBox, panelsAllowed, accessDialog, tokenVisible, homeCopies, lateCopy>>

AccessNext ==
    \/ \E v \in AccessText, a \in BOOLEAN : BoxChanges(v, a)
    \/ OpenTokenAccessDialog \/ CloseTokenAccessDialog \/ ConfirmTokenAccessDialog
    \/ \E v \in AccessText : TypeDraft(v)
    \/ \E at \in {"box", "dialog"} : ToggleTokenVisibility(at) \/ HandleCopyToken(at)
    \/ \E c \in homeCopies : HomeCopied(c) \/ HomeCopyFails(c)
    \/ ToggleGuideToken

AccessSpec == AccessInit /\ [][AccessNext]_accessVars

-----------------------------------------------------------------------------
(* Properties.                                                                *)

\* The token in the box is in clear only because of what was done at the box: what the dialog
\* showed is masked once the dialog is gone.
DialogLeavesMasked == tokenVisible = "dialog" => accessDialog.open

\* That holds but for a copy begun in the dialog that fails when the dialog is gone; and a guide
\* shows a token only while the visitor wants to see that very token, whatever else has come into
\* the box meanwhile.
ClearOnlyIfAsked ==
    /\ DialogLeavesMasked \/ lateCopy
    /\ \A g \in DOMAIN GuideContent : GuideContent[g] # NoDraft => GuideContent[g] \in askedToSee
=============================================================================
