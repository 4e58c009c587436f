---------------------------- MODULE Registration ----------------------------
(***************************************************************************)
(* The switch that allows new accounts, on the users pages                  *)
(* (web/src/AdminDashboard.tsx).  Every visit of a users page reads the     *)
(* setting; the switch shows the new value at once and puts the old one     *)
(* back if the server refuses.  Reads are aborted when the page changes,    *)
(* a save is not: it may be answered pages later, after a newer read.       *)
(***************************************************************************)
EXTENDS Integers

CONSTANT MaxReads      \* bound: visits of users pages
ASSUME RegistrationConstants == MaxReads \in Nat \ {0}

VARIABLES
    regServer,         \* external: the setting on the server
    regShown,          \* allowRegistration: "unknown", "on" or "off"
    regLoading,        \* registrationSettingsLoading
    regSaving,         \* registrationSettingsSaving
    regFailed,         \* registrationSettingsError # null
    regOnPage,         \* a users page is shown
    regRead,           \* the read in flight: "none", "asked" or the value the server read
    regSave,           \* the save in flight: before, value and whether the server has it
    regReads,          \* bound: reads so far
    regCrossed         \* ghost: a read and a save were in flight together since the last read began alone

regVars == <<regServer, regShown, regLoading, regSaving, regFailed, regOnPage, regRead, regSave, regReads, regCrossed>>

Setting == {"on", "off"}
Other(v) == IF v = "on" THEN "off" ELSE "on"
NoSave == [before |-> "none", value |-> "none", done |-> FALSE]

RegTypeOK ==
    /\ regServer \in Setting /\ regShown \in Setting \cup {"unknown"} /\ regLoading \in BOOLEAN
    /\ regSaving \in BOOLEAN /\ regFailed \in BOOLEAN /\ regOnPage \in BOOLEAN
    /\ regRead \in Setting \cup {"none", "asked"} /\ regReads \in 0 .. MaxReads /\ regCrossed \in BOOLEAN
    /\ regSave = NoSave \/ regSave \in [before : Setting, value : Setting, done : BOOLEAN]

RegInit ==
    /\ regServer \in Setting /\ regShown = "unknown" /\ regLoading = FALSE /\ regSaving = FALSE
    /\ regFailed = FALSE /\ regOnPage = FALSE /\ regRead = "none" /\ regSave = NoSave
    /\ regReads = 0 /\ regCrossed = FALSE

\* The effect of a users page: the read before it, if any, is aborted.
VisitUsersPage ==
    /\ regReads < MaxReads
    /\ regOnPage' = TRUE /\ regReads' = regReads + 1
    /\ regLoading' = TRUE /\ regFailed' = FALSE /\ regRead' = "asked"
    /\ regCrossed' = (regSave # NoSave)
    /\ UNCHANGED <<regServer, regShown, regSaving, regSave>>

\* Another page: the read is aborted, and nothing says it no longer loads.
LeaveUsersPages ==
    /\ regOnPage /\ regOnPage' = FALSE /\ regRead' = "none"
    /\ UNCHANGED <<regServer, regShown, regLoading, regSaving, regFailed, regSave, regReads, regCrossed>>

RegServerReads ==
    /\ regRead = "asked" /\ regRead' = regServer
    /\ UNCHANGED <<regServer, regShown, regLoading, regSaving, regFailed, regOnPage, regSave, regReads, regCrossed>>
ReadAnswered ==
    /\ regRead \in Setting /\ regShown' = regRead /\ regLoading' = FALSE /\ regRead' = "none"
    /\ UNCHANGED <<regServer, regSaving, regFailed, regOnPage, regSave, regReads, regCrossed>>
ReadFails ==
    /\ regRead # "none" /\ regShown' = "unknown" /\ regFailed' = TRUE /\ regLoading' = FALSE /\ regRead' = "none"
    /\ UNCHANGED <<regServer, regSaving, regOnPage, regSave, regReads, regCrossed>>

SwitchEnabled == ~regLoading /\ ~regSaving /\ regShown # "unknown"

ToggleAllowRegistration ==
    /\ regOnPage /\ SwitchEnabled
    /\ regShown' = Other(regShown) /\ regSaving' = TRUE /\ regFailed' = FALSE
    /\ regSave' = [before |-> regShown, value |-> Other(regShown), done |-> FALSE]
    /\ UNCHANGED <<regServer, regLoading, regOnPage, regRead, regReads, regCrossed>>

ServerSaves ==
    /\ regSave # NoSave /\ ~regSave.done
    /\ regServer' = regSave.value /\ regSave' = [regSave EXCEPT !.done = TRUE]
    /\ UNCHANGED <<regShown, regLoading, regSaving, regFailed, regOnPage, regRead, regReads, regCrossed>>
SaveAnswered ==
    /\ regSave.done /\ regShown' = regSave.value /\ regSaving' = FALSE /\ regSave' = NoSave
    /\ UNCHANGED <<regServer, regLoading, regFailed, regOnPage, regRead, regReads, regCrossed>>

\* Refused, or its answer lost after the server took it.
RegSaveFails ==
    /\ regSave # NoSave /\ regShown' = regSave.before /\ regFailed' = TRUE /\ regSaving' = FALSE /\ regSave' = NoSave
    /\ UNCHANGED <<regServer, regLoading, regOnPage, regRead, regReads, regCrossed>>

RegNext ==
    \/ VisitUsersPage \/ LeaveUsersPages \/ RegServerReads \/ ReadAnswered \/ ReadFails
    \/ ToggleAllowRegistration \/ ServerSaves \/ SaveAnswered \/ RegSaveFails
RegSpec == RegInit /\ [][RegNext]_regVars

---------------------------------------------------------------------------
\* The card with the badge and the switch.
RegistrationCard ==
    [badge |-> IF regFailed THEN "error" ELSE regShown, enabled |-> regOnPage /\ SwitchEnabled]

\* The card says what the server has.
SwitchSays == RegistrationCard.enabled /\ RegistrationCard.badge # "error" => RegistrationCard.badge = regServer

\* It does, through refusals, lost answers and changes of the page, unless a read and a save
\* were under way together: a switch that works, without an error, shows the server's value.
SwitchSaysServer == ~regCrossed => SwitchSays
=============================================================================
