------------------------------- MODULE KeyPool -------------------------------
(***************************************************************************)
(* The pool of upstream API keys: the status of a key, its soft deletion   *)
(* and its quarantine, and the statements of the store that change them.   *)
(*                                                                         *)
(* Which active key is leased first (the least recently used one) is left  *)
(* open.  What is kept is that a lease asks for an active key first and    *)
(* for an exhausted one in a second query, and that a key exhausted in an  *)
(* earlier month is active again from the next lease on.                   *)
(***************************************************************************)
EXTENDS Naturals

CONSTANTS
    Key,
    AdminOp,          \* what the administrator does to keys
    KeyHealthAction   \* what the analysis of an answer may ask for

ASSUME OperationAssumption ==
    /\ AdminOp \subseteq {"disable", "enable", "delete", "undelete", "clear"}
    /\ KeyHealthAction \subseteq {"none", "restore", "exhaust", "quarantine"}

VARIABLES
    status,       \* api_keys.status
    lastMonth,    \* exhausted keys whose status_changed_at is before this month
    deleted,      \* keys with deleted_at set
    quarantined   \* keys with a row in api_key_quarantines not cleared

poolVars == <<status, lastMonth, deleted, quarantined>>

PoolTypeOK ==
    /\ status \in [Key -> {"active", "exhausted", "disabled"}]
    /\ lastMonth \in SUBSET Key
    /\ deleted \in SUBSET Key
    /\ quarantined \in SUBSET Key

PoolInit ==
    /\ status = [k \in Key |-> "active"]
    /\ lastMonth = {}
    /\ deleted = {}
    /\ quarantined = {}

\* A key that may be leased at all.
Usable(k) ==
    /\ status[k] # "disabled"
    /\ k \notin deleted \cup quarantined

------------------------------------------------------------------------------
(* Leases.                                                                 *)

\* reset_monthly, the first statement of every lease.
ResetMonthly ==
    /\ status' = [k \in Key |-> IF k \in lastMonth THEN "active" ELSE status[k]]
    /\ lastMonth' = {}
    /\ UNCHANGED <<deleted, quarantined>>

\* The keys of a set that the first query of a lease finds, after the reset.
ActiveKeys(Wanted) ==
    {k \in Wanted \ (deleted \cup quarantined) :
        status[k] = "active" \/ k \in lastMonth}

\* The keys of a set that the second query finds, when the first found none.
ExhaustedKeys(Wanted) ==
    {k \in Wanted \ (deleted \cup quarantined) : status[k] = "exhausted"}

------------------------------------------------------------------------------
(* Effects of an upstream answer on the key that served it.                *)

SetStatus(k, st) ==
    /\ status' = [status EXCEPT ![k] = st]
    /\ lastMonth' = lastMonth \ {k}
    /\ UNCHANGED <<deleted, quarantined>>

MarkQuotaExhausted(k) ==
    IF status[k] \notin {"disabled", "exhausted"} /\ k \notin deleted
    THEN SetStatus(k, "exhausted")
    ELSE UNCHANGED poolVars

\* Mutant: whatever became of the key since the request was sent.
RestoreAnyStatus(k) == SetStatus(k, "active")

RestoreActiveStatus(k) ==
    IF status[k] = "exhausted" /\ k \notin deleted
    THEN SetStatus(k, "active")
    ELSE UNCHANGED poolVars

QuarantineKey(k) ==
    /\ quarantined' = quarantined \cup {k}
    /\ UNCHANGED <<status, lastMonth, deleted>>

\* reconcile_key_health: what the analysis of an answer does to its key.
ReconcileKeyHealth(k, a) ==
    \/ a = "none" /\ UNCHANGED poolVars
    \/ a = "restore" /\ RestoreActiveStatus(k)
    \/ a = "exhaust" /\ MarkQuotaExhausted(k)
    \/ a = "quarantine" /\ QuarantineKey(k)

------------------------------------------------------------------------------
(* The administrator and the calendar.                                     *)

DisableKey(k) ==
    /\ k \notin deleted
    /\ SetStatus(k, "disabled")

EnableKey(k) ==
    /\ k \notin deleted
    /\ status[k] \in {"disabled", "exhausted"}
    /\ SetStatus(k, "active")

SoftDeleteKey(k) ==
    /\ deleted' = deleted \cup {k}
    /\ UNCHANGED <<status, lastMonth, quarantined>>

\* add_or_undelete_key and sync_keys keep the status of a key they know.
UndeleteKey(k) ==
    /\ k \in deleted
    /\ deleted' = deleted \ {k}
    /\ UNCHANGED <<status, lastMonth, quarantined>>

ClearKeyQuarantine(k) ==
    /\ k \in quarantined
    /\ quarantined' = quarantined \ {k}
    /\ UNCHANGED <<status, lastMonth, deleted>>

AdminStep(k) ==
    \/ "disable" \in AdminOp /\ DisableKey(k)
    \/ "enable" \in AdminOp /\ EnableKey(k)
    \/ "delete" \in AdminOp /\ SoftDeleteKey(k)
    \/ "undelete" \in AdminOp /\ UndeleteKey(k)
    \/ "clear" \in AdminOp /\ ClearKeyQuarantine(k)

NewMonth ==
    /\ lastMonth' = {k \in Key : status[k] = "exhausted"}
    /\ UNCHANGED <<status, deleted, quarantined>>
==============================================================================
