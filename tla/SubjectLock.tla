----------------------------- MODULE SubjectLock -----------------------------
(***************************************************************************)
(* The per-subject billing lock of TavilyProxy, with time left out.        *)
(*                                                                         *)
(* A request locks a subject in two stages (lock_billing_subject): the     *)
(* in-process mutex of its instance, then one row of quota_subject_locks,  *)
(* a lease other instances see through the shared SQLite file.  The guard  *)
(* it gets keeps the lease alive from a background task, which may give it *)
(* up as lost; dropping the guard frees the mutex at once and deletes the  *)
(* row from a task spawned for it.                                         *)
(*                                                                         *)
(* Time only shows as two things that may happen at any moment: a row      *)
(* becomes expired, and a guard gives its lease up.  QuotaLease has the    *)
(* clock and the timers, and is shown to implement this module.            *)
(***************************************************************************)
CONSTANTS
    Instance,      \* processes that share one SQLite file
    Holder,        \* request futures.  A holder is also the owner "pid:seq"
                   \* of the lease it takes: the sequence number is fresh for
                   \* every acquire, and a holder locks a subject again only
                   \* after its earlier release has run
    Subject,       \* billing subjects, "account:<user>" and "token:<token>"
    InstanceOf,    \* the process that runs a holder
    NoHolder

ASSUME InstanceOfAssumption == InstanceOf \in [Holder -> Instance]
ASSUME NoHolderAssumption   == NoHolder \notin Holder

VARIABLES
    local,      \* token_billing_locks: who has the mutex of a subject
    row,        \* quota_subject_locks: the owner of a subject's row
    expired,    \* subjects whose row has expires_at <= now
    trying,     \* <<h, s>>: h has the mutex and loops on the insert
    held,       \* <<h, s>>: h has a TokenBillingGuard on s
    lost,       \* the guards whose lease_lost flag is set
    releasing,  \* <<h, s>>: a spawned release that has not run yet
    stolen      \* history: the guards whose row another owner deleted after
                \* it had expired

lockVars == <<local, row, expired, trying, held, lost, releasing, stolen>>

Pair == Holder \X Subject

LockTypeOK ==
    /\ local \in [Instance -> [Subject -> Holder \cup {NoHolder}]]
    /\ row \in [Subject -> Holder \cup {NoHolder}]
    /\ expired \in SUBSET Subject
    /\ trying \in SUBSET Pair
    /\ held \in SUBSET Pair
    /\ lost \in SUBSET Pair
    /\ releasing \in SUBSET Pair
    /\ stolen \in SUBSET Pair

LockInit ==
    /\ local = [i \in Instance |-> [s \in Subject |-> NoHolder]]
    /\ row = [s \in Subject |-> NoHolder]
    /\ expired = {}
    /\ trying = {}
    /\ held = {}
    /\ lost = {}
    /\ releasing = {}
    /\ stolen = {}

\* lock.lock_owned().await: the mutex is free and h takes it.
LockLocal(h, s) ==
    /\ local[InstanceOf[h]][s] = NoHolder
    /\ <<h, s>> \notin releasing
    /\ local' = [local EXCEPT ![InstanceOf[h]][s] = h]
    /\ trying' = trying \cup {<<h, s>>}
    /\ UNCHANGED <<row, expired, held, lost, releasing, stolen>>

\* expires_at is computed before the statement that writes it waits for the
\* database: it may be over when it is written.
WriteExpiry(s) == expired' \in {expired \ {s}, expired \cup {s}}

\* Mutant: INSERT OR REPLACE instead of INSERT OR IGNORE.
InsertOrReplaceRow(h, s) ==
    /\ <<h, s>> \in trying
    /\ row' = [row EXCEPT ![s] = h]
    /\ WriteExpiry(s)

\* The transaction of one turn of the acquire loop, when it inserts: an
\* expired row is deleted first.
InsertRow(h, s) ==
    /\ <<h, s>> \in trying
    /\ row[s] = NoHolder \/ s \in expired
    /\ row' = [row EXCEPT ![s] = h]
    /\ WriteExpiry(s)

\* The guard, if any, that still counts on the row of s.
GuardOfRow(s) == held \cap {<<row[s], s>>}

\* Mutant: INSERT OR REPLACE, which takes a row from the guard that owns it.
AcquireOwnedRow(h, s) ==
    /\ InsertOrReplaceRow(h, s)
    /\ trying' = trying \ {<<h, s>>}
    /\ held' = held \cup {<<h, s>>}
    /\ UNCHANGED <<local, lost, releasing, stolen>>

AcquireRow(h, s) ==
    /\ InsertRow(h, s)
    /\ trying' = trying \ {<<h, s>>}
    /\ held' = held \cup {<<h, s>>}
    /\ stolen' = stolen \cup GuardOfRow(s)
    /\ UNCHANGED <<local, lost, releasing>>

Of(h, S) == {h} \X S

FreeMutexes(h, S) ==
    [i \in Instance |-> [s \in Subject |->
        IF s \in S /\ local[i][s] = h THEN NoHolder ELSE local[i][s]]]

\* h returns from the acquire loop with an error, or drops its guards on S:
\* mutexes are free at once, the rows of guards are left to spawned releases.
DropGuards(h, S) ==
    /\ local' = FreeMutexes(h, S)
    /\ trying' = trying \ Of(h, S)
    /\ held' = held \ Of(h, S)
    /\ lost' = lost \ Of(h, S)
    /\ stolen' = stolen \ Of(h, S)
    /\ releasing' = releasing \cup (held \cap Of(h, S))
    /\ UNCHANGED <<row, expired>>

\* The future is dropped, with every guard it has, while it awaits the commit
\* of its insert: SQLite commits, and no guard exists to release the row.
AbandonInsert(h, s) ==
    /\ InsertRow(h, s)
    /\ local' = FreeMutexes(h, Subject)
    /\ trying' = trying \ Of(h, Subject)
    /\ held' = held \ Of(h, Subject)
    /\ lost' = lost \ Of(h, Subject)
    /\ stolen' = (stolen \cup GuardOfRow(s)) \ Of(h, Subject)
    /\ releasing' = releasing \cup (held \cap Of(h, Subject))

\* The spawned task: DELETE ... WHERE subject = ? AND owner = ?
Release(h, s) ==
    /\ <<h, s>> \in releasing
    /\ releasing' = releasing \ {<<h, s>>}
    /\ IF row[s] = h
       THEN /\ row' = [row EXCEPT ![s] = NoHolder]
            /\ expired' = expired \ {s}
       ELSE UNCHANGED <<row, expired>>
    /\ UNCHANGED <<local, trying, held, lost, stolen>>

\* The delete fails; the error is only printed and the row waits to expire.
ReleaseFails(h, s) ==
    /\ <<h, s>> \in releasing
    /\ releasing' = releasing \ {<<h, s>>}
    /\ UNCHANGED <<local, row, expired, trying, held, lost, stolen>>

\* UPDATE ... SET expires_at WHERE subject = ? AND owner = ? finds the row;
\* it does not ask whether the row had expired.
Refresh(h, s) ==
    /\ <<h, s>> \in held \ lost
    /\ row[s] = h
    /\ WriteExpiry(s)
    /\ UNCHANGED <<local, row, trying, held, lost, releasing, stolen>>

\* The refresh task runs out of retries and sets lease_lost.
GiveUpLease(h, s) ==
    /\ <<h, s>> \in held \ lost
    /\ lost' = lost \cup {<<h, s>>}
    /\ UNCHANGED <<local, row, expired, trying, held, releasing, stolen>>

\* expires_at of some rows is reached.
Expire(S) ==
    /\ S \subseteq {s \in Subject : row[s] # NoHolder}
    /\ expired' = expired \cup S
    /\ UNCHANGED <<local, row, trying, held, lost, releasing, stolen>>

\* Process i dies: what it holds in memory is gone, the rows stay.
Crash(i) ==
    LET Dead == {h \in Holder : InstanceOf[h] = i} \X Subject IN
    /\ local' = [local EXCEPT ![i] = [s \in Subject |-> NoHolder]]
    /\ trying' = trying \ Dead
    /\ held' = held \ Dead
    /\ lost' = lost \ Dead
    /\ releasing' = releasing \ Dead
    /\ stolen' = stolen \ Dead
    /\ UNCHANGED <<row, expired>>

LockNext ==
    \/ \E h \in Holder, s \in Subject :
          \/ LockLocal(h, s) \/ AcquireRow(h, s) \/ AbandonInsert(h, s)
          \/ Release(h, s) \/ ReleaseFails(h, s)
          \/ Refresh(h, s) \/ GiveUpLease(h, s)
    \/ \E h \in Holder, S \in SUBSET Subject : DropGuards(h, S)
    \/ \E S \in SUBSET Subject : Expire(S)
    \/ \E i \in Instance : Crash(i)

LockSpec == LockInit /\ [][LockNext]_lockVars

------------------------------------------------------------------------------
\* ensure_live() of h's guard on s returns Ok.
Live(h, s) == <<h, s>> \in held \ lost

(* A holder that has a guard, or loops for one, has the mutex: within one  *)
(* process there is never more than one of them for a subject.             *)
MutexHeld ==
    \A h \in Holder, s \in Subject :
        <<h, s>> \in trying \cup held => local[InstanceOf[h]][s] = h

(* A guard owns its row until another owner has deleted the row as         *)
(* expired: no release that runs late, no failed release, no cancelled     *)
(* acquire and no crash ever takes the row from under it.                  *)
GuardOwnsRow ==
    \A h \in Holder, s \in Subject :
        <<h, s>> \in held \ stolen => row[s] = h

(* Hence requests on one subject are serialized over all processes, as     *)
(* lock_token_billing promises, as long as no lease was taken over: two    *)
(* guards on a subject exist together only when one of them lost its row,  *)
(* and never within one process.                                           *)
SerializedUnlessStolen ==
    \A g, h \in Holder, s \in Subject :
        /\ <<g, s>> \in held /\ <<h, s>> \in held
        /\ g # h
        => /\ InstanceOf[g] # InstanceOf[h]
           /\ <<g, s>> \in stolen \/ <<h, s>> \in stolen
==============================================================================
