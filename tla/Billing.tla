------------------------------- MODULE Billing -------------------------------
(***************************************************************************)
(* Billing of one proxied request, from the choice of its billing subject  *)
(* to the settlement of its credits, for many requests in several          *)
(* processes over one database.                                            *)
(*                                                                         *)
(* proxy_tavily_http_endpoint is the handler followed here; the MCP        *)
(* handler (server/proxy.rs, proxy_handler) runs the same steps for the    *)
(* calls it bills.  A step is one SQL statement or transaction, or one     *)
(* await on a lock or on the upstream: between two of them any other       *)
(* request, a dashboard, a crash or the loss of the client may come.       *)
(***************************************************************************)
EXTENDS SubjectLock, Integers, FiniteSetsExt

CONSTANTS
    Token, User,    \* a subject is the user a token is bound to, or the token
    NoUser,
    TokenOf,        \* the access token a request carries
    Rank,           \* the string order of subjects used by subjects.sort()
    Reserve,        \* credits a request may announce (reserved_credits)
    Actual,         \* credits the upstream may report; 0 is not billed
    WindowLimit,    \* hourly/daily limit, over the buckets of one period
    MonthLimit,
    Observer,       \* dashboard and admin reads of quota snapshots
    LeasesKept,     \* TRUE: every live guard refreshes its lease in time
    MaxLogs,        \* bound: billable responses recorded
    MaxPeriod       \* bound: periods (the rolling window and the month)

ASSUME SubjectAssumption ==
    /\ Subject = Token \cup User
    /\ Token \cap User = {}
    /\ NoUser \notin User
ASSUME TokenOfAssumption == TokenOf \in [Holder -> Token]
ASSUME RankAssumption ==
    /\ Rank \in [Subject -> Nat]
    /\ \A s, t \in Subject : Rank[s] = Rank[t] => s = t
ASSUME BoundAssumption ==
    /\ Reserve \subseteq Nat \ {0}
    /\ Actual \subseteq Nat
    /\ WindowLimit \in Nat
    /\ MonthLimit \in Nat
    /\ LeasesKept \in BOOLEAN
    /\ MaxLogs \in Nat
    /\ MaxPeriod \in Nat \ {0}
\* Credits are i64: there is a largest report.
ASSUME CreditsAssumption == \E most \in Actual : \A c \in Actual : c <= most

VARIABLES
    req,       \* the local variables of each request's handler
    binding,   \* user_token_bindings
    logs,      \* auth_token_logs: rows that carry business credits
    nlogs,     \* the last row id
    bucket,    \* token_usage_buckets and account_usage_buckets
    month,     \* auth_token_quota and account_monthly_quota, by subject
    now,       \* the current period
    snap       \* a snapshot read of each observer that found a stale month

ledger == <<logs, nlogs, bucket, month>>
vars == <<lockVars, req, binding, ledger, now, snap>>

LogId  == 1..MaxLogs
Period == 1..MaxPeriod

Accounts == INSTANCE Ledger WITH Credit <- Actual \ {0}

Idle == [pc |-> "idle"]
Done == [pc |-> "done"]
NoSnap == [subj |-> NoUser]

Init ==
    /\ LockInit
    /\ req = [h \in Holder |-> Idle]
    /\ binding = [t \in Token |-> NoUser]
    /\ logs = [l \in LogId |-> Accounts!Absent]
    /\ nlogs = 0
    /\ bucket = [s \in Subject |-> [p \in Period |-> 0]]
    /\ month = [s \in Subject |-> [start |-> 0, count |-> 0]]
    /\ now = 1
    /\ snap = [o \in Observer |-> NoSnap]

------------------------------------------------------------------------------
(* The ledger.                                                             *)

Pending(l) == logs[l].st = "pending"

PendingOf(s) == {l \in LogId : Pending(l) /\ logs[l].subj = s}

\* Mutant: a charge of an earlier month is counted into the current row.
AddToMonthLate(m, p, c) ==
    IF p > m.start THEN [start |-> p, count |-> c]
    ELSE [m EXCEPT !.count = @ + c]

\* The ON CONFLICT upsert of a month row: a newer month restarts the count,
\* an older one is ignored.  start = 0: the subject has no row yet.
AddToMonth(m, p, c) ==
    IF p > m.start THEN [start |-> p, count |-> c]
    ELSE IF p < m.start THEN m
    ELSE [m EXCEPT !.count = @ + c]

\* Mutant: the claim does not ask for billing_state = 'pending'.
ApplyAnyState(l) ==
    LET e == logs[l] IN
    /\ logs' = [logs EXCEPT ![l].st = "charged"]
    /\ bucket' = [bucket EXCEPT ![e.subj][e.per] = @ + e.cr]
    /\ month' = [month EXCEPT ![e.subj] = AddToMonth(@, e.per, e.cr)]
    /\ UNCHANGED nlogs

\* Mutant: counters first, the claim left to a later statement.
ApplyUnclaimed(l) ==
    IF Pending(l)
    THEN LET e == logs[l] IN
         /\ bucket' = [bucket EXCEPT ![e.subj][e.per] = @ + e.cr]
         /\ month' = [month EXCEPT ![e.subj] = AddToMonth(@, e.per, e.cr)]
         /\ UNCHANGED <<logs, nlogs>>
    ELSE UNCHANGED ledger

\* The one transaction of apply_pending_billing_log.  A row found charged is
\* AlreadySettled and nothing changes.
ApplyPending(l) ==
    IF Pending(l)
    THEN LET e == logs[l] IN
         /\ logs' = [logs EXCEPT ![l].st = "charged"]
         /\ bucket' = [bucket EXCEPT ![e.subj][e.per] = @ + e.cr]
         /\ month' = [month EXCEPT ![e.subj] = AddToMonth(@, e.per, e.cr)]
         /\ UNCHANGED nlogs
    ELSE UNCHANGED ledger

\* insert_token_log_pending_billing: the row is dated by its insertion.
InsertPending(s, t, c) ==
    /\ nlogs < MaxLogs
    /\ nlogs' = nlogs + 1
    /\ logs' = [logs EXCEPT ![nlogs + 1] =
                  [subj |-> s, tok |-> t, cr |-> c, per |-> now,
                   st |-> "pending"]]
    /\ UNCHANGED <<bucket, month>>

\* Mutant: <= for <.
StaleOrCurrentMonth(s) == month[s].start # 0 /\ month[s].start <= now

\* fetch_monthly_count, first statement: the row is of an earlier month.
StaleMonth(s) == month[s].start # 0 /\ month[s].start < now

MonthlyUsed(s) == IF month[s].start < now THEN 0 ELSE month[s].count

\* fetch_monthly_count, second statement: UPDATE ... SET month_count = 0,
\* for whatever the row has become since it was read.
ResetMonth(s, m) ==
    /\ month' = [month EXCEPT ![s] = [start |-> m, count |-> 0]]
    /\ UNCHANGED <<logs, nlogs, bucket>>

QuotaWouldExceed(s, r) ==
    \/ bucket[s][now] + r > WindowLimit
    \/ MonthlyUsed(s) + r > MonthLimit

------------------------------------------------------------------------------
(* The handler.                                                            *)

\* The request returns or its future is dropped: its guards go with it.
Finish(h) ==
    /\ DropGuards(h, Subject)
    /\ req' = [req EXCEPT ![h] = Done]

At(h, label) == req[h].pc = label

GoTo(h, label) == req' = [req EXCEPT ![h].pc = label]

\* The subjects still to lock are taken in string order.
NextToLock(h) ==
    CHOOSE s \in req[h].todo : \A t \in req[h].todo : Rank[s] <= Rank[t]

\* billing_subject_for_token: a fresh read of the binding.
BillingSubject(t) == IF binding[t] = NoUser THEN t ELSE binding[t]

\* A valid request reaches lock_token_billing and reads its subject.
Begin(h, r) ==
    /\ At(h, "idle")
    /\ req' = [req EXCEPT ![h] =
                 [pc |-> "listing", subj |-> BillingSubject(TokenOf[h]),
                  res |-> r, todo |-> {}, ids |-> {}, cr |-> 0, log |-> 0,
                  over |-> FALSE, at |-> 0]]
    /\ UNCHANGED <<lockVars, binding, ledger, now, snap>>

\* Subjects under which the token still has pending charges are locked too.
ListSubjects(h) ==
    /\ At(h, "listing")
    /\ req' = [req EXCEPT
                 ![h].pc = "locking",
                 ![h].todo = {req[h].subj} \cup
                             {logs[l].subj : l \in {k \in LogId :
                                 Pending(k) /\ logs[k].tok = TokenOf[h]}}]
    /\ UNCHANGED <<lockVars, binding, ledger, now, snap>>

TakeMutex(h) ==
    /\ At(h, "locking")
    /\ LockLocal(h, NextToLock(h))
    /\ GoTo(h, "acquiring")
    /\ UNCHANGED <<binding, ledger, now, snap>>

TakeRow(h) ==
    /\ At(h, "acquiring")
    /\ AcquireRow(h, NextToLock(h))
    /\ LeasesKept => NextToLock(h) \notin expired'
    /\ GoTo(h, "locked")
    /\ UNCHANGED <<binding, ledger, now, snap>>

\* Mutant: the acquire loop has no deadline.
AcquireNeverTimesOut(h) ==
    /\ At(h, "acquiring")
    /\ row[NextToLock(h)] # NoHolder
    /\ UNCHANGED vars

\* A turn that began at or after the deadline, and before the row expired if
\* it has: the error ends the request.
AcquireTimesOut(h) ==
    /\ At(h, "acquiring")
    /\ row[NextToLock(h)] # NoHolder
    /\ Finish(h)
    /\ UNCHANGED <<binding, ledger, now, snap>>

\* Mutant: pending charges are not looked for.
ListNothing(h) ==
    /\ At(h, "locked")
    /\ req' = [req EXCEPT ![h].pc = "replaying", ![h].ids = {}]
    /\ UNCHANGED <<lockVars, binding, ledger, now, snap>>

\* Mutant: pending charges are listed by token instead of by subject.
ListPendingOfToken(h) ==
    /\ At(h, "locked")
    /\ req' = [req EXCEPT ![h].pc = "replaying",
                          ![h].ids = {l \in LogId :
                              Pending(l) /\ logs[l].tok = TokenOf[h]}]
    /\ UNCHANGED <<lockVars, binding, ledger, now, snap>>

\* list_pending_billing_log_ids for the subject just locked.
ListPending(h) ==
    /\ At(h, "locked")
    /\ req' = [req EXCEPT ![h].pc = "replaying",
                             ![h].ids = PendingOf(NextToLock(h))]
    /\ UNCHANGED <<lockVars, binding, ledger, now, snap>>

\* reconcile_pending_billing_for_subject: in the order of the row ids.
ReplayOne(h) ==
    /\ At(h, "replaying")
    /\ req[h].ids # {}
    /\ ApplyPending(Min(req[h].ids))
    /\ req' = [req EXCEPT ![h].ids = @ \ {Min(req[h].ids)}]
    /\ UNCHANGED <<lockVars, binding, now, snap>>

\* The next subject, or, when all are locked, the guards of the other
\* subjects are dropped.
NextSubject(h) ==
    LET left == req[h].todo \ {NextToLock(h)} IN
    /\ At(h, "replaying")
    /\ req[h].ids = {}
    /\ req' = [req EXCEPT
                 ![h].todo = left,
                 ![h].pc = IF left = {} THEN "guarded" ELSE "locking"]
    /\ IF left = {} THEN DropGuards(h, Subject \ {req[h].subj})
                    ELSE UNCHANGED lockVars
    /\ UNCHANGED <<binding, ledger, now, snap>>

EnsureLiveBeforePrecheck(h) ==
    /\ At(h, "guarded")
    /\ IF Live(h, req[h].subj)
       THEN GoTo(h, "checking") /\ UNCHANGED lockVars
       ELSE Finish(h)
    /\ UNCHANGED <<binding, ledger, now, snap>>

\* peek_token_quota_for_subject, up to a month row that has to be reset.
Peek(h) ==
    LET s == req[h].subj
        exceeds == QuotaWouldExceed(s, req[h].res)
    IN
    /\ At(h, "checking")
    /\ IF StaleMonth(s)
       THEN /\ req' = [req EXCEPT ![h].pc = "resetting",
                                     ![h].over = exceeds, ![h].at = now]
            /\ UNCHANGED lockVars
       ELSE IF exceeds THEN Finish(h)
       ELSE GoTo(h, "upstream") /\ UNCHANGED lockVars
    /\ UNCHANGED <<binding, ledger, now, snap>>

PeekReset(h) ==
    /\ At(h, "resetting")
    /\ ResetMonth(req[h].subj, req[h].at)
    /\ IF req[h].over THEN Finish(h)
       ELSE GoTo(h, "upstream") /\ UNCHANGED lockVars
    /\ UNCHANGED <<binding, now, snap>>

\* Mutant: the test credits > 0 is dropped.
UpstreamBillsNothing(h, c) ==
    /\ At(h, "upstream")
    /\ req' = [req EXCEPT ![h].pc = "recording", ![h].cr = c]
    /\ UNCHANGED <<lockVars, binding, ledger, now, snap>>

\* The upstream answers.  A failure, or an answer without credits, is only
\* logged.
UpstreamReplies(h, c) ==
    /\ At(h, "upstream")
    /\ IF c = 0
       THEN Finish(h)
       ELSE /\ req' = [req EXCEPT ![h].pc = "recording", ![h].cr = c]
            /\ UNCHANGED lockVars
    /\ UNCHANGED <<binding, ledger, now, snap>>

\* The pending row is written under the subject of the guard.  The counter
\* of the token is a second statement: when it fails the row stays, but the
\* handler takes the attempt as not recorded and does not settle.
RecordPending(h) ==
    /\ At(h, "recording")
    /\ InsertPending(req[h].subj, TokenOf[h], req[h].cr)
    /\ \/ /\ req' = [req EXCEPT ![h].pc = "recorded",
                                    ![h].log = nlogs + 1]
          /\ UNCHANGED lockVars
       \/ Finish(h)
    /\ UNCHANGED <<binding, now, snap>>

EnsureLiveBeforeCharge(h) ==
    /\ At(h, "recorded")
    /\ IF Live(h, req[h].subj)
       THEN GoTo(h, "settling") /\ UNCHANGED lockVars
       ELSE Finish(h)
    /\ UNCHANGED <<binding, ledger, now, snap>>

Settle(h) ==
    /\ At(h, "settling")
    /\ ApplyPending(req[h].log)
    /\ Finish(h)
    /\ UNCHANGED <<binding, now, snap>>

\* The client goes away, a statement fails, or the hourly request limit
\* refuses: the request ends where it is.  An insert of a lock row under way
\* may still commit.
Abort(h) ==
    /\ req[h].pc \notin {"idle", "done"}
    /\ \/ Finish(h)
       \/ /\ At(h, "acquiring")
          /\ AbandonInsert(h, NextToLock(h))
          /\ req' = [req EXCEPT ![h] = Done]
    /\ UNCHANGED <<binding, ledger, now, snap>>

------------------------------------------------------------------------------
(* What else touches the shared state.                                     *)

\* ensure_user_token_binding_with_preferred: a token is bound once.
BindToken(t, u) ==
    /\ binding[t] = NoUser
    /\ binding' = [binding EXCEPT ![t] = u]
    /\ UNCHANGED <<lockVars, req, ledger, now, snap>>

\* A snapshot for a dashboard takes no lock.
SnapshotRead(o, s) ==
    /\ snap[o] = NoSnap
    /\ StaleMonth(s)
    /\ snap' = [snap EXCEPT ![o] = [subj |-> s, at |-> now]]
    /\ UNCHANGED <<lockVars, req, binding, ledger, now>>

SnapshotReset(o) ==
    /\ snap[o] # NoSnap
    /\ ResetMonth(snap[o].subj, snap[o].at)
    /\ snap' = [snap EXCEPT ![o] = NoSnap]
    /\ UNCHANGED <<lockVars, req, binding, now>>

\* The leases: background tasks, time and the death of a process.
LeaseStep ==
    /\ \/ \E h \in Holder, s \in Subject :
             \/ Release(h, s) \/ ReleaseFails(h, s)
             \/ Refresh(h, s) /\ (LeasesKept => s \notin expired')
             \/ ~LeasesKept /\ GiveUpLease(h, s)
       \/ \E s \in Subject :
             /\ s \notin expired
             /\ LeasesKept => <<row[s], s>> \notin held
             /\ Expire({s})
    /\ UNCHANGED <<req, binding, ledger, now, snap>>

CrashInstance(i) ==
    /\ Crash(i)
    /\ req' = [h \in Holder |-> IF InstanceOf[h] = i /\ ~At(h, "idle")
                               THEN Done ELSE req[h]]
    /\ UNCHANGED <<binding, ledger, now, snap>>

NextPeriod ==
    /\ now < MaxPeriod
    /\ now' = now + 1
    /\ UNCHANGED <<lockVars, req, binding, ledger, snap>>

RequestStep(h) ==
    \/ \E r \in Reserve : Begin(h, r)
    \/ ListSubjects(h) \/ TakeMutex(h) \/ TakeRow(h) \/ AcquireTimesOut(h)
    \/ ListPending(h) \/ ReplayOne(h) \/ NextSubject(h)
    \/ EnsureLiveBeforePrecheck(h) \/ Peek(h) \/ PeekReset(h)
    \/ \E c \in Actual : UpstreamReplies(h, c)
    \/ RecordPending(h) \/ EnsureLiveBeforeCharge(h) \/ Settle(h)

Next ==
    \/ \E h \in Holder : RequestStep(h) \/ Abort(h)
    \/ \E t \in Token, u \in User : BindToken(t, u)
    \/ \E o \in Observer : SnapshotReset(o)
                           \/ \E s \in Subject : SnapshotRead(o, s)
    \/ LeaseStep
    \/ \E i \in Instance : CrashInstance(i)
    \/ NextPeriod

Spec == Init /\ [][Next]_vars

\* Handlers run on; the upstream call and every database call return, with
\* an answer or an error.
FairSpec == Spec /\ \A h \in Holder : WF_vars(RequestStep(h))

------------------------------------------------------------------------------
(* Types.                                                                  *)

Label == {"listing", "locking", "acquiring", "locked", "replaying",
          "guarded", "checking", "resetting", "upstream", "recording",
          "recorded", "settling"}

Active == [pc : Label, subj : Subject, res : Reserve, todo : SUBSET Subject,
           ids : SUBSET LogId, cr : Actual \cup {0}, log : LogId \cup {0},
           over : BOOLEAN, at : Period \cup {0}]

Snap == [subj : Subject, at : Period]

TypeOK ==
    /\ LockTypeOK
    /\ req \in [Holder -> Active \cup {Idle, Done}]
    /\ binding \in [Token -> User \cup {NoUser}]
    /\ Accounts!LedgerTypeOK
    /\ nlogs \in LogId \cup {0}
    /\ month \in [Subject -> [start : Period \cup {0}, count : Nat]]
    /\ now \in Period
    /\ snap \in [Observer -> Snap \cup {NoSnap}]

------------------------------------------------------------------------------
(* Properties.                                                             *)

\* Credits of the rows of s dated p that are in one of the states.
CreditsOf(s, p, states) ==
    MapThenSumSet(LAMBDA l : logs[l].cr,
                  {l \in LogId : /\ logs[l].st \in states
                                 /\ logs[l].subj = s
                                 /\ logs[l].per = p})

(* Every charge is posted exactly once, to the bucket of the subject and   *)
(* period it was recorded with: whatever replays, settlements, crashes and *)
(* lost leases come together, apply_pending_billing_log never posts a row  *)
(* twice and never marks one charged without posting it.                   *)
BucketsExact ==
    \A s \in Subject, p \in Period :
        bucket[s][p] = CreditsOf(s, p, {"charged"})

(* The monthly count of a subject never exceeds what was charged for the   *)
(* month it stands for: a late charge of an earlier month is not counted   *)
(* into a newer one, and a new month starts from nothing.                  *)
MonthNeverOvercounts ==
    \A s \in Subject : \A p \in Period :
        month[s].start = p => month[s].count <= CreditsOf(s, p, {"charged"})

(* The monthly count is exactly what was charged for its month.            *)
MonthExact ==
    \A s \in Subject : \A p \in Period :
        month[s].start = p => month[s].count = CreditsOf(s, p, {"charged"})

(* When a request that holds its subject looks at the quota, no charge     *)
(* recorded under the subject is still pending: what an earlier request    *)
(* left behind, by a crash or a failed settlement, was replayed first, so  *)
(* stale pending charges cannot bypass the precheck.                       *)
PrecheckSeesAllCharges ==
    \A h \in Holder : At(h, "checking") => PendingOf(req[h].subj) = {}

\* The most a response can cost beyond what its request announced.
Overshoot == Max({a - r : a \in Actual, r \in Reserve} \cup {0})

(* Recorded credits of a subject, charged or not, pass the limit by no     *)
(* more than the last admitted request was underestimated: the precheck    *)
(* and the charge of one request are never interleaved with those of       *)
(* another request of the subject, in this process or another one.         *)
QuotaHeld ==
    \A s \in Subject, p \in Period :
        CreditsOf(s, p, {"pending", "charged"}) <= WindowLimit + Overshoot

(* A pending row is charged only in a step of a request that itself has a  *)
(* guard on the row's subject at that moment.                              *)
ChargesUnderGuard ==
    [][\A l \in LogId : Pending(l) /\ ~Pending(l)' =>
          \E h \in Holder : <<h, logs[l].subj>> \in held /\ req'[h] # req[h]]_vars

(* With its locks, leases and handlers, the billing path keeps the promise *)
(* of the abstract ledger.                                                 *)
KeepsLedger == Accounts!LedgerSpec

(* Every request that set out to lock its subject ends: no order of locks, *)
(* crashes and lost leases leaves a request waiting for ever.              *)
RequestsEnd == \A h \in Holder : At(h, "listing") ~> At(h, "done")
==============================================================================
