------------------------------ MODULE QuotaLease ------------------------------
(***************************************************************************)
(* The billing lock with its clock: the lease row of a subject lives for   *)
(* Ttl ticks from the moment the statement that writes it was prepared,    *)
(* the refresh task of a guard sleeps and retries, and a request waiting   *)
(* for a row gives up after AcquireTimeout.  A statement takes time: it    *)
(* may wait for a connection and for the lock of the database, while now   *)
(* and expires_at, which are bound to it, grow old.                        *)
(*                                                                         *)
(* Every instant the code stores is kept as the number of ticks left until *)
(* it, so that time needs no bound: expires_at <= now is left[s] <= 0.     *)
(***************************************************************************)
EXTENDS Integers

CONSTANTS
    Instance, Holder, Subject, InstanceOf, NoHolder,    \* as in SubjectLock
    Ttl,              \* QUOTA_SUBJECT_LOCK_TTL_SECS
    RefreshEvery,     \* QUOTA_SUBJECT_LOCK_REFRESH_SECS
    RetryEvery,       \* QUOTA_SUBJECT_LOCK_REFRESH_RETRY_SECS
    AcquireTimeout,   \* QUOTA_SUBJECT_LOCK_ACQUIRE_TIMEOUT_SECS
    StatementTime,    \* bound: ticks a statement may take until it returns
    Prompt            \* TRUE: a refresh task runs in the tick it is due in

ASSUME InstanceOfAssumption == InstanceOf \in [Holder -> Instance]
ASSUME NoHolderAssumption   == NoHolder \notin Holder
ASSUME TimerAssumption ==
    /\ Ttl \in Nat \ {0}
    /\ RefreshEvery \in Nat \ {0}
    /\ RetryEvery \in Nat \ {0}
    /\ AcquireTimeout \in Nat
    /\ StatementTime \in Nat
    /\ Prompt \in BOOLEAN

VARIABLES
    local, row, trying, held, lost, releasing, stolen,  \* as in SubjectLock
    left,      \* ticks until expires_at of a row
    wait,      \* ticks until the deadline of a holder's acquire loop
    due,       \* ticks until the refresh task of a guard wakes up
    retrying,  \* the guards in the retry loop of a refresh
    budget,    \* ticks until retry_deadline of such a guard
    asking,    \* the guards whose refresh statement is on its way
    age,       \* ticks since a refresh statement, or a turn of the acquire
               \* loop, took its now
    bare       \* history: ticks a live guard has been without its row

vars == <<local, row, trying, held, lost, releasing, stolen,
          left, wait, due, retrying, budget, asking, age, bare>>

Pair == Holder \X Subject

\* The untimed lock: a row is expired when no tick is left.
Lock == INSTANCE SubjectLock WITH
            expired <- {s \in Subject : row[s] # NoHolder /\ left[s] <= 0}

\* Mutant: the retry deadline forgets the time slept before the first attempt.
RetryBudgetFull == Ttl

\* lease.ttl.saturating_sub(refresh_every).max(retry_every)
RetryBudget ==
    IF Ttl >= RefreshEvery + RetryEvery THEN Ttl - RefreshEvery ELSE RetryEvery

MaxTicks == Ttl + RefreshEvery + RetryEvery + AcquireTimeout

\* The ticks a guard may be live without its row: the last refresh may have
\* waited before its lease was written, the deadline may pass in a pause of
\* the retry loop, and the last attempt may wait before it fails.
StaleTicks == 2 * StatementTime + RetryEvery - 1

TypeOK ==
    /\ Lock!LockTypeOK
    /\ left \in [Subject -> (-StatementTime)..Ttl]
    /\ wait \in [Pair -> 0..AcquireTimeout]
    /\ due \in [Pair -> 0..MaxTicks]
    /\ retrying \in SUBSET Pair
    /\ budget \in [Pair -> 0..MaxTicks]
    /\ asking \in SUBSET Pair
    /\ age \in [Pair -> 0..StatementTime]
    /\ bare \in [Pair -> 0..StaleTicks + 1]

Init ==
    /\ local = [i \in Instance |-> [s \in Subject |-> NoHolder]]
    /\ row = [s \in Subject |-> NoHolder]
    /\ trying = {} /\ held = {} /\ lost = {} /\ releasing = {} /\ stolen = {}
    /\ left = [s \in Subject |-> 0]
    /\ wait = [p \in Pair |-> 0]
    /\ due = [p \in Pair |-> 0]
    /\ retrying = {} /\ asking = {}
    /\ budget = [p \in Pair |-> 0]
    /\ age = [p \in Pair |-> 0]
    /\ bare = [p \in Pair |-> 0]

Of(h, S) == {h} \X S

\* Timers of holders that are gone read 0.
Clear(timer, P) == [p \in Pair |-> IF p \in P THEN 0 ELSE timer[p]]

------------------------------------------------------------------------------
(* Locking.                                                                *)

\* A holder takes one lock at a time.
LockLocal(h, s) ==
    /\ local[InstanceOf[h]][s] = NoHolder
    /\ <<h, s>> \notin releasing
    /\ \A t \in Subject : <<h, t>> \notin trying
    /\ local' = [local EXCEPT ![InstanceOf[h]][s] = h]
    /\ trying' = trying \cup {<<h, s>>}
    /\ wait' = [wait EXCEPT ![<<h, s>>] = AcquireTimeout]
    /\ UNCHANGED <<row, held, lost, releasing, stolen, left, due, retrying,
                   budget, asking, age, bare>>

\* There is no row, or one whose expires_at is not after the now that the
\* turn of h took before it waited.
Free(h, s) == row[s] = NoHolder \/ left[s] + age[<<h, s>>] <= 0

\* INSERT ... VALUES (subject, owner, expires_at) of that turn.
InsertRow(h, s) ==
    /\ <<h, s>> \in trying
    /\ Free(h, s)
    /\ row' = [row EXCEPT ![s] = h]
    /\ left' = [left EXCEPT ![s] = Ttl - age[<<h, s>>]]

\* A turn of the acquire loop inserts; the guard is built and its refresh
\* task goes to sleep.
AcquireRow(h, s) ==
    /\ InsertRow(h, s)
    /\ trying' = trying \ {<<h, s>>}
    /\ wait' = [wait EXCEPT ![<<h, s>>] = 0]
    /\ held' = held \cup {<<h, s>>}
    /\ stolen' = stolen \cup (held \cap {<<row[s], s>>})
    /\ due' = [due EXCEPT ![<<h, s>>] = RefreshEvery]
    /\ age' = [age EXCEPT ![<<h, s>>] = 0]
    /\ UNCHANGED <<local, lost, releasing, retrying, budget, asking, bare>>

\* A turn finds the row taken before the deadline: the next one, after a
\* pause of less than a tick, takes a new now.
LookAgain(h, s) ==
    /\ <<h, s>> \in trying
    /\ ~Free(h, s)
    /\ wait[<<h, s>>] > 0
    /\ age' = [age EXCEPT ![<<h, s>>] = 0]
    /\ UNCHANGED <<local, row, trying, held, lost, releasing, stolen, left,
                   wait, due, retrying, budget, asking, bare>>

FreeMutexes(h, S) ==
    [i \in Instance |-> [s \in Subject |->
        IF s \in S /\ local[i][s] = h THEN NoHolder ELSE local[i][s]]]

\* Guards are dropped: refresh tasks are aborted, releases are spawned.
Discard(h, S) ==
    /\ local' = FreeMutexes(h, S)
    /\ trying' = trying \ Of(h, S)
    /\ wait' = Clear(wait, Of(h, S))
    /\ held' = held \ Of(h, S)
    /\ lost' = lost \ Of(h, S)
    /\ releasing' = releasing \cup (held \cap Of(h, S))
    /\ due' = Clear(due, Of(h, S))
    /\ retrying' = retrying \ Of(h, S)
    /\ budget' = Clear(budget, Of(h, S))
    /\ asking' = asking \ Of(h, S)
    /\ age' = Clear(age, Of(h, S))
    /\ bare' = Clear(bare, Of(h, S))

DropGuards(h, S) ==
    /\ Discard(h, S)
    /\ stolen' = stolen \ Of(h, S)
    /\ UNCHANGED <<row, left>>

\* The future is dropped while its insert commits.
AbandonInsert(h, s) ==
    /\ InsertRow(h, s)
    /\ Discard(h, Subject)
    /\ stolen' = (stolen \cup (held \cap {<<row[s], s>>})) \ Of(h, Subject)

\* Mutant: the deadline is computed anew in every turn of the loop.
TimeOutPostponed(h, s) ==
    /\ <<h, s>> \in trying
    /\ ~Free(h, s)
    /\ wait[<<h, s>>] = 0
    /\ age' = [age EXCEPT ![<<h, s>>] = 0]
    /\ wait' = [wait EXCEPT ![<<h, s>>] = AcquireTimeout]
    /\ UNCHANGED <<local, row, trying, held, lost, releasing, stolen, left,
                   due, retrying, budget, asking, bare>>

\* A turn finds the row taken at or after the deadline: the error makes the
\* request drop whatever it has locked.
TimeOut(h, s) ==
    /\ <<h, s>> \in trying
    /\ ~Free(h, s)
    /\ wait[<<h, s>>] = 0
    /\ DropGuards(h, Subject)

\* Mutant: the delete does not ask for the owner.
ReleaseAnyOwner(h, s) ==
    /\ <<h, s>> \in releasing
    /\ releasing' = releasing \ {<<h, s>>}
    /\ row' = [row EXCEPT ![s] = NoHolder]
    /\ left' = [left EXCEPT ![s] = 0]
    /\ UNCHANGED <<local, trying, held, lost, stolen, wait, due, retrying,
                   budget, asking, age, bare>>

\* The spawned task: DELETE ... WHERE subject = ? AND owner = ?
Release(h, s) ==
    /\ <<h, s>> \in releasing
    /\ releasing' = releasing \ {<<h, s>>}
    /\ IF row[s] = h
       THEN /\ row' = [row EXCEPT ![s] = NoHolder]
            /\ left' = [left EXCEPT ![s] = 0]
       ELSE UNCHANGED <<row, left>>
    /\ UNCHANGED <<local, trying, held, lost, stolen, wait, due, retrying,
                   budget, asking, age, bare>>

ReleaseFails(h, s) ==
    /\ <<h, s>> \in releasing
    /\ releasing' = releasing \ {<<h, s>>}
    /\ UNCHANGED <<local, row, trying, held, lost, stolen, left, wait, due,
                   retrying, budget, asking, age, bare>>

------------------------------------------------------------------------------
(* The refresh task of a guard.                                            *)

Live(h, s) == <<h, s>> \in held \ lost

\* The task wakes up from a sleep or a pause.
Awake(h, s) == Live(h, s) /\ <<h, s>> \notin asking /\ due[<<h, s>>] = 0

\* The statement is prepared, with its now; the first one of a cycle sets
\* retry_deadline.
AskRefresh(h, s) ==
    LET p == <<h, s>> IN
    /\ Awake(h, s)
    /\ asking' = asking \cup {p}
    /\ retrying' = retrying \cup {p}
    /\ budget' = [budget EXCEPT ![p] = IF p \in retrying THEN @ ELSE RetryBudget]
    /\ UNCHANGED <<local, row, trying, held, lost, releasing, stolen, left,
                   wait, due, age, bare>>

\* The statement has returned.
Answered(h, s) ==
    /\ <<h, s>> \in asking
    /\ asking' = asking \ {<<h, s>>}
    /\ age' = [age EXCEPT ![<<h, s>>] = 0]

\* It found its row: expires_at is Ttl from the now of the statement.
RefreshOk(h, s) ==
    /\ Answered(h, s)
    /\ row[s] = h
    /\ left' = [left EXCEPT ![s] = Ttl - age[<<h, s>>]]
    /\ due' = [due EXCEPT ![<<h, s>>] = RefreshEvery]
    /\ retrying' = retrying \ {<<h, s>>}
    /\ budget' = [budget EXCEPT ![<<h, s>>] = 0]
    /\ UNCHANGED <<local, row, trying, held, lost, releasing, stolen, wait, bare>>

\* It failed, or found no row of its own: only now does the task look at
\* retry_deadline.
RefreshFails(h, s) ==
    LET p == <<h, s>> IN
    /\ Answered(h, s)
    /\ IF budget[p] = 0
       THEN /\ lost' = lost \cup {p}
            /\ retrying' = retrying \ {p}
            /\ bare' = [bare EXCEPT ![p] = 0]
            /\ UNCHANGED due
       ELSE /\ due' = [due EXCEPT ![p] = RetryEvery]
            /\ UNCHANGED <<lost, retrying, bare>>
    /\ UNCHANGED <<local, row, trying, held, releasing, stolen, left, wait, budget>>

------------------------------------------------------------------------------
Down(timer) == [x \in DOMAIN timer |-> IF timer[x] = 0 THEN 0 ELSE timer[x] - 1]

\* Guards that are live and whose row is gone.
Stale == {p \in held \ lost : row[p[2]] # p[1]}

\* No statement waits for more than StatementTime; with Prompt, no task
\* oversleeps.
Tick ==
    /\ \A p \in trying \cup asking : age[p] < StatementTime
    /\ Prompt => \A h \in Holder, s \in Subject : ~Awake(h, s)
    /\ left' = [s \in Subject |->
                   IF row[s] = NoHolder \/ left[s] = -StatementTime
                   THEN left[s] ELSE left[s] - 1]
    /\ wait' = Down(wait)
    /\ due' = Down(due)
    /\ budget' = Down(budget)
    /\ age' = [p \in Pair |-> IF p \in trying \cup asking THEN age[p] + 1 ELSE age[p]]
    /\ bare' = [p \in Pair |->
                   IF p \in Stale /\ bare[p] <= StaleTicks THEN bare[p] + 1 ELSE bare[p]]
    /\ UNCHANGED <<local, row, trying, held, lost, releasing, stolen, retrying, asking>>

Crash(i) ==
    LET Dead == {h \in Holder : InstanceOf[h] = i} \X Subject IN
    /\ local' = [local EXCEPT ![i] = [s \in Subject |-> NoHolder]]
    /\ trying' = trying \ Dead
    /\ wait' = Clear(wait, Dead)
    /\ held' = held \ Dead
    /\ lost' = lost \ Dead
    /\ releasing' = releasing \ Dead
    /\ stolen' = stolen \ Dead
    /\ due' = Clear(due, Dead)
    /\ retrying' = retrying \ Dead
    /\ budget' = Clear(budget, Dead)
    /\ asking' = asking \ Dead
    /\ age' = Clear(age, Dead)
    /\ bare' = Clear(bare, Dead)
    /\ UNCHANGED <<row, left>>

Step(h, s) ==
    \/ LockLocal(h, s) \/ AcquireRow(h, s) \/ AbandonInsert(h, s)
    \/ LookAgain(h, s) \/ TimeOut(h, s)
    \/ Release(h, s) \/ ReleaseFails(h, s)
    \/ AskRefresh(h, s) \/ RefreshOk(h, s) \/ RefreshFails(h, s)

Next ==
    \/ \E h \in Holder, s \in Subject : Step(h, s)
    \/ \E h \in Holder, S \in SUBSET Subject : DropGuards(h, S)
    \/ Tick
    \/ \E i \in Instance : Crash(i)

Spec == Init /\ [][Next]_vars

\* Time passes, the acquire loop turns, refresh tasks are run, statements
\* return.
FairSpec ==
    /\ Spec
    /\ WF_vars(Tick)
    /\ \A h \in Holder, s \in Subject :
          /\ WF_vars(AcquireRow(h, s) \/ LookAgain(h, s) \/ TimeOut(h, s))
          /\ WF_vars(AskRefresh(h, s))
          /\ WF_vars(RefreshOk(h, s) \/ RefreshFails(h, s))

------------------------------------------------------------------------------
(* While refresh tasks wake up on time, a guard that says it is live after *)
(* another process took its row does so for StaleTicks ticks at most: the  *)
(* lease was written late by as long as its statement waited, the task     *)
(* looks at the retry deadline only when a statement has failed, and no    *)
(* run of failed refreshes adds to that.                                   *)
StaleOnlyBriefly ==
    Prompt => \A h \in Holder, s \in Subject :
        Live(h, s) /\ row[s] # h => bare[<<h, s>>] <= StaleTicks

(* The timed lock does nothing that the untimed one does not allow.        *)
ImplementsLock == Lock!LockSpec

(* A request does not wait for ever for a row: it gets the row or times    *)
(* out, even when the process that owned the row has died.                 *)
WaitEnds ==
    \A h \in Holder, s \in Subject :
        <<h, s>> \in trying ~> <<h, s>> \notin trying
==============================================================================
