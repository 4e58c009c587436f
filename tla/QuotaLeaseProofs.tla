--------------------------- MODULE QuotaLeaseProofs ---------------------------
(***************************************************************************)
(* Proofs about QuotaLease, for any number of processes, requests and      *)
(* subjects and any timer values: the lock with its clock implements the   *)
(* untimed lock, so what is proved of that one holds here, and a guard is  *)
(* wrong about its lease for a bounded time, whatever its statements wait  *)
(* for and fail with.                                                      *)
(***************************************************************************)
EXTENDS QuotaLease, TLAPS

\* The theorems of the untimed lock, for this one.
Untimed == INSTANCE SubjectLockProofs WITH
               expired <- {s \in Subject : row[s] # NoHolder /\ left[s] <= 0}

Expired == {s \in Subject : row[s] # NoHolder /\ left[s] <= 0}

------------------------------------------------------------------------------
(* Types.                                                                  *)

LEMMA ClearTypes ==
    ASSUME NEW N, 0 \in N, NEW timer \in [Pair -> N], NEW P
    PROVE  Clear(timer, P) \in [Pair -> N]
  BY DEF Clear

LEMMA DownTypes ==
    ASSUME NEW D, NEW b \in Nat, NEW timer \in [D -> 0..b]
    PROVE  /\ Down(timer) \in [D -> 0..b]
           /\ \A x \in D : Down(timer)[x] = IF timer[x] = 0 THEN 0 ELSE timer[x] - 1
<1>1. DOMAIN timer = D
  OBVIOUS
<1>2. ASSUME NEW x \in D PROVE (IF timer[x] = 0 THEN 0 ELSE timer[x] - 1) \in 0..b
  OBVIOUS
<1> QED
  BY <1>1, <1>2 DEF Down

\* The types of the timers.
TimerTypes ==
    /\ left \in [Subject -> (-StatementTime)..Ttl]
    /\ wait \in [Pair -> 0..AcquireTimeout]
    /\ due \in [Pair -> 0..MaxTicks]
    /\ retrying \in SUBSET Pair
    /\ budget \in [Pair -> 0..MaxTicks]
    /\ asking \in SUBSET Pair
    /\ age \in [Pair -> 0..StatementTime]
    /\ bare \in [Pair -> 0..StaleTicks + 1]

LEMMA BudgetRange ==
    /\ MaxTicks \in Nat /\ RefreshEvery \in 0..MaxTicks /\ RetryEvery \in 0..MaxTicks
    /\ RetryBudget \in 0..MaxTicks /\ 0 \in (-StatementTime)..Ttl
    /\ \A a \in 0..StatementTime : Ttl - a \in (-StatementTime)..Ttl
    /\ 0 \in 0..StatementTime /\ StatementTime \in Nat
    /\ StaleTicks \in Nat /\ 0 \in 0..StaleTicks + 1
    /\ 0 \in 0..MaxTicks /\ 0 \in 0..AcquireTimeout /\ AcquireTimeout \in 0..AcquireTimeout
  BY TimerAssumption DEF MaxTicks, RetryBudget, StaleTicks

LEMMA TimerStep == TimerTypes /\ [Next]_vars => TimerTypes'
<1> SUFFICES ASSUME TimerTypes, [Next]_vars PROVE TimerTypes'
  OBVIOUS
<1>d. ASSUME NEW h \in Holder, NEW S \in SUBSET Subject, Discard(h, S),
             left' \in [Subject -> (-StatementTime)..Ttl]
      PROVE  TimerTypes'
  BY <1>d, ClearTypes, BudgetRange DEF Discard, TimerTypes
<1>1. ASSUME NEW h \in Holder, NEW s \in Subject, Step(h, s) PROVE TimerTypes'
  <2>p. <<h, s>> \in Pair
    BY DEF Pair
  <2>i. InsertRow(h, s) => left' \in [Subject -> (-StatementTime)..Ttl]
    BY <2>p, BudgetRange DEF InsertRow, TimerTypes
  <2>1. CASE LockLocal(h, s)
    BY <2>1, <2>p, BudgetRange DEF LockLocal, TimerTypes
  <2>2. CASE AcquireRow(h, s)
    BY <2>2, <2>i, <2>p, BudgetRange DEF AcquireRow, TimerTypes
  <2>3. CASE AbandonInsert(h, s)
    <3>1. left' \in [Subject -> (-StatementTime)..Ttl]
      BY <2>3, <2>i DEF AbandonInsert
    <3>2. Discard(h, Subject) /\ Subject \in SUBSET Subject
      BY <2>3 DEF AbandonInsert
    <3> QED
      BY <1>d, <3>1, <3>2
  <2>4. CASE TimeOut(h, s)
    <3>1. Discard(h, Subject) /\ left' = left /\ Subject \in SUBSET Subject
      BY <2>4 DEF TimeOut, DropGuards
    <3> QED
      BY <1>d, <3>1 DEF TimerTypes
  <2>5. CASE Release(h, s)
    BY <2>5, BudgetRange DEF Release, TimerTypes
  <2>6. CASE ReleaseFails(h, s)
    BY <2>6 DEF ReleaseFails, TimerTypes
  <2>7. CASE RefreshOk(h, s)
    BY <2>7, <2>p, BudgetRange DEF RefreshOk, Answered, TimerTypes
  <2>8. CASE RefreshFails(h, s)
    <3>1. /\ due' \in [Pair -> 0..MaxTicks] /\ retrying' \in SUBSET Pair
          /\ bare' \in [Pair -> 0..StaleTicks + 1]
      BY <2>8, <2>p, BudgetRange DEF RefreshFails, TimerTypes
    <3>2. asking' \in SUBSET Pair /\ age' \in [Pair -> 0..StatementTime]
      BY <2>8, <2>p, BudgetRange DEF RefreshFails, Answered, TimerTypes
    <3> QED
      BY <2>8, <3>1, <3>2 DEF RefreshFails, TimerTypes
  <2>9. CASE LookAgain(h, s)
    BY <2>9, <2>p, BudgetRange DEF LookAgain, TimerTypes
  <2>10. CASE AskRefresh(h, s)
    BY <2>10, <2>p, BudgetRange DEF AskRefresh, TimerTypes
  <2> QED
    BY <1>1, <2>1, <2>2, <2>3, <2>4, <2>5, <2>6, <2>7, <2>8, <2>9, <2>10 DEF Step
<1>2. ASSUME NEW h \in Holder, NEW S \in SUBSET Subject, DropGuards(h, S) PROVE TimerTypes'
  BY <1>2, <1>d DEF DropGuards, TimerTypes
<1>3. CASE Tick
  <2>1. Ttl \in Nat /\ AcquireTimeout \in Nat /\ MaxTicks \in Nat
    BY TimerAssumption, BudgetRange
  <2>2. left' \in [Subject -> (-StatementTime)..Ttl]
    <3>1. /\ left \in [Subject -> (-StatementTime)..Ttl] /\ StatementTime \in Nat
          /\ left' = [s \in Subject |->
                        IF row[s] = NoHolder \/ left[s] = -StatementTime
                        THEN left[s] ELSE left[s] - 1]
      BY <1>3, BudgetRange DEF Tick, TimerTypes
    <3>2. ASSUME NEW s \in Subject PROVE left'[s] \in (-StatementTime)..Ttl
      BY <2>1, <3>1
    <3> QED
      BY <3>1, <3>2
  <2>3. wait' \in [Pair -> 0..AcquireTimeout]
    BY <1>3, <2>1, DownTypes DEF Tick, TimerTypes
  <2>4. due' \in [Pair -> 0..MaxTicks]
    BY <1>3, <2>1, DownTypes DEF Tick, TimerTypes
  <2>5. budget' \in [Pair -> 0..MaxTicks]
    BY <1>3, <2>1, DownTypes DEF Tick, TimerTypes
  <2>6. age' \in [Pair -> 0..StatementTime]
    <3>1. ASSUME NEW p \in Pair PROVE age'[p] \in 0..StatementTime
      BY <1>3, BudgetRange DEF Tick, TimerTypes
    <3> QED
      BY <1>3, <3>1 DEF Tick
  <2>7. bare' \in [Pair -> 0..StaleTicks + 1]
    <3>1. ASSUME NEW p \in Pair PROVE bare'[p] \in 0..StaleTicks + 1
      BY <1>3, BudgetRange DEF Tick, TimerTypes
    <3> QED
      BY <1>3, <3>1 DEF Tick
  <2> QED
    BY <1>3, <2>2, <2>3, <2>4, <2>5, <2>6, <2>7 DEF Tick, TimerTypes
<1>4. ASSUME NEW i \in Instance, Crash(i) PROVE TimerTypes'
  BY <1>4, ClearTypes, BudgetRange DEF Crash, TimerTypes
<1>5. CASE UNCHANGED vars
  BY <1>5 DEF vars, TimerTypes
<1> QED
  BY <1>1, <1>2, <1>3, <1>4, <1>5 DEF Next

------------------------------------------------------------------------------
(* Every step is a step of the untimed lock, or none.                      *)

\* A statement is on its way for live guards only.
AskingLive == asking \subseteq held \ lost

LEMMA AskingStep == AskingLive /\ [Next]_vars => AskingLive'
<1> SUFFICES ASSUME AskingLive, [Next]_vars PROVE AskingLive'
  OBVIOUS
<1>d. ASSUME NEW h, NEW S, Discard(h, S) PROVE AskingLive'
  BY <1>d DEF Discard, AskingLive
<1>1. ASSUME NEW h \in Holder, NEW s \in Subject, Step(h, s) PROVE AskingLive'
  <2>1. CASE AcquireRow(h, s)
    BY <2>1 DEF AcquireRow, AskingLive
  <2>2. CASE AskRefresh(h, s)
    BY <2>2 DEF AskRefresh, Awake, Live, AskingLive
  <2>3. CASE RefreshOk(h, s) \/ RefreshFails(h, s)
    BY <2>3 DEF RefreshOk, RefreshFails, Answered, AskingLive
  <2>4. CASE AbandonInsert(h, s) \/ TimeOut(h, s)
    BY <1>d, <2>4 DEF AbandonInsert, TimeOut, DropGuards
  <2> QED
    BY <1>1, <2>1, <2>2, <2>3, <2>4
    DEF Step, LockLocal, LookAgain, Release, ReleaseFails, AskingLive
<1>2. ASSUME NEW h \in Holder, NEW S \in SUBSET Subject, DropGuards(h, S) PROVE AskingLive'
  BY <1>2, <1>d DEF DropGuards
<1>3. CASE Tick
  BY <1>3 DEF Tick, AskingLive
<1>4. ASSUME NEW i \in Instance, Crash(i) PROVE AskingLive'
  BY <1>4 DEF Crash, AskingLive
<1>5. CASE UNCHANGED vars
  BY <1>5 DEF vars, AskingLive
<1> QED
  BY <1>1, <1>2, <1>3, <1>4, <1>5 DEF Next

LEMMA StepImplements ==
    TypeOK /\ AskingLive /\ [Next]_vars => [Lock!LockNext]_(Lock!lockVars)
<1> SUFFICES ASSUME TypeOK, AskingLive, [Next]_vars
             PROVE  Lock!LockNext \/ UNCHANGED Lock!lockVars
  OBVIOUS
<1>0. /\ row \in [Subject -> Holder \cup {NoHolder}]
      /\ left \in [Subject -> (-StatementTime)..Ttl]
      /\ Ttl \in Nat /\ StatementTime \in Nat
      /\ \A p \in Pair : age[p] \in Nat
  BY TimerAssumption DEF TypeOK, Lock!LockTypeOK
<1>e. ASSUME UNCHANGED <<row, left>> PROVE Expired' = Expired
  BY <1>e DEF Expired
\* What a statement writes about a row only changes whether that one is over.
<1>w. ASSUME NEW s \in Subject,
             \A x \in Subject \ {s} : row'[x] = row[x] /\ left'[x] = left[x]
      PROVE  Expired' \in {Expired \ {s}, Expired \cup {s}}
  <2>1. CASE s \in Expired'
    <3>1. Expired' = Expired \cup {s}
      BY <1>w, <2>1 DEF Expired
    <3> QED
      BY <3>1
  <2>2. CASE s \notin Expired'
    <3>1. Expired' = Expired \ {s}
      BY <1>w, <2>2 DEF Expired
    <3> QED
      BY <3>1
  <2> QED
    BY <2>1, <2>2
<1>i. ASSUME NEW h \in Holder, NEW s \in Subject, InsertRow(h, s)
      PROVE  Lock!InsertRow(h, s)
  <2>1. Expired' \in {Expired \ {s}, Expired \cup {s}}
    <3>1. \A x \in Subject \ {s} : row'[x] = row[x] /\ left'[x] = left[x]
      BY <1>0, <1>i DEF InsertRow
    <3> QED
      BY <1>w, <3>1
  <2>2. row[s] = NoHolder \/ s \in Expired
    <3>1. <<h, s>> \in Pair
      BY DEF Pair
    <3> QED
      BY <1>0, <1>i, <3>1 DEF InsertRow, Free, Expired
  <2> QED
    BY <1>i, <2>1, <2>2 DEF InsertRow, Lock!InsertRow, Lock!WriteExpiry, Expired
<1>1. ASSUME NEW h \in Holder, NEW s \in Subject, Step(h, s)
      PROVE  Lock!LockNext \/ UNCHANGED Lock!lockVars
  <2>1. CASE LockLocal(h, s)
    <3>1. Lock!LockLocal(h, s)
      BY <1>e, <2>1 DEF LockLocal, Lock!LockLocal, Expired
    <3> QED
      BY <3>1 DEF Lock!LockNext
  <2>2. CASE AcquireRow(h, s)
    <3>1. Lock!InsertRow(h, s)
      BY <1>i, <2>2 DEF AcquireRow
    <3>2. Lock!AcquireRow(h, s)
      BY <2>2, <3>1 DEF AcquireRow, Lock!AcquireRow, Lock!GuardOfRow
    <3> QED
      BY <3>2 DEF Lock!LockNext
  <2>3. CASE AbandonInsert(h, s)
    <3>1. Lock!InsertRow(h, s)
      BY <1>i, <2>3 DEF AbandonInsert
    <3>2. Lock!AbandonInsert(h, s)
      BY <2>3, <3>1
      DEF AbandonInsert, Discard, FreeMutexes, Of, Lock!AbandonInsert,
          Lock!GuardOfRow, Lock!FreeMutexes, Lock!Of
    <3> QED
      BY <3>2 DEF Lock!LockNext
  <2>4. CASE TimeOut(h, s)
    <3>1. Lock!DropGuards(h, Subject)
      BY <1>e, <2>4
      DEF TimeOut, DropGuards, Discard, FreeMutexes, Of, Lock!DropGuards, Lock!FreeMutexes,
          Lock!Of, Expired
    <3>2. Subject \in SUBSET Subject
      OBVIOUS
    <3> QED
      BY <3>1, <3>2 DEF Lock!LockNext
  <2>5. CASE Release(h, s)
    <3>1. CASE row[s] = h
      <4>1. Expired' = Expired \ {s}
        <5>1. row'[s] = NoHolder /\ \A t \in Subject : t # s => row'[t] = row[t] /\ left'[t] = left[t]
          BY <1>0, <2>5, <3>1 DEF Release
        <5> QED
          BY <5>1 DEF Expired
      <4>2. Lock!Release(h, s)
        BY <2>5, <3>1, <4>1 DEF Release, Lock!Release, Expired
      <4> QED
        BY <4>2 DEF Lock!LockNext
    <3>2. CASE row[s] # h
      <4>1. Lock!Release(h, s)
        BY <1>e, <2>5, <3>2 DEF Release, Lock!Release, Expired
      <4> QED
        BY <4>1 DEF Lock!LockNext
    <3> QED
      BY <3>1, <3>2
  <2>6. CASE ReleaseFails(h, s)
    <3>1. Lock!ReleaseFails(h, s)
      BY <1>e, <2>6 DEF ReleaseFails, Lock!ReleaseFails, Expired
    <3> QED
      BY <3>1 DEF Lock!LockNext
  <2>7. CASE RefreshOk(h, s)
    <3>1. Expired' \in {Expired \ {s}, Expired \cup {s}}
      <4>1. \A x \in Subject \ {s} : row'[x] = row[x] /\ left'[x] = left[x]
        BY <1>0, <2>7 DEF RefreshOk
      <4> QED
        BY <1>w, <4>1
    <3>2. <<h, s>> \in held \ lost
      BY <2>7 DEF RefreshOk, Answered, AskingLive
    <3>3. Lock!Refresh(h, s)
      BY <2>7, <3>1, <3>2 DEF RefreshOk, Lock!Refresh, Lock!WriteExpiry, Expired
    <3> QED
      BY <3>3 DEF Lock!LockNext
  <2>8. CASE RefreshFails(h, s)
    <3>1. /\ UNCHANGED <<local, row, trying, held, releasing, stolen, left>>
          /\ lost' = lost \cup {<<h, s>>} \/ lost' = lost
      BY <2>8 DEF RefreshFails
    <3>2. CASE lost' = lost \cup {<<h, s>>}
      <4>1. <<h, s>> \in held \ lost
        BY <2>8 DEF RefreshFails, Answered, AskingLive
      <4>2. Lock!GiveUpLease(h, s)
        BY <1>e, <3>1, <3>2, <4>1 DEF Lock!GiveUpLease, Expired
      <4> QED
        BY <4>2 DEF Lock!LockNext
    <3>3. CASE lost' = lost
      BY <1>e, <3>1, <3>3 DEF Lock!lockVars, Expired
    <3> QED
      BY <3>1, <3>2, <3>3
  <2>9. CASE LookAgain(h, s)
    BY <1>e, <2>9 DEF LookAgain, Lock!lockVars, Expired
  <2>10. CASE AskRefresh(h, s)
    BY <1>e, <2>10 DEF AskRefresh, Lock!lockVars, Expired
  <2> QED
    BY <1>1, <2>1, <2>2, <2>3, <2>4, <2>5, <2>6, <2>7, <2>8, <2>9, <2>10 DEF Step
<1>2. ASSUME NEW h \in Holder, NEW S \in SUBSET Subject, DropGuards(h, S)
      PROVE  Lock!LockNext
  <2>1. Lock!DropGuards(h, S)
    BY <1>e, <1>2
    DEF DropGuards, Discard, FreeMutexes, Of, Lock!DropGuards, Lock!FreeMutexes, Lock!Of, Expired
  <2> QED
    BY <2>1 DEF Lock!LockNext
<1>3. CASE Tick
  <2> DEFINE S == {s \in Subject : row[s] # NoHolder /\ left'[s] <= 0}
  <2>1. \A s \in Subject : left[s] <= 0 => left'[s] <= 0
    BY <1>0, <1>3 DEF Tick
  <2>2. Expired' = Expired \cup S
    BY <1>3, <2>1 DEF Tick, Expired
  <2>3. PICK T \in SUBSET Subject : T = S
    OBVIOUS
  <2>4. Lock!Expire(T)
    BY <1>3, <2>2, <2>3 DEF Tick, Lock!Expire, Expired
  <2> QED
    BY <2>4 DEF Lock!LockNext
<1>4. ASSUME NEW i \in Instance, Crash(i) PROVE Lock!LockNext
  <2>1. Lock!Crash(i)
    BY <1>e, <1>4 DEF Crash, Lock!Crash, Expired
  <2> QED
    BY <2>1 DEF Lock!LockNext
<1>5. CASE UNCHANGED vars
  BY <1>5, <1>e DEF vars, Lock!lockVars, Expired
<1> QED
  BY <1>1, <1>2, <1>3, <1>4, <1>5 DEF Next

LEMMA InitImplements == Init => Lock!LockInit /\ TypeOK
<1> SUFFICES ASSUME Init PROVE Lock!LockInit /\ TypeOK
  OBVIOUS
<1>1. Lock!LockInit
  BY DEF Init, Lock!LockInit
<1>2. Lock!LockTypeOK
  BY DEF Init, Lock!LockTypeOK, Lock!Pair
<1> QED
  BY <1>1, <1>2, BudgetRange DEF Init, TypeOK

\* The lock that QuotaLease instantiates is the one the theorems are about.
LEMMA SameLock ==
    /\ Lock!LockInit <=> Untimed!LockInit
    /\ [Lock!LockNext]_(Lock!lockVars) <=> [Untimed!LockNext]_(Untimed!lockVars)
    /\ Lock!LockTypeOK <=> Untimed!LockTypeOK
    /\ Lock!LockTypeOK' <=> Untimed!LockTypeOK'
    /\ Lock!SerializedUnlessStolen <=> Untimed!SerializedUnlessStolen
<1>1. Lock!LockInit <=> Untimed!LockInit
  BY DEF Lock!LockInit, Untimed!LockInit
<1>2. [Lock!LockNext]_(Lock!lockVars) <=> [Untimed!LockNext]_(Untimed!lockVars)
  BY DEF Lock!LockNext, Lock!LockLocal, Lock!AcquireRow, Lock!AbandonInsert, Lock!InsertRow,
      Lock!WriteExpiry, Untimed!WriteExpiry,
      Lock!GuardOfRow, Lock!Of, Lock!FreeMutexes, Lock!DropGuards, Lock!Release,
      Lock!ReleaseFails, Lock!Refresh, Lock!GiveUpLease, Lock!Expire, Lock!Crash,
      Lock!lockVars, Untimed!LockNext, Untimed!LockLocal, Untimed!AcquireRow,
      Untimed!AbandonInsert, Untimed!InsertRow, Untimed!GuardOfRow, Untimed!Of,
      Untimed!FreeMutexes, Untimed!DropGuards, Untimed!Release, Untimed!ReleaseFails,
      Untimed!Refresh, Untimed!GiveUpLease, Untimed!Expire, Untimed!Crash,
      Untimed!lockVars
<1>3. Lock!LockTypeOK <=> Untimed!LockTypeOK
  BY DEF Lock!LockTypeOK, Untimed!LockTypeOK, Lock!Pair, Untimed!Pair
<1>4. Lock!LockTypeOK' <=> Untimed!LockTypeOK'
  BY DEF Lock!LockTypeOK, Untimed!LockTypeOK, Lock!Pair, Untimed!Pair
<1>5. Lock!SerializedUnlessStolen <=> Untimed!SerializedUnlessStolen
  BY DEF Lock!SerializedUnlessStolen, Untimed!SerializedUnlessStolen
<1> QED
  BY <1>1, <1>2, <1>3, <1>4, <1>5

LEMMA TypeStep == TypeOK /\ AskingLive /\ [Next]_vars => TypeOK'
<1> SUFFICES ASSUME TypeOK, AskingLive, [Next]_vars PROVE TypeOK'
  OBVIOUS
<1>1. TimerTypes'
  BY TimerStep DEF TypeOK, TimerTypes
<1>2. [Lock!LockNext]_(Lock!lockVars)
  BY StepImplements
<1>3. Lock!LockTypeOK'
  BY <1>2, SameLock, Untimed!LockTypeStep, InstanceOfAssumption, NoHolderAssumption DEF TypeOK
<1> QED
  BY <1>1, <1>3 DEF TypeOK, TimerTypes

LEMMA LeaseInvariant == Spec => [](TypeOK /\ AskingLive)
<1>1. Init => TypeOK /\ AskingLive
  BY InitImplements DEF Init, AskingLive
<1> QED
  BY <1>1, TypeStep, AskingStep, PTL DEF Spec

(* Every variable of the lock and every timer keeps its type: no timer     *)
(* runs below zero or above the longest sleep, and no row is written with  *)
(* a lease longer than Ttl.                                                *)
THEOREM LeaseTypeCorrect == Spec => []TypeOK
  BY LeaseInvariant, PTL

(* The lock with its clock, its refresh tasks and its deadlines does       *)
(* nothing that the untimed lock does not allow, whatever the timer        *)
(* values: what is proved of SubjectLock holds of it.                      *)
THEOREM LeaseImplementsLock == Spec => ImplementsLock
  BY InitImplements, StepImplements, LeaseInvariant, PTL DEF Spec, ImplementsLock, Lock!LockSpec

(* So over all processes two requests have a guard on one subject together *)
(* only when a lease expired under one of them.                            *)
THEOREM LeaseSerialized == Spec => []Lock!SerializedUnlessStolen
<1>1. Spec => Untimed!LockSpec
  BY LeaseImplementsLock, SameLock, PTL DEF ImplementsLock, Lock!LockSpec, Untimed!LockSpec
<1>2. Untimed!LockSpec => []Untimed!SerializedUnlessStolen
  BY Untimed!Serialization, InstanceOfAssumption, NoHolderAssumption
<1> QED
  BY <1>1, <1>2, SameLock, PTL

------------------------------------------------------------------------------
(* The clock of a guard, with a lease that outlives the sleep before the   *)
(* first refresh.  Its retry deadline, in the future or once the next      *)
(* cycle begins, is at most StatementTime ticks after its lease is over,   *)
(* for a lease is written at most that long after its now.                 *)

\* The timer values of the code: 20, 5 and 1 seconds.
CodeTimers == Ttl >= RefreshEvery + RetryEvery

\* ret, ask, own: the guard is in the retry loop, its statement is on its way,
\* its row is its own; d, b, l, a, x: its due, budget, left, age and bare.
OnTime(ret, ask, own, d, b, l, a, x) ==
    /\ ask => ret
    /\ ~ask => a = 0
    /\ own => x = 0
    /\ ~ret /\ own => l >= (Ttl - RefreshEvery) + d - StatementTime
    /\ ~ret /\ ~own => x + (Ttl - RefreshEvery) + d <= StatementTime
    /\ ret /\ ~ask => d <= RetryEvery /\ (b = 0 => d < RetryEvery)
    /\ ret /\ own => l >= b - StatementTime
    /\ ret /\ ~own /\ b > 0 => x + b <= StatementTime
    /\ ret /\ ~own /\ b = 0 /\ ask => x <= StatementTime + RetryEvery - 1 + a
    /\ ret /\ ~own /\ b = 0 /\ ~ask => x + d <= StatementTime + RetryEvery - 1

Timely(h, s) ==
    LET p == <<h, s>> IN
    OnTime(p \in retrying, p \in asking, row[s] = h,
           due[p], budget[p], left[s], age[p], bare[p])

TimelyInv ==
    /\ retrying \subseteq held
    /\ \A p \in Pair \ (held \ lost) : bare[p] = 0
    /\ \A h \in Holder, s \in Subject : Live(h, s) => Timely(h, s)

\* A row that is over may be taken from under a guard on time.
LEMMA TakenOnTime ==
    ASSUME CodeTimers, NEW ret \in BOOLEAN, NEW ask \in BOOLEAN,
           NEW d \in Nat, NEW b \in Nat, NEW l \in Int, NEW a \in Nat, NEW x \in Nat,
           NEW m \in Int, l <= 0, OnTime(ret, ask, TRUE, d, b, l, a, x)
    PROVE  OnTime(ret, ask, FALSE, d, b, m, a, x)
<1>1. Ttl \in Nat /\ RefreshEvery \in Nat /\ RetryEvery \in Nat \ {0} /\ StatementTime \in Nat
  BY TimerAssumption
<1> QED
  BY <1>1 DEF OnTime, CodeTimers

LEMMA OnTimeIsBrief ==
    ASSUME CodeTimers, NEW ret \in BOOLEAN, NEW ask \in BOOLEAN,
           NEW d \in Nat, NEW b \in Nat, NEW l \in Int, NEW a \in 0..StatementTime, NEW x \in Nat,
           OnTime(ret, ask, FALSE, d, b, l, a, x)
    PROVE  x <= StaleTicks
<1>1. Ttl \in Nat /\ RefreshEvery \in Nat /\ RetryEvery \in Nat \ {0} /\ StatementTime \in Nat
  BY TimerAssumption
<1> QED
  BY <1>1 DEF OnTime, CodeTimers, StaleTicks

\* A guard whose timers and statement stay as they are, and whose row stays as
\* it is or is taken by another when its lease is over, keeps its clock.
LEMMA KeepsTime ==
    ASSUME CodeTimers, TypeOK, NEW h \in Holder, NEW s \in Subject, Timely(h, s),
           (<<h, s>> \in retrying)' <=> <<h, s>> \in retrying,
           (<<h, s>> \in asking)' <=> <<h, s>> \in asking,
           due'[<<h, s>>] = due[<<h, s>>], budget'[<<h, s>>] = budget[<<h, s>>],
           age'[<<h, s>>] = age[<<h, s>>], bare'[<<h, s>>] = bare[<<h, s>>],
           left'[s] \in Int,
           \/ row'[s] = row[s] /\ left'[s] = left[s]
           \/ row[s] # h /\ row'[s] # h
           \/ left[s] <= 0 /\ row'[s] # h
    PROVE  Timely(h, s)'
<1> DEFINE p == <<h, s>>
<1>1. /\ p \in Pair /\ due[p] \in Nat /\ budget[p] \in Nat /\ left[s] \in Int
      /\ age[p] \in Nat /\ bare[p] \in Nat
  BY TimerAssumption, BudgetRange DEF TypeOK, Pair
<1> HIDE DEF p
<1>2. OnTime(p \in retrying, p \in asking, row[s] = h,
             due[p], budget[p], left[s], age[p], bare[p])
  BY DEF Timely, p
<1>3. CASE row'[s] = row[s] /\ left'[s] = left[s]
  BY <1>3 DEF Timely, OnTime, p
<1>4. CASE row[s] # h /\ row'[s] # h
  BY <1>4 DEF Timely, OnTime, p
<1>5. CASE row[s] = h /\ left[s] <= 0 /\ row'[s] # h
  <2>1. OnTime(p \in retrying, p \in asking, TRUE,
               due[p], budget[p], left[s], age[p], bare[p])
    BY <1>2, <1>5 DEF OnTime
  <2>2. PICK ret \in BOOLEAN, ask \in BOOLEAN :
            (ret <=> p \in retrying) /\ (ask <=> p \in asking)
    BY Zenon
  <2>3. OnTime(ret, ask, TRUE, due[p], budget[p], left[s], age[p], bare[p])
    BY <2>1, <2>2 DEF OnTime
  <2>4. OnTime(ret, ask, FALSE, due[p], budget[p], left'[s], age[p], bare[p])
    BY <1>1, <1>5, <2>3, TakenOnTime
  <2> QED
    BY <1>5, <2>2, <2>4 DEF Timely, OnTime, p
<1> QED
  BY <1>3, <1>4, <1>5

LEMMA TimelyInit == Init => TimelyInv
  BY DEF Init, TimelyInv, Live

\* A turn that finds the row of another guard finds its lease over.
LEMMA FreeIsOver ==
    ASSUME TypeOK, NEW g \in Holder, NEW h \in Holder, NEW s \in Subject, Free(g, s)
    PROVE  row[s] # h \/ left[s] <= 0
<1>1. left[s] \in Int /\ age[<<g, s>>] \in Nat /\ NoHolder # h
  BY TimerAssumption, NoHolderAssumption, BudgetRange DEF TypeOK, Pair
<1> QED
  BY <1>1 DEF Free

\* Dropping guards touches neither the clock nor the row of the others.
LEMMA TimelyDiscard ==
    ASSUME CodeTimers, TypeOK, TypeOK', TimelyInv,
           NEW h \in Holder, NEW S \in SUBSET Subject, Discard(h, S),
           UNCHANGED <<row, left>> \/ \E s \in S : InsertRow(h, s)
    PROVE  TimelyInv'
<1>1. retrying' \subseteq held'
  BY DEF Discard, TimelyInv
<1>2. ASSUME NEW g \in Holder, NEW t \in Subject, Live(g, t)'
      PROVE  Timely(g, t)'
  <2> DEFINE q == <<g, t>>
  <2>1. q \in Pair /\ q \notin Of(h, S) /\ Live(g, t)
    BY <1>2 DEF Discard, Live, Pair
  <2>2. Timely(g, t)
    BY <2>1 DEF TimelyInv
  <2>3. ((q \in retrying)' <=> q \in retrying) /\ ((q \in asking)' <=> q \in asking)
    BY <2>1 DEF Discard
  <2>4. due'[q] = due[q] /\ budget'[q] = budget[q] /\ age'[q] = age[q] /\ bare'[q] = bare[q]
    BY <2>1 DEF Discard, Clear
  <2>5. /\ row \in [Subject -> Holder \cup {NoHolder}]
        /\ left \in [Subject -> (-StatementTime)..Ttl] /\ left'[t] \in Int
    BY BudgetRange DEF TypeOK, Lock!LockTypeOK
  <2>6. CASE UNCHANGED <<row, left>>
    BY <2>2, <2>3, <2>4, <2>5, <2>6, KeepsTime
  <2>7. ASSUME NEW s \in S, InsertRow(h, s)
        PROVE  Timely(g, t)'
    <3>1. CASE t # s
      <4>1. row'[t] = row[t] /\ left'[t] = left[t]
        BY <2>5, <2>7, <3>1 DEF InsertRow
      <4> QED
        BY <2>2, <2>3, <2>4, <2>5, <4>1, KeepsTime
    <3>2. CASE t = s
      <4>1. g # h
        BY <2>1, <3>2 DEF Of
      <4>2. row'[t] # g
        BY <2>5, <2>7, <3>2, <4>1 DEF InsertRow
      <4>3. row[t] # g \/ left[t] <= 0
        BY <2>7, <3>2, FreeIsOver DEF InsertRow
      <4> QED
        BY <2>2, <2>3, <2>4, <2>5, <4>2, <4>3, KeepsTime
    <3> QED
      BY <3>1, <3>2
  <2> QED
    BY <2>6, <2>7
<1>3. ASSUME NEW q \in Pair \ (held' \ lost') PROVE bare'[q] = 0
  BY <1>3 DEF Discard, Clear, TimelyInv
<1> QED
  BY <1>1, <1>2, <1>3 DEF TimelyInv

LEMMA TimelyAcquire ==
    ASSUME CodeTimers, TypeOK, TypeOK', Untimed!OneStage, AskingLive, TimelyInv,
           NEW h \in Holder, NEW s \in Subject, AcquireRow(h, s)
    PROVE  TimelyInv'
<1>0. /\ row \in [Subject -> Holder \cup {NoHolder}]
      /\ left \in [Subject -> (-StatementTime)..Ttl] /\ \A t \in Subject : left'[t] \in Int
      /\ due \in [Pair -> 0..MaxTicks] /\ age \in [Pair -> 0..StatementTime] /\ <<h, s>> \in Pair
      /\ Ttl \in Nat /\ RefreshEvery \in Nat /\ StatementTime \in Nat
  BY TimerAssumption, BudgetRange DEF TypeOK, Lock!LockTypeOK, Pair
<1>1. <<h, s>> \notin held /\ <<h, s>> \notin retrying /\ <<h, s>> \notin asking
  BY DEF AcquireRow, InsertRow, Untimed!OneStage, AskingLive, TimelyInv
<1>2. /\ retrying' = retrying /\ budget' = budget /\ asking' = asking /\ bare' = bare
      /\ retrying' \subseteq held'
  BY DEF AcquireRow, TimelyInv
<1>3. ASSUME NEW g \in Holder, NEW t \in Subject, Live(g, t)'
      PROVE  Timely(g, t)'
  <2>1. CASE <<g, t>> = <<h, s>>
    <3>1. /\ row'[s] = h /\ left'[s] = Ttl - age[<<h, s>>] /\ due'[<<h, s>>] = RefreshEvery
          /\ age'[<<h, s>>] = 0 /\ bare[<<h, s>>] = 0
      BY <1>0, <1>1 DEF AcquireRow, InsertRow, TimelyInv
    <3>2. Ttl - age[<<h, s>>] >= (Ttl - RefreshEvery) + RefreshEvery - StatementTime
      BY <1>0
    <3>3. g = h /\ t = s
      BY <2>1
    <3> QED
      BY <1>1, <1>2, <3>1, <3>2, <3>3 DEF Timely, OnTime
  <2>2. CASE <<g, t>> # <<h, s>>
    <3>1. <<g, t>> \in Pair /\ Live(g, t)
      BY <1>3, <2>2 DEF AcquireRow, Live, Pair
    <3>2. Timely(g, t)
      BY <3>1 DEF TimelyInv
    <3>3. due'[<<g, t>>] = due[<<g, t>>] /\ age'[<<g, t>>] = age[<<g, t>>]
      BY <1>0, <2>2, <3>1 DEF AcquireRow
    <3>4. CASE t # s
      <4>1. row'[t] = row[t] /\ left'[t] = left[t]
        BY <1>0, <3>4 DEF AcquireRow, InsertRow
      <4> QED
        BY <1>0, <1>2, <3>2, <3>3, <4>1, KeepsTime
    <3>5. CASE t = s
      <4>1. Free(h, t) /\ row'[t] # g
        BY <1>0, <2>2, <3>5 DEF AcquireRow, InsertRow
      <4>2. row[t] # g \/ left[t] <= 0
        BY <4>1, FreeIsOver
      <4> QED
        BY <1>0, <1>2, <3>2, <3>3, <4>1, <4>2, KeepsTime
    <3> QED
      BY <3>4, <3>5
  <2> QED
    BY <2>1, <2>2
<1>4. ASSUME NEW q \in Pair \ (held' \ lost') PROVE bare'[q] = 0
  BY <1>2, <1>4 DEF AcquireRow, TimelyInv
<1> QED
  BY <1>2, <1>3, <1>4 DEF TimelyInv

LEMMA TimelyTick ==
    ASSUME CodeTimers, Prompt, TypeOK, Untimed!OneStage, TimelyInv, Tick
    PROVE  TimelyInv'
<1>1. ASSUME NEW g \in Holder, NEW t \in Subject, Live(g, t)'
      PROVE  Timely(g, t)'
  <2> DEFINE p == <<g, t>>
  <2>1. p \in Pair /\ Live(g, t) /\ p \notin trying
    BY <1>1 DEF Tick, Live, Pair, Untimed!OneStage
  <2>2. Timely(g, t)
    BY <2>1 DEF TimelyInv
  <2>3. p \in asking \/ due[p] # 0
    BY <2>1 DEF Tick, Awake, Live
  <2>4. /\ due \in [Pair -> 0..MaxTicks] /\ budget \in [Pair -> 0..MaxTicks]
        /\ left \in [Subject -> (-StatementTime)..Ttl]
        /\ age \in [Pair -> 0..StatementTime] /\ bare \in [Pair -> 0..StaleTicks + 1]
        /\ MaxTicks \in Nat /\ Ttl \in Nat /\ StatementTime \in Nat /\ StaleTicks \in Nat
    BY BudgetRange, TimerAssumption DEF TypeOK
  <2>5. due'[p] = IF due[p] = 0 THEN 0 ELSE due[p] - 1
    <3>0. due \in [Pair -> 0..MaxTicks] /\ MaxTicks \in Nat
      BY <2>4
    <3>1. \A x \in Pair : Down(due)[x] = IF due[x] = 0 THEN 0 ELSE due[x] - 1
      BY <3>0, DownTypes
    <3> QED
      BY <2>1, <3>1 DEF Tick
  <2>6. budget'[p] = IF budget[p] = 0 THEN 0 ELSE budget[p] - 1
    <3>0. budget \in [Pair -> 0..MaxTicks] /\ MaxTicks \in Nat
      BY <2>4
    <3>1. \A x \in Pair : Down(budget)[x] = IF budget[x] = 0 THEN 0 ELSE budget[x] - 1
      BY <3>0, DownTypes
    <3> QED
      BY <2>1, <3>1 DEF Tick
  <2>7. age'[p] = IF p \in asking THEN age[p] + 1 ELSE age[p]
    BY <2>1 DEF Tick
  <2>8. bare'[p] <= IF row[t] = g THEN bare[p] ELSE bare[p] + 1
    <3>1. p \in Stale => row[t] # g
      BY DEF Stale
    <3>2. bare'[p] = IF p \in Stale /\ bare[p] <= StaleTicks THEN bare[p] + 1 ELSE bare[p]
      BY <2>1 DEF Tick
    <3>3. bare[p] \in Nat
      BY <2>1, <2>4
    <3> HIDE DEF p
    <3> QED
      BY <3>1, <3>2, <3>3
  <2>9. retrying' = retrying /\ asking' = asking /\ row' = row
    BY DEF Tick
  <2>10. row[t] = g => left'[t] = IF left[t] = -StatementTime THEN left[t] ELSE left[t] - 1
    BY NoHolderAssumption DEF Tick
  <2>11. /\ due[p] \in Nat /\ budget[p] \in Nat /\ age[p] \in Nat /\ bare[p] \in Nat
         /\ left[t] \in Int /\ left[t] >= -StatementTime
         /\ age'[p] \in Nat /\ bare'[p] \in Nat /\ left'[t] \in Int
    <3>1. /\ due[p] \in Nat /\ budget[p] \in Nat /\ age[p] \in Nat /\ bare[p] \in Nat
          /\ left[t] \in Int /\ left[t] >= -StatementTime
      BY <2>1, <2>4
    <3>2. age'[p] \in Nat
      BY <2>7, <3>1
    <3>3. bare'[p] \in Nat
      BY <2>1, <3>1 DEF Tick
    <3>4. left'[t] \in Int
      BY <3>1 DEF Tick
    <3> QED
      BY <3>1, <3>2, <3>3, <3>4
  <2> DEFINE m == IF left[t] = -StatementTime THEN left[t] ELSE left[t] - 1
  <2>12. m \in Int
    BY <2>4, <2>11
  <2> HIDE DEF p, m
  <2>13. PICK ret \in BOOLEAN, ask \in BOOLEAN, own \in BOOLEAN :
            (ret <=> p \in retrying) /\ (ask <=> p \in asking) /\ (own <=> row[t] = g)
    BY Zenon
  <2>14. OnTime(ret, ask, own, due[p], budget[p], left[t], age[p], bare[p])
    BY <2>2, <2>13 DEF Timely, OnTime, p
  <2>15. OnTime(ret, ask, own, due'[p], budget'[p], m, age'[p], bare'[p])
    <3>1. age'[p] = IF ask THEN age[p] + 1 ELSE age[p]
      BY <2>7, <2>13
    <3>2. bare'[p] <= IF own THEN bare[p] ELSE bare[p] + 1
      BY <2>8, <2>13
    <3>3. ask \/ due[p] # 0
      BY <2>3, <2>13
    <3>4. m = IF left[t] = -StatementTime THEN left[t] ELSE left[t] - 1
      BY DEF m
    <3> DEFINE d == due[p]
               b == budget[p]
               l == left[t]
               a == age[p]
               x == bare[p]
               e == due'[p]
               f == budget'[p]
               c == age'[p]
               y == bare'[p]
    <3>5. /\ d \in Nat /\ b \in Nat /\ l \in Int /\ a \in Nat /\ x \in Nat
          /\ e \in Nat /\ f \in Nat /\ m \in Int /\ c \in Nat /\ y \in Nat
          /\ l >= -StatementTime
      BY <2>5, <2>6, <2>11, <2>12
    <3>6. /\ OnTime(ret, ask, own, d, b, l, a, x)
          /\ ask \/ d # 0
          /\ d # 0 => e = d - 1
          /\ d = 0 => e = 0
          /\ b # 0 => f = b - 1
          /\ b = 0 => f = 0
          /\ m >= -StatementTime /\ m >= l - 1
          /\ ask => c = a + 1
          /\ ~ask => c = a
          /\ own => y <= x
          /\ ~own => y <= x + 1
      BY <2>4, <2>5, <2>6, <2>11, <2>14, <3>1, <3>2, <3>3, <3>4
    <3> HIDE DEF d, b, l, a, x, e, f, c, y
    <3>7. OnTime(ret, ask, own, e, f, m, c, y)
      <4>1. /\ Ttl \in Nat /\ RefreshEvery \in Nat /\ RetryEvery \in Nat \ {0}
            /\ StatementTime \in Nat
        BY TimerAssumption
      <4>2. CASE own
        BY <2>13, <3>5, <3>6, <4>1, <4>2 DEF OnTime, CodeTimers
      <4>3. CASE ~own
        BY <2>13, <3>5, <3>6, <4>1, <4>3 DEF OnTime, CodeTimers
      <4> QED
        BY <4>2, <4>3
    <3> QED
      BY <3>7 DEF e, f, c, y
  <2>16. own => left'[t] = m
    BY <2>10, <2>13 DEF m
  <2> QED
    BY <2>9, <2>13, <2>15, <2>16 DEF Timely, OnTime, p
<1>2. ASSUME NEW q \in Pair \ (held' \ lost') PROVE bare'[q] = 0
  BY <1>2 DEF Tick, Stale, TimelyInv
<1> QED
  BY <1>1, <1>2 DEF Tick, TimelyInv

LEMMA TimelyRefresh ==
    ASSUME CodeTimers, TypeOK, TypeOK', AskingLive, TimelyInv, NEW h \in Holder, NEW s \in Subject,
           AskRefresh(h, s) \/ RefreshOk(h, s) \/ RefreshFails(h, s)
    PROVE  TimelyInv'
<1> DEFINE p == <<h, s>>
<1>0. /\ left \in [Subject -> (-StatementTime)..Ttl] /\ p \in Pair
      /\ due \in [Pair -> 0..MaxTicks] /\ budget \in [Pair -> 0..MaxTicks]
      /\ age \in [Pair -> 0..StatementTime] /\ bare \in [Pair -> 0..StaleTicks + 1]
      /\ Ttl \in Nat /\ RefreshEvery \in Nat /\ MaxTicks \in Nat /\ RetryEvery \in Nat
      /\ StatementTime \in Nat /\ StaleTicks \in Nat
  BY TimerAssumption, BudgetRange DEF TypeOK, Pair
<1>1. /\ Live(h, s) /\ Timely(h, s) /\ UNCHANGED <<row, held>>
      /\ \A t \in Subject : left'[t] \in Int
  BY BudgetRange
  DEF AskRefresh, RefreshOk, RefreshFails, Answered, Awake, Live, AskingLive, TimelyInv, TypeOK
<1>a. OnTime(p \in retrying, p \in asking, row[s] = h,
             due[p], budget[p], left[s], age[p], bare[p])
  BY <1>1 DEF Timely
\* The guards of others.
<1>2. ASSUME NEW g \in Holder, NEW t \in Subject, Live(g, t)', <<g, t>> # p
      PROVE  Timely(g, t)'
  <2>1. <<g, t>> \in Pair /\ Live(g, t)
    BY <1>2 DEF AskRefresh, RefreshOk, RefreshFails, Live, Pair
  <2>2. Timely(g, t)
    BY <2>1 DEF TimelyInv
  <2>3. /\ (<<g, t>> \in retrying)' <=> <<g, t>> \in retrying
        /\ (<<g, t>> \in asking)' <=> <<g, t>> \in asking
    BY <1>2 DEF AskRefresh, RefreshOk, RefreshFails, Answered
  <2>4. /\ due'[<<g, t>>] = due[<<g, t>>] /\ budget'[<<g, t>>] = budget[<<g, t>>]
        /\ age'[<<g, t>>] = age[<<g, t>>] /\ bare'[<<g, t>>] = bare[<<g, t>>]
    BY <1>0, <1>2, <2>1 DEF AskRefresh, RefreshOk, RefreshFails, Answered
  <2>5. row'[t] = row[t] /\ (left'[t] = left[t] \/ row[t] # g)
    <3>1. CASE RefreshOk(h, s)
      <4>1. t # s => left'[t] = left[t]
        BY <1>0, <3>1 DEF RefreshOk
      <4>2. t = s => row[t] = h /\ g # h
        BY <1>2, <3>1 DEF RefreshOk
      <4> QED
        BY <1>1, <4>1, <4>2
    <3>2. CASE AskRefresh(h, s) \/ RefreshFails(h, s)
      BY <3>2 DEF AskRefresh, RefreshFails
    <3> QED
      BY <3>1, <3>2
  <2> QED
    BY <1>1, <2>2, <2>3, <2>4, <2>5, KeepsTime
<1>3. CASE AskRefresh(h, s)
  <2>1. /\ retrying' \subseteq held' /\ left' = left /\ age' = age /\ bare' = bare /\ due' = due
        /\ lost' = lost /\ p \in retrying' /\ p \in asking' /\ p \notin asking /\ due[p] = 0
        /\ budget'[p] = IF p \in retrying THEN budget[p] ELSE RetryBudget
    BY <1>0, <1>1, <1>3 DEF AskRefresh, Awake, Live, TimelyInv
  <2>2. RetryBudget = Ttl - RefreshEvery /\ RetryBudget > 0
    BY TimerAssumption DEF RetryBudget, CodeTimers
  <2>3. due[p] \in Nat /\ budget[p] \in Nat /\ left[s] \in Int /\ age[p] \in Nat /\ bare[p] \in Nat
    BY <1>0
  <2> HIDE DEF p
  <2>4. Timely(h, s)'
    <3>1. CASE p \in retrying
      BY <1>0, <1>1, <1>a, <2>1, <2>3, <3>1 DEF Timely, OnTime, p
    <3>2. CASE p \notin retrying
      BY <1>0, <1>1, <1>a, <2>1, <2>2, <2>3, <3>2 DEF Timely, OnTime, p
    <3> QED
      BY <3>1, <3>2
  <2>5. ASSUME NEW q \in Pair \ (held' \ lost') PROVE bare'[q] = 0
    BY <1>1, <2>1, <2>5 DEF TimelyInv
  <2> QED
    BY <1>2, <2>1, <2>4, <2>5 DEF TimelyInv, p
<1>4. CASE RefreshOk(h, s)
  <2>1. /\ retrying' \subseteq held' /\ lost' = lost /\ bare' = bare
        /\ row[s] = h /\ left'[s] = Ttl - age[p] /\ due'[p] = RefreshEvery
        /\ p \notin retrying' /\ p \notin asking' /\ age'[p] = 0
    BY <1>0, <1>4 DEF RefreshOk, Answered, TimelyInv
  <2>2. Timely(h, s)'
    <3>1. Ttl - age[p] >= (Ttl - RefreshEvery) + RefreshEvery - StatementTime
      BY <1>0
    <3> QED
      BY <1>1, <1>a, <2>1, <3>1 DEF Timely, OnTime
  <2>3. ASSUME NEW q \in Pair \ (held' \ lost') PROVE bare'[q] = 0
    BY <1>1, <2>1, <2>3 DEF TimelyInv
  <2> QED
    BY <1>2, <2>1, <2>2, <2>3 DEF TimelyInv
<1>5. CASE RefreshFails(h, s)
  <2>0. left' = left /\ budget' = budget /\ p \in asking /\ p \notin asking' /\ age'[p] = 0
    BY <1>0, <1>5 DEF RefreshFails, Answered
  <2>1. CASE budget[p] = 0
    <3>1. lost' = lost \cup {p} /\ retrying' = retrying \ {p} /\ bare' = [bare EXCEPT ![p] = 0]
      BY <1>5, <2>1 DEF RefreshFails
    <3>2. retrying' \subseteq held' /\ ~Live(h, s)'
      BY <1>1, <3>1 DEF TimelyInv, Live
    <3>3. ASSUME NEW q \in Pair \ (held' \ lost') PROVE bare'[q] = 0
      BY <1>0, <1>1, <3>1, <3>3 DEF TimelyInv
    <3> QED
      BY <1>2, <3>2, <3>3 DEF TimelyInv
  <2>2. CASE budget[p] # 0
    <3>1. UNCHANGED <<lost, retrying, bare>> /\ due'[p] = RetryEvery
      BY <1>0, <1>5, <2>2 DEF RefreshFails
    <3>2. /\ budget[p] \in Nat /\ left[s] \in Int /\ age[p] \in Nat /\ bare[p] \in Nat
      BY <1>0
    <3>3. Timely(h, s)'
      <4> HIDE DEF p
      <4> QED
        BY <1>0, <1>1, <1>a, <2>0, <2>2, <3>1, <3>2 DEF Timely, OnTime, p
    <3>4. retrying' \subseteq held' /\ \A q \in Pair \ (held' \ lost') : bare'[q] = 0
      BY <1>1, <3>1 DEF TimelyInv
    <3> QED
      BY <1>2, <3>3, <3>4 DEF TimelyInv
  <2> QED
    BY <2>1, <2>2
<1> QED
  BY <1>3, <1>4, <1>5

LEMMA TimelyStep ==
    ASSUME CodeTimers, Prompt
    PROVE  TypeOK /\ Untimed!OneStage /\ AskingLive /\ TimelyInv /\ [Next]_vars => TimelyInv'
<1> SUFFICES ASSUME TypeOK, Untimed!OneStage, AskingLive, TimelyInv, [Next]_vars PROVE TimelyInv'
  OBVIOUS
<1>t. TypeOK'
  BY TypeStep
\* A step that leaves the guards and the clocks of live ones alone.
<1>k. ASSUME UNCHANGED <<held, lost, due, retrying, budget, asking, bare>>,
             \A p \in held : age'[p] = age[p],
             \A s \in Subject :
                \/ row'[s] = row[s] /\ left'[s] = left[s]
                \/ /\ row'[s] = NoHolder
                   /\ \A g \in Holder : Live(g, s) => row[s] # g
      PROVE  TimelyInv'
  <2>1. ASSUME NEW g \in Holder, NEW t \in Subject, Live(g, t)' PROVE Timely(g, t)'
    <3>1. Live(g, t) /\ Timely(g, t) /\ age'[<<g, t>>] = age[<<g, t>>]
      BY <1>k, <2>1 DEF Live, TimelyInv
    <3>2. NoHolder # g /\ left'[t] \in Int
      BY <1>t, NoHolderAssumption, BudgetRange DEF TypeOK
    <3> QED
      BY <1>k, <3>1, <3>2, KeepsTime
  <2> QED
    BY <1>k, <2>1 DEF TimelyInv
<1>1. ASSUME NEW h \in Holder, NEW s \in Subject, Step(h, s) PROVE TimelyInv'
  <2>1. CASE LockLocal(h, s)
    BY <1>k, <2>1 DEF LockLocal
  <2>2. CASE AcquireRow(h, s)
    BY <1>t, <2>2, TimelyAcquire
  <2>3. CASE AbandonInsert(h, s)
    <3>1. Discard(h, Subject) /\ Subject \in SUBSET Subject /\ InsertRow(h, s)
      BY <2>3 DEF AbandonInsert
    <3> QED
      BY <1>t, <3>1, TimelyDiscard
  <2>4. CASE TimeOut(h, s)
    <3>1. Discard(h, Subject) /\ Subject \in SUBSET Subject /\ UNCHANGED <<row, left>>
      BY <2>4 DEF TimeOut, DropGuards
    <3> QED
      BY <1>t, <3>1, TimelyDiscard
  <2>5. CASE Release(h, s)
    <3>1. /\ row \in [Subject -> Holder \cup {NoHolder}]
          /\ left \in [Subject -> (-StatementTime)..Ttl]
      BY DEF TypeOK, Lock!LockTypeOK
    <3>2. <<h, s>> \notin held
      BY <2>5 DEF Release, Untimed!OneStage
    <3>3. ASSUME NEW t \in Subject
          PROVE  \/ row'[t] = row[t] /\ left'[t] = left[t]
                 \/ row'[t] = NoHolder /\ \A g \in Holder : Live(g, t) => row[t] # g
      <4>1. CASE row[s] = h /\ t = s
        <5>1. row'[t] = NoHolder
          BY <2>5, <3>1, <4>1 DEF Release
        <5> QED
          BY <3>2, <4>1, <5>1 DEF Live
      <4>2. CASE row[s] = h /\ t # s
        BY <2>5, <3>1, <4>2 DEF Release
      <4>3. CASE row[s] # h
        BY <2>5, <4>3 DEF Release
      <4> QED
        BY <4>1, <4>2, <4>3
    <3>4. UNCHANGED <<held, lost, due, retrying, budget, asking, bare, age>>
      BY <2>5 DEF Release
    <3> QED
      BY <1>k, <3>3, <3>4
  <2>6. CASE ReleaseFails(h, s)
    BY <1>k, <2>6 DEF ReleaseFails
  <2>7. CASE AskRefresh(h, s) \/ RefreshOk(h, s) \/ RefreshFails(h, s)
    BY <1>t, <2>7, TimelyRefresh
  <2>8. CASE LookAgain(h, s)
    <3>1. age \in [Pair -> 0..StatementTime] /\ <<h, s>> \notin held /\ held \subseteq Pair
      BY <2>8 DEF LookAgain, Untimed!OneStage, TypeOK, Lock!LockTypeOK, Lock!Pair, Pair
    <3>2. \A p \in held : age'[p] = age[p]
      BY <2>8, <3>1 DEF LookAgain
    <3> QED
      BY <1>k, <2>8, <3>2 DEF LookAgain
  <2> QED
    BY <1>1, <2>1, <2>2, <2>3, <2>4, <2>5, <2>6, <2>7, <2>8 DEF Step
<1>2. ASSUME NEW h \in Holder, NEW S \in SUBSET Subject, DropGuards(h, S) PROVE TimelyInv'
  BY <1>t, <1>2, TimelyDiscard DEF DropGuards
<1>3. CASE Tick
  BY <1>3, TimelyTick
<1>4. ASSUME NEW i \in Instance, Crash(i) PROVE TimelyInv'
  <2> DEFINE Dead == {h \in Holder : InstanceOf[h] = i} \X Subject
  <2>1. /\ held' = held \ Dead /\ lost' = lost \ Dead /\ retrying' = retrying \ Dead
        /\ asking' = asking \ Dead
        /\ due' = Clear(due, Dead) /\ budget' = Clear(budget, Dead)
        /\ age' = Clear(age, Dead) /\ bare' = Clear(bare, Dead)
        /\ UNCHANGED <<row, left>>
    BY <1>4 DEF Crash
  <2> HIDE DEF Dead
  <2>2. ASSUME NEW g \in Holder, NEW t \in Subject, Live(g, t)' PROVE Timely(g, t)'
    <3>1. <<g, t>> \in Pair /\ <<g, t>> \notin Dead /\ Live(g, t)
      BY <2>1, <2>2 DEF Live, Pair
    <3>2. /\ due'[<<g, t>>] = due[<<g, t>>] /\ budget'[<<g, t>>] = budget[<<g, t>>]
          /\ age'[<<g, t>>] = age[<<g, t>>] /\ bare'[<<g, t>>] = bare[<<g, t>>]
      BY <2>1, <3>1 DEF Clear
    <3>3. /\ Timely(g, t) /\ left'[t] \in Int
          /\ (<<g, t>> \in retrying)' <=> <<g, t>> \in retrying
          /\ (<<g, t>> \in asking)' <=> <<g, t>> \in asking
      BY <1>t, <2>1, <3>1, BudgetRange DEF TimelyInv, TypeOK
    <3> QED
      BY <2>1, <3>2, <3>3, KeepsTime
  <2>3. ASSUME NEW q \in Pair \ (held' \ lost') PROVE bare'[q] = 0
    BY <2>1, <2>3 DEF Clear, TimelyInv
  <2> QED
    BY <2>1, <2>2, <2>3 DEF TimelyInv
<1>5. CASE UNCHANGED vars
  BY <1>5, <1>k DEF vars
<1> QED
  BY <1>1, <1>2, <1>3, <1>4, <1>5 DEF Next

(* With a lease that outlives the sleep before its refresh by the pause    *)
(* between retries, and refresh tasks that wake up on time, ensure_live is *)
(* wrong about a lease another process has taken for at most twice the     *)
(* time a statement may wait and the pause of the retry loop: whatever     *)
(* refreshes fail and however long they wait, whoever crashes and however  *)
(* many requests compete.                                                  *)
THEOREM GuardsAreStaleBriefly ==
    ASSUME CodeTimers, Prompt
    PROVE  Spec => []StaleOnlyBriefly
<1>1. Spec => Untimed!LockSpec
  BY LeaseImplementsLock, SameLock, PTL DEF ImplementsLock, Lock!LockSpec, Untimed!LockSpec
<1>2. Untimed!LockSpec => []Untimed!LockInv
  BY Untimed!LockInvariant, InstanceOfAssumption, NoHolderAssumption
<1>3. Untimed!LockInv => Untimed!OneStage
  BY DEF Untimed!LockInv
<1>4. Init => TimelyInv
  BY TimelyInit
<1>5. TypeOK /\ Untimed!OneStage /\ AskingLive /\ TimelyInv /\ [Next]_vars => TimelyInv'
  BY TimelyStep
<1>6. TypeOK /\ TimelyInv => StaleOnlyBriefly
  <2> SUFFICES ASSUME TypeOK, TimelyInv, NEW h \in Holder, NEW s \in Subject,
                      Live(h, s), row[s] # h
               PROVE  bare[<<h, s>>] <= StaleTicks
    BY DEF StaleOnlyBriefly
  <2> DEFINE p == <<h, s>>
  <2>1. /\ p \in Pair /\ due[p] \in Nat /\ budget[p] \in Nat /\ left[s] \in Int
        /\ age[p] \in 0..StatementTime /\ bare[p] \in Nat
    BY TimerAssumption, BudgetRange DEF TypeOK, Pair
  <2>2. PICK ret \in BOOLEAN, ask \in BOOLEAN :
            (ret <=> p \in retrying) /\ (ask <=> p \in asking)
    BY Zenon
  <2>3. OnTime(ret, ask, FALSE, due[p], budget[p], left[s], age[p], bare[p])
    BY <2>2 DEF TimelyInv, Timely, OnTime
  <2> HIDE DEF p
  <2>4. bare[p] <= StaleTicks
    BY <2>1, <2>3, OnTimeIsBrief
  <2> QED
    BY <2>4 DEF p
<1> QED
  BY <1>1, <1>2, <1>3, <1>4, <1>5, <1>6, LeaseInvariant, PTL DEF Spec

==============================================================================
