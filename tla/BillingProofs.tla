---------------------------- MODULE BillingProofs ----------------------------
(* Proofs about Billing, for any number of requests, processes, tokens,    *)
(* users and credits: who holds the locks and what may be charged under    *)
(* them; then what is added up, that is, the buckets and monthly counts    *)
(* are the credits of the charged rows, and, while leases are kept, the    *)
(* precheck sees every charge and the quota holds.                         *)
EXTENDS Billing, SubjectLockProofs, FiniteSetTheorems, WellFoundedInduction

\* A non-empty set of naturals has a least element.
LEMMA LeastNat ==
    ASSUME NEW T \in SUBSET Nat, T # {}
    PROVE  \E x \in T : \A y \in T : x <= y
<1>1. PICK x \in T : \A y \in T : ~(<<y, x>> \in OpToRel(<, Nat))
  BY NatLessThanWellFounded, WFMin, Zenon
<1>2. \A y \in T : ~(y < x)
  BY <1>1 DEF OpToRel
<1> QED
  BY <1>2

LEMMA MinIsIn ==
    ASSUME NEW T \in SUBSET Nat, T # {}
    PROVE  Min(T) \in T
  BY LeastNat DEF Min

\* subjects.sort(): while subjects are left to lock, the next one is one of
\* them, and no other one ranks below it.
LEMMA NextIsLeft ==
    ASSUME NEW h, req[h].todo \in SUBSET Subject, req[h].todo # {}
    PROVE  /\ NextToLock(h) \in req[h].todo
           /\ \A t \in req[h].todo : Rank[NextToLock(h)] <= Rank[t]
<1> DEFINE Ranks == {Rank[t] : t \in req[h].todo}
<1>1. Ranks \in SUBSET Nat /\ Ranks # {}
  BY RankAssumption
<1>2. PICK x \in Ranks : \A y \in Ranks : x <= y
  <2> HIDE DEF Ranks
  <2> QED BY <1>1, LeastNat
<1>3. PICK s \in req[h].todo : Rank[s] = x
  OBVIOUS
<1>4. \A t \in req[h].todo : Rank[s] <= Rank[t]
  BY <1>2, <1>3
<1> QED
  BY <1>4 DEF NextToLock

------------------------------------------------------------------------------
(* The invariant behind the types: what a request needs at a label has     *)
(* been set, and row ids are handed out in order.                          *)
LockingLabel == {"locking", "acquiring", "locked", "replaying"}

RequestOK ==
    \A h \in Holder :
        /\ req[h].pc \in LockingLabel => req[h].todo # {}
        /\ req[h].pc = "recording" => req[h].cr # 0
        /\ req[h].pc \in {"recorded", "settling"} => req[h].log # 0
        /\ req[h].pc = "resetting" => req[h].at # 0

RowIdsInOrder == \A l \in LogId : logs[l] = Accounts!Absent <=> l > nlogs

BillingInv == TypeOK /\ RequestOK /\ RowIdsInOrder

USE DEF Accounts!Absent, Accounts!Entry, Accounts!LedgerTypeOK

LEMMA BillingInitInv == Init => BillingInv
<1> SUFFICES ASSUME Init PROVE BillingInv
  OBVIOUS
<1>1. LockTypeOK
  BY LockInitInv DEF Init, LockInv
<1>2. TypeOK
  BY <1>1, BoundAssumption
  DEF Init, TypeOK, Idle, Done, LogId, Period
<1>3. RequestOK
  BY DEF Init, RequestOK, LockingLabel, Idle
<1>4. RowIdsInOrder
  BY BoundAssumption DEF Init, RowIdsInOrder, LogId
<1> QED
  BY <1>2, <1>3, <1>4 DEF BillingInv

\* A request that is neither idle nor done has its local variables.
LEMMA ActiveAt ==
    ASSUME TypeOK, NEW h \in Holder, req[h].pc \notin {"idle", "done"}
    PROVE  req[h] \in Active
  BY DEF TypeOK, Idle, Done

LEMMA NextIsSubject ==
    ASSUME BillingInv, NEW h \in Holder, req[h].pc \in LockingLabel
    PROVE  NextToLock(h) \in Subject
<1>1. req[h] \in Active
  BY ActiveAt DEF BillingInv, LockingLabel
<1>2. req[h].todo \in SUBSET Subject /\ req[h].todo # {}
  BY <1>1 DEF Active, BillingInv, RequestOK
<1> QED
  BY <1>2, NextIsLeft

------------------------------------------------------------------------------
(* The requests use the lock only through its actions.                     *)

LEMMA FinishLocks ==
    ASSUME NEW h \in Holder, Finish(h)
    PROVE  LockNext
  BY DEF Finish, LockNext

LEMMA RequestLocks ==
    ASSUME BillingInv, NEW h \in Holder, RequestStep(h) \/ Abort(h)
    PROVE  LockNext \/ UNCHANGED lockVars
<1>1. ASSUME NEW r \in Reserve, Begin(h, r) PROVE UNCHANGED lockVars
  BY <1>1 DEF Begin
<1>2. CASE ListSubjects(h)
  BY <1>2 DEF ListSubjects
<1>3. CASE TakeMutex(h)
  <2>1. NextToLock(h) \in Subject
    BY <1>3, NextIsSubject DEF TakeMutex, At, LockingLabel
  <2> QED
    BY <1>3, <2>1 DEF TakeMutex, LockNext
<1>4. CASE TakeRow(h)
  <2>1. NextToLock(h) \in Subject
    BY <1>4, NextIsSubject DEF TakeRow, At, LockingLabel
  <2> QED
    BY <1>4, <2>1 DEF TakeRow, LockNext
<1>5. CASE AcquireTimesOut(h)
  BY <1>5, FinishLocks DEF AcquireTimesOut
<1>6. CASE ListPending(h)
  BY <1>6 DEF ListPending
<1>7. CASE ReplayOne(h)
  BY <1>7 DEF ReplayOne
<1>8. CASE NextSubject(h)
  <2>1. Subject \ {req[h].subj} \in SUBSET Subject
    OBVIOUS
  <2> QED
    BY <1>8, <2>1 DEF NextSubject, LockNext
<1>9. CASE EnsureLiveBeforePrecheck(h)
  BY <1>9, FinishLocks DEF EnsureLiveBeforePrecheck
<1>10. CASE Peek(h)
  BY <1>10, FinishLocks DEF Peek
<1>11. CASE PeekReset(h)
  BY <1>11, FinishLocks DEF PeekReset
<1>12. ASSUME NEW c \in Actual, UpstreamReplies(h, c)
       PROVE  LockNext \/ UNCHANGED lockVars
  BY <1>12, FinishLocks DEF UpstreamReplies
<1>13. CASE RecordPending(h)
  BY <1>13, FinishLocks DEF RecordPending
<1>14. CASE EnsureLiveBeforeCharge(h)
  BY <1>14, FinishLocks DEF EnsureLiveBeforeCharge
<1>15. CASE Settle(h)
  BY <1>15, FinishLocks DEF Settle
<1>16. CASE Abort(h)
  <2>1. CASE Finish(h)
    BY <2>1, FinishLocks
  <2>2. CASE At(h, "acquiring") /\ AbandonInsert(h, NextToLock(h))
    <3>1. NextToLock(h) \in Subject
      BY <2>2, NextIsSubject DEF At, LockingLabel
    <3> QED
      BY <2>2, <3>1 DEF LockNext
  <2> QED
    BY <1>16, <2>1, <2>2 DEF Abort
<1> QED
  BY <1>1, <1>2, <1>3, <1>4, <1>5, <1>6, <1>7, <1>8, <1>9, <1>10, <1>11,
     <1>12, <1>13, <1>14, <1>15, <1>16 DEF RequestStep

LEMMA BillingLocks == BillingInv /\ [Next]_vars => [LockNext]_lockVars
<1> SUFFICES ASSUME BillingInv, [Next]_vars
             PROVE  LockNext \/ UNCHANGED lockVars
  OBVIOUS
<1>1. ASSUME NEW h \in Holder, RequestStep(h) \/ Abort(h)
      PROVE  LockNext \/ UNCHANGED lockVars
  BY <1>1, RequestLocks
<1>2. ASSUME NEW t \in Token, NEW u \in User, BindToken(t, u)
      PROVE  UNCHANGED lockVars
  BY <1>2 DEF BindToken
<1>3. ASSUME NEW o \in Observer, SnapshotReset(o) PROVE UNCHANGED lockVars
  BY <1>3 DEF SnapshotReset
<1>4. ASSUME NEW o \in Observer, NEW s \in Subject, SnapshotRead(o, s)
      PROVE  UNCHANGED lockVars
  BY <1>4 DEF SnapshotRead
<1>5. CASE LeaseStep
  <2>1. \A s \in Subject : {s} \in SUBSET Subject
    OBVIOUS
  <2> QED
    BY <1>5, <2>1 DEF LeaseStep, LockNext
<1>6. ASSUME NEW i \in Instance, CrashInstance(i) PROVE LockNext
  BY <1>6 DEF CrashInstance, LockNext
<1>7. CASE NextPeriod
  BY <1>7 DEF NextPeriod
<1>8. CASE UNCHANGED vars
  BY <1>8 DEF vars
<1> QED
  BY <1>1, <1>2, <1>3, <1>4, <1>5, <1>6, <1>7, <1>8 DEF Next

------------------------------------------------------------------------------
(* The invariant is kept: first the operators that several actions use.    *)

\* TypeOK without the part the lock answers for.
HandlerTypes ==
    /\ req \in [Holder -> Active \cup {Idle, Done}]
    /\ binding \in [Token -> User \cup {NoUser}]
    /\ now \in Period
    /\ snap \in [Observer -> Snap \cup {NoSnap}]

LedgerTypes ==
    /\ Accounts!LedgerTypeOK
    /\ nlogs \in LogId \cup {0}
    /\ month \in [Subject -> [start : Period \cup {0}, count : Nat]]

\* Changing the local variables of one request to a record that fits its
\* label keeps the request part of the invariant.
Fits(r) ==
    /\ r \in Active \cup {Idle, Done}
    /\ r.pc \in LockingLabel => r.todo # {}
    /\ r.pc = "recording" => r.cr # 0
    /\ r.pc \in {"recorded", "settling"} => r.log # 0
    /\ r.pc = "resetting" => r.at # 0

LEMMA OneRequest ==
    ASSUME BillingInv, NEW h \in Holder, NEW r, Fits(r),
           req' = [req EXCEPT ![h] = r]
    PROVE  RequestOK' /\ req' \in [Holder -> Active \cup {Idle, Done}]
  BY DEF BillingInv, TypeOK, RequestOK, Fits

LEMMA DoneFits == Fits(Done)
  BY DEF Fits, Done, LockingLabel

LEMMA MonthTypes ==
    ASSUME NEW m \in [start : Period \cup {0}, count : Nat],
           NEW p \in Period, NEW c \in Nat
    PROVE  AddToMonth(m, p, c) \in [start : Period \cup {0}, count : Nat]
<1>1. m.start \in Nat /\ p \in Nat /\ m.count \in Nat
  BY BoundAssumption DEF Period
<1>2. [m EXCEPT !.count = @ + c] \in [start : Period \cup {0}, count : Nat]
  BY <1>1
<1>3. [start |-> p, count |-> c] \in [start : Period \cup {0}, count : Nat]
  OBVIOUS
<1> QED
  BY <1>1, <1>2, <1>3 DEF AddToMonth

\* A charge keeps the types of the ledger.
LEMMA ApplyTypes ==
    ASSUME BillingInv, NEW l \in LogId, ApplyPending(l)
    PROVE  LedgerTypes' /\ RowIdsInOrder'
<1>1. CASE Pending(l)
  <2> DEFINE e == logs[l]
  <2>1. /\ logs' = [logs EXCEPT ![l] = [e EXCEPT !.st = "charged"]]
        /\ bucket' = [bucket EXCEPT ![e.subj] = [bucket[e.subj] EXCEPT
                         ![e.per] = bucket[e.subj][e.per] + e.cr]]
        /\ month' = [month EXCEPT ![e.subj] =
                        AddToMonth(month[e.subj], e.per, e.cr)]
        /\ nlogs' = nlogs
    BY <1>1 DEF ApplyPending
  <2>2. e \in Accounts!Entry /\ e.st = "pending"
    BY <1>1 DEF BillingInv, TypeOK, Pending
  <2>3. e.subj \in Subject /\ e.per \in Period /\ e.cr \in Nat
    BY <2>2, BoundAssumption
  <2>4. [e EXCEPT !.st = "charged"] \in Accounts!Entry
    BY <2>2
  <2> HIDE DEF e
  <2>5. logs' \in [LogId -> Accounts!Entry \cup {Accounts!Absent}]
    BY <2>1, <2>4 DEF BillingInv, TypeOK
  <2>6. bucket' \in [Subject -> [Period -> Nat]]
    BY <2>1, <2>3 DEF BillingInv, TypeOK
  <2>7. AddToMonth(month[e.subj], e.per, e.cr)
           \in [start : Period \cup {0}, count : Nat]
    BY <2>3, MonthTypes DEF BillingInv, TypeOK
  <2>8. month' \in [Subject -> [start : Period \cup {0}, count : Nat]]
    BY <2>1, <2>3, <2>7 DEF BillingInv, TypeOK
  <2>9. RowIdsInOrder'
    BY <2>1, <2>2, <2>4 DEF BillingInv, TypeOK, RowIdsInOrder, e
  <2> QED
    BY <2>1, <2>5, <2>6, <2>8, <2>9 DEF LedgerTypes, BillingInv, TypeOK
<1>2. CASE ~Pending(l)
  BY <1>2 DEF ApplyPending, ledger, LedgerTypes, BillingInv, TypeOK,
              RowIdsInOrder
<1> QED
  BY <1>1, <1>2

LEMMA InsertTypes ==
    ASSUME BillingInv, NEW s \in Subject, NEW t \in Token,
           NEW c \in Actual \ {0}, InsertPending(s, t, c)
    PROVE  LedgerTypes' /\ RowIdsInOrder' /\ nlogs + 1 \in LogId
<1>1. nlogs \in Nat /\ nlogs + 1 \in LogId /\ nlogs' = nlogs + 1
  BY BoundAssumption DEF InsertPending, BillingInv, TypeOK, LogId
<1>2. LedgerTypes'
  BY <1>1 DEF InsertPending, LedgerTypes, BillingInv, TypeOK
<1>3. RowIdsInOrder'
  BY <1>1 DEF InsertPending, RowIdsInOrder, BillingInv, TypeOK, LogId
<1> QED
  BY <1>1, <1>2, <1>3

LEMMA ResetTypes ==
    ASSUME BillingInv, NEW s \in Subject, NEW m \in Period, ResetMonth(s, m)
    PROVE  LedgerTypes' /\ RowIdsInOrder'
  BY DEF ResetMonth, LedgerTypes, BillingInv, TypeOK, RowIdsInOrder

LEMMA LedgerUnchanged ==
    ASSUME BillingInv, UNCHANGED ledger
    PROVE  LedgerTypes' /\ RowIdsInOrder'
  BY DEF ledger, LedgerTypes, BillingInv, TypeOK, RowIdsInOrder

LEMMA FinishRequest ==
    ASSUME BillingInv, NEW h \in Holder, Finish(h)
    PROVE  RequestOK' /\ req' \in [Holder -> Active \cup {Idle, Done}]
  BY DoneFits, OneRequest DEF Finish

LEMMA GoToRequest ==
    ASSUME BillingInv, NEW h \in Holder, req[h].pc \notin {"idle", "done"},
           NEW label \in Label, GoTo(h, label),
           label \in LockingLabel => req[h].pc \in LockingLabel,
           label = "recording" => req[h].cr # 0,
           label \in {"recorded", "settling"} => req[h].log # 0,
           label # "resetting"
    PROVE  RequestOK' /\ req' \in [Holder -> Active \cup {Idle, Done}]
<1>1. req[h] \in Active
  BY ActiveAt DEF BillingInv
<1>2. Fits([req[h] EXCEPT !.pc = label])
  BY <1>1 DEF Fits, Active, BillingInv, RequestOK
<1>3. req' = [req EXCEPT ![h] = [req[h] EXCEPT !.pc = label]]
  BY DEF GoTo, BillingInv, TypeOK
<1> QED
  BY <1>2, <1>3, OneRequest

\* All of the invariant but the types of the lock.
HandlerInv == HandlerTypes /\ LedgerTypes /\ RequestOK /\ RowIdsInOrder

LEMMA RequestInv ==
    ASSUME BillingInv, NEW h \in Holder, RequestStep(h) \/ Abort(h)
    PROVE  HandlerInv'
<1> DEFINE Reqs == [Holder -> Active \cup {Idle, Done}]
<1>0. ASSUME UNCHANGED <<binding, now, snap>>, RequestOK', req' \in Reqs
      PROVE  HandlerTypes'
  BY <1>0 DEF HandlerTypes, BillingInv, TypeOK
<1>a. ASSUME UNCHANGED <<binding, ledger, now, snap>>, RequestOK',
             req' \in Reqs
      PROVE  HandlerInv'
  BY <1>0, <1>a, LedgerUnchanged DEF HandlerInv
<1>b. ASSUME req[h].pc \in Label PROVE req[h] \in Active
  BY <1>b, ActiveAt DEF BillingInv, Label
<1>1. ASSUME NEW r \in Reserve, Begin(h, r) PROVE HandlerInv'
  <2> DEFINE n == [pc |-> "listing", subj |-> BillingSubject(TokenOf[h]),
                   res |-> r, todo |-> {}, ids |-> {}, cr |-> 0, log |-> 0,
                   over |-> FALSE, at |-> 0]
  <2>1. BillingSubject(TokenOf[h]) \in Subject
    BY SubjectAssumption, TokenOfAssumption
    DEF BillingSubject, BillingInv, TypeOK
  <2>2. Fits(n)
    BY <2>1 DEF Fits, Active, Label, LockingLabel
  <2>3. req' = [req EXCEPT ![h] = n]
    BY <1>1 DEF Begin
  <2>4. RequestOK' /\ req' \in Reqs
    BY <2>2, <2>3, OneRequest
  <2> QED
    BY <1>1, <1>a, <2>4 DEF Begin, ledger
<1>2. CASE ListSubjects(h)
  <2> DEFINE T == {req[h].subj} \cup
                  {logs[l].subj : l \in {k \in LogId :
                      Pending(k) /\ logs[k].tok = TokenOf[h]}}
             n == [req[h] EXCEPT !.pc = "locking", !.todo = T]
  <2>1. req[h] \in Active
    BY <1>2, <1>b DEF ListSubjects, At, Label
  <2>2. \A l \in LogId : Pending(l) => logs[l].subj \in Subject
    BY DEF Pending, BillingInv, TypeOK
  <2>3. T \in SUBSET Subject /\ T # {}
    BY <2>1, <2>2 DEF Active
  <2>4. req' = [req EXCEPT ![h] = n]
    BY <1>2 DEF ListSubjects, BillingInv, TypeOK
  <2>5. n \in Active /\ n.pc = "locking" /\ n.todo # {}
    <3> HIDE DEF T
    <3> QED BY <2>1, <2>3 DEF Active, Label
  <2> HIDE DEF n
  <2>6. Fits(n)
    BY <2>5 DEF Fits
  <2>7. RequestOK' /\ req' \in Reqs
    BY <2>4, <2>6, OneRequest
  <2> QED
    BY <1>2, <1>a, <2>7 DEF ListSubjects, ledger
<1>3. CASE TakeMutex(h)
  <2>1. RequestOK' /\ req' \in Reqs
    BY <1>3, GoToRequest DEF TakeMutex, At, Label, LockingLabel
  <2> QED
    BY <1>3, <1>a, <2>1 DEF TakeMutex, ledger
<1>4. CASE TakeRow(h)
  <2>1. RequestOK' /\ req' \in Reqs
    BY <1>4, GoToRequest DEF TakeRow, At, Label, LockingLabel
  <2> QED
    BY <1>4, <1>a, <2>1 DEF TakeRow, ledger
<1>5. CASE AcquireTimesOut(h)
  BY <1>5, <1>a, FinishRequest DEF AcquireTimesOut, ledger
<1>6. CASE ListPending(h)
  <2> DEFINE n == [req[h] EXCEPT !.pc = "replaying",
                                 !.ids = PendingOf(NextToLock(h))]
  <2>1. req[h] \in Active /\ req[h].todo # {}
    BY <1>6, <1>b
    DEF ListPending, At, Label, BillingInv, RequestOK, LockingLabel
  <2>2. Fits(n)
    BY <2>1 DEF Fits, Active, Label, PendingOf
  <2>3. req' = [req EXCEPT ![h] = n]
    BY <1>6 DEF ListPending, BillingInv, TypeOK
  <2>4. RequestOK' /\ req' \in Reqs
    BY <2>2, <2>3, OneRequest
  <2> QED
    BY <1>6, <1>a, <2>4 DEF ListPending, ledger
<1>7. CASE ReplayOne(h)
  <2> DEFINE n == [req[h] EXCEPT !.ids = req[h].ids \ {Min(req[h].ids)}]
  <2>1. req[h] \in Active /\ req[h].todo # {} /\ req[h].pc = "replaying"
    BY <1>7, <1>b
    DEF ReplayOne, At, Label, BillingInv, RequestOK, LockingLabel
  <2>2. Fits(n)
    BY <2>1 DEF Fits, Active
  <2>3. req' = [req EXCEPT ![h] = n]
    BY <1>7 DEF ReplayOne, BillingInv, TypeOK
  <2>4. RequestOK' /\ req' \in Reqs
    BY <2>2, <2>3, OneRequest
  <2>5. req[h].ids \in SUBSET Nat /\ req[h].ids # {}
    BY <1>7, <2>1 DEF ReplayOne, Active, LogId
  <2>6. Min(req[h].ids) \in LogId
    BY <2>1, <2>5, MinIsIn DEF Active
  <2>7. LedgerTypes' /\ RowIdsInOrder'
    BY <1>7, <2>6, ApplyTypes DEF ReplayOne
  <2> QED
    BY <1>7, <1>0, <2>4, <2>7 DEF ReplayOne, HandlerInv
<1>8. CASE NextSubject(h)
  <2> DEFINE left == req[h].todo \ {NextToLock(h)}
             n == [req[h] EXCEPT !.todo = left,
                     !.pc = IF left = {} THEN "guarded" ELSE "locking"]
  <2>1. req[h] \in Active
    BY <1>8, <1>b DEF NextSubject, At, Label
  <2>2. Fits(n)
    BY <2>1 DEF Fits, Active, Label, LockingLabel
  <2>3. req' = [req EXCEPT ![h] = n]
    BY <1>8 DEF NextSubject, BillingInv, TypeOK
  <2>4. RequestOK' /\ req' \in Reqs
    BY <2>2, <2>3, OneRequest
  <2> QED
    BY <1>8, <1>a, <2>4 DEF NextSubject, ledger
<1>9. CASE EnsureLiveBeforePrecheck(h)
  <2>1. RequestOK' /\ req' \in Reqs
    BY <1>9, GoToRequest, FinishRequest
    DEF EnsureLiveBeforePrecheck, At, Label, LockingLabel
  <2> QED
    BY <1>9, <1>a, <2>1 DEF EnsureLiveBeforePrecheck, ledger
<1>10. CASE Peek(h)
  <2>1. req[h] \in Active /\ req[h].pc = "checking"
    BY <1>10, <1>b DEF Peek, At, Label
  <2>2. CASE StaleMonth(req[h].subj)
    <3> DEFINE x == QuotaWouldExceed(req[h].subj, req[h].res)
               n == [req[h] EXCEPT !.pc = "resetting", !.over = x, !.at = now]
    <3>1. x \in BOOLEAN
      BY DEF QuotaWouldExceed
    <3>2. now \in Period /\ now # 0
      BY DEF BillingInv, TypeOK, Period
    <3>3. req' = [req EXCEPT ![h] = n]
      BY <1>10, <2>2 DEF Peek, BillingInv, TypeOK
    <3>4. Fits(n)
      <4> HIDE DEF x
      <4> QED BY <2>1, <3>1, <3>2 DEF Fits, Active, Label, LockingLabel
    <3> HIDE DEF n
    <3>5. RequestOK' /\ req' \in Reqs
      BY <3>3, <3>4, OneRequest
    <3> QED
      BY <1>10, <1>a, <3>5 DEF Peek, ledger
  <2>3. CASE ~StaleMonth(req[h].subj)
    <3>1. Finish(h) \/ GoTo(h, "upstream")
      BY <1>10, <2>3 DEF Peek
    <3>2. RequestOK' /\ req' \in Reqs
      BY <2>1, <3>1, GoToRequest, FinishRequest DEF Label, LockingLabel
    <3> QED
      BY <1>10, <1>a, <3>2 DEF Peek, ledger
  <2> QED
    BY <2>2, <2>3
<1>11. CASE PeekReset(h)
  <2>1. req[h] \in Active /\ req[h].at # 0 /\ req[h].pc = "resetting"
    BY <1>11, <1>b DEF PeekReset, At, Label, BillingInv, RequestOK
  <2>2. RequestOK' /\ req' \in Reqs
    BY <1>11, <2>1, GoToRequest, FinishRequest
    DEF PeekReset, Label, LockingLabel
  <2>3. LedgerTypes' /\ RowIdsInOrder'
    BY <1>11, <2>1, ResetTypes DEF PeekReset, Active
  <2> QED
    BY <1>11, <1>0, <2>2, <2>3 DEF PeekReset, HandlerInv
<1>12. ASSUME NEW c \in Actual, UpstreamReplies(h, c) PROVE HandlerInv'
  <2>1. req[h] \in Active
    BY <1>12, <1>b DEF UpstreamReplies, At, Label
  <2>2. CASE c = 0
    BY <1>12, <1>a, <2>2, FinishRequest DEF UpstreamReplies, ledger
  <2>3. CASE c # 0
    <3> DEFINE n == [req[h] EXCEPT !.pc = "recording", !.cr = c]
    <3>1. Fits(n)
      BY <2>1, <2>3 DEF Fits, Active, Label, LockingLabel
    <3>2. req' = [req EXCEPT ![h] = n]
      BY <1>12, <2>3 DEF UpstreamReplies, BillingInv, TypeOK
    <3>3. RequestOK' /\ req' \in Reqs
      BY <3>1, <3>2, OneRequest
    <3> QED
      BY <1>12, <1>a, <3>3 DEF UpstreamReplies, ledger
  <2> QED
    BY <2>2, <2>3
<1>13. CASE RecordPending(h)
  <2>1. req[h] \in Active /\ req[h].cr # 0
    BY <1>13, <1>b DEF RecordPending, At, Label, BillingInv, RequestOK
  <2>2. /\ req[h].subj \in Subject /\ TokenOf[h] \in Token
        /\ req[h].cr \in Actual \ {0}
    BY <2>1, TokenOfAssumption DEF Active
  <2>3. LedgerTypes' /\ RowIdsInOrder' /\ nlogs + 1 \in LogId
    BY <1>13, <2>2, InsertTypes DEF RecordPending
  <2> DEFINE n == [req[h] EXCEPT !.pc = "recorded", !.log = nlogs + 1]
  <2>4. ASSUME req' = [req EXCEPT ![h].pc = "recorded", ![h].log = nlogs + 1]
        PROVE  RequestOK' /\ req' \in Reqs
    <3>0. nlogs + 1 \in LogId /\ nlogs + 1 # 0
      BY <2>3 DEF LogId
    <3>1. Fits(n)
      BY <2>1, <3>0 DEF Fits, Active, Label, LockingLabel
    <3>2. req' = [req EXCEPT ![h] = n]
      BY <2>4 DEF BillingInv, TypeOK
    <3> QED
      BY <3>1, <3>2, OneRequest
  <2>5. RequestOK' /\ req' \in Reqs
    BY <1>13, <2>4, FinishRequest DEF RecordPending
  <2> QED
    BY <1>13, <1>0, <2>3, <2>5 DEF RecordPending, HandlerInv
<1>14. CASE EnsureLiveBeforeCharge(h)
  <2>1. req[h].pc = "recorded" /\ req[h].log # 0
    BY <1>14 DEF EnsureLiveBeforeCharge, At, BillingInv, RequestOK
  <2>2. RequestOK' /\ req' \in Reqs
    BY <1>14, <2>1, GoToRequest, FinishRequest
    DEF EnsureLiveBeforeCharge, Label, LockingLabel
  <2> QED
    BY <1>14, <1>a, <2>2 DEF EnsureLiveBeforeCharge, ledger
<1>15. CASE Settle(h)
  <2>1. req[h] \in Active /\ req[h].log # 0
    BY <1>15, <1>b DEF Settle, At, Label, BillingInv, RequestOK
  <2>2. LedgerTypes' /\ RowIdsInOrder'
    BY <1>15, <2>1, ApplyTypes DEF Settle, Active
  <2> QED
    BY <1>15, <1>0, <2>2, FinishRequest DEF Settle, HandlerInv
<1>16. CASE Abort(h)
  <2>1. RequestOK' /\ req' \in Reqs
    BY <1>16, FinishRequest, DoneFits, OneRequest DEF Abort
  <2> QED
    BY <1>16, <1>a, <2>1 DEF Abort, ledger
<1> QED
  BY <1>1, <1>2, <1>3, <1>4, <1>5, <1>6, <1>7, <1>8, <1>9, <1>10, <1>11,
     <1>12, <1>13, <1>14, <1>15, <1>16 DEF RequestStep

LEMMA BillingInvStep == BillingInv /\ [Next]_vars => BillingInv'
<1> SUFFICES ASSUME BillingInv, [Next]_vars PROVE BillingInv'
  OBVIOUS
<1>1. LockTypeOK'
  BY BillingLocks, LockTypeStep DEF BillingInv, TypeOK
<1>a. ASSUME UNCHANGED <<req, ledger>>, HandlerTypes' PROVE HandlerInv'
  BY <1>a, LedgerUnchanged DEF HandlerInv, BillingInv, RequestOK
<1> HIDE DEF Accounts!LedgerTypeOK
<1>2. HandlerInv'
  <2>1. ASSUME NEW h \in Holder, RequestStep(h) \/ Abort(h)
        PROVE  HandlerInv'
    BY <2>1, RequestInv
  <2>2. ASSUME NEW t \in Token, NEW u \in User, BindToken(t, u)
        PROVE  HandlerInv'
    BY <2>2, <1>a DEF BindToken, HandlerTypes, BillingInv, TypeOK, ledger
  <2>3. ASSUME NEW o \in Observer, SnapshotReset(o) PROVE HandlerInv'
    <3>1. snap[o] \in Snap
      BY <2>3 DEF SnapshotReset, BillingInv, TypeOK
    <3>2. LedgerTypes' /\ RowIdsInOrder'
      BY <2>3, <3>1, ResetTypes DEF SnapshotReset, Snap
    <3>3. HandlerTypes' /\ RequestOK'
      BY <2>3 DEF SnapshotReset, HandlerTypes, BillingInv, TypeOK, RequestOK
    <3> QED
      BY <3>2, <3>3 DEF HandlerInv
  <2>4. ASSUME NEW o \in Observer, NEW s \in Subject, SnapshotRead(o, s)
        PROVE  HandlerInv'
    BY <2>4, <1>a
    DEF SnapshotRead, HandlerTypes, BillingInv, TypeOK, Snap, ledger
  <2>5. CASE LeaseStep
    BY <2>5, <1>a DEF LeaseStep, HandlerTypes, BillingInv, TypeOK, ledger
  <2>6. ASSUME NEW i \in Instance, CrashInstance(i) PROVE HandlerInv'
    <3>1. req' \in [Holder -> Active \cup {Idle, Done}]
      BY <2>6 DEF CrashInstance, BillingInv, TypeOK
    <3>2. RequestOK'
      BY <2>6 DEF CrashInstance, BillingInv, RequestOK, Done, LockingLabel
    <3>3. HandlerTypes'
      BY <2>6, <3>1 DEF CrashInstance, HandlerTypes, BillingInv, TypeOK
    <3> QED
      BY <2>6, <3>2, <3>3, LedgerUnchanged DEF CrashInstance, HandlerInv, ledger
  <2>7. CASE NextPeriod
    <3>1. now' \in Period
      BY <2>7, BoundAssumption DEF NextPeriod, Period, BillingInv, TypeOK
    <3> QED
      BY <2>7, <3>1, <1>a
      DEF NextPeriod, HandlerTypes, BillingInv, TypeOK, ledger
  <2>8. CASE UNCHANGED vars
    BY <2>8, <1>a DEF vars, HandlerTypes, BillingInv, TypeOK, ledger
  <2> QED
    BY <2>1, <2>2, <2>3, <2>4, <2>5, <2>6, <2>7, <2>8 DEF Next
<1> QED
  BY <1>1, <1>2 DEF BillingInv, TypeOK, HandlerInv, HandlerTypes, LedgerTypes

LEMMA BillingInvariant == Spec => []BillingInv
  BY BillingInitInv, BillingInvStep, PTL DEF Spec

(* Every variable of the billing path keeps its type.                      *)
THEOREM BillingTypeCorrect == Spec => []TypeOK
<1>1. BillingInv => TypeOK
  BY DEF BillingInv
<1> QED
  BY <1>1, BillingInvariant, PTL

------------------------------------------------------------------------------
(* The billing path is an implementation of the lock and of the ledger.    *)

(* Requests, crashes and cancellations included, keep to the lock's        *)
(* specification, so what is proved of the lock holds of the billing path. *)
THEOREM BillingImplementsLock == Spec => LockSpec
<1>1. Init => LockInit
  BY DEF Init
<1> QED
  BY <1>1, BillingInvariant, BillingLocks, PTL DEF Spec, LockSpec

(* Two requests are between precheck and charge of one subject at the same *)
(* time only in different processes and after a lease expired under one.   *)
THEOREM BillingSerialized == Spec => []SerializedUnlessStolen
  BY BillingImplementsLock, Serialization, PTL

LEMMA ApplyPosts ==
    ASSUME BillingInv, NEW l \in LogId, ApplyPending(l)
    PROVE  Accounts!Post(l) \/ UNCHANGED <<logs, bucket>>
  BY DEF ApplyPending, Pending, ledger, Accounts!Post

LEMMA InsertRecords ==
    ASSUME BillingInv, NEW s \in Subject, NEW t \in Token,
           NEW c \in Actual \ {0}, InsertPending(s, t, c)
    PROVE  \E l \in LogId : Accounts!Record(l, s, t, c, now)
<1>1. nlogs + 1 \in LogId
  BY InsertTypes
<1>2. nlogs + 1 > nlogs
  BY <1>1 DEF BillingInv, TypeOK, LogId
<1>3. logs[nlogs + 1] = Accounts!Absent
  BY <1>1, <1>2 DEF BillingInv, RowIdsInOrder
<1>4. Accounts!Record(nlogs + 1, s, t, c, now)
  BY <1>3 DEF InsertPending, Accounts!Record
<1> QED
  BY <1>1, <1>4

LEMMA LedgerStep ==
    BillingInv /\ [Next]_vars => [Accounts!LedgerNext]_(Accounts!ledgerVars)
<1> SUFFICES ASSUME BillingInv, [Next]_vars
             PROVE  Accounts!LedgerNext \/ UNCHANGED <<logs, bucket>>
  BY DEF Accounts!ledgerVars
<1>a. ASSUME NEW l \in LogId, Accounts!Post(l) PROVE Accounts!LedgerNext
  BY <1>a DEF Accounts!LedgerNext
<1>1. ASSUME NEW h \in Holder, RequestStep(h) \/ Abort(h)
      PROVE  Accounts!LedgerNext \/ UNCHANGED <<logs, bucket>>
  <2>b. ASSUME req[h].pc \in Label PROVE req[h] \in Active
    BY <2>b, ActiveAt DEF BillingInv, Label
  <2>1. CASE ReplayOne(h)
    <3>1. req[h] \in Active
      BY <2>1, <2>b DEF ReplayOne, At, Label
    <3>2. req[h].ids \in SUBSET Nat /\ req[h].ids # {}
      BY <2>1, <3>1 DEF ReplayOne, Active, LogId
    <3>3. Min(req[h].ids) \in LogId
      BY <3>1, <3>2, MinIsIn DEF Active
    <3> QED
      BY <2>1, <3>3, <1>a, ApplyPosts DEF ReplayOne
  <2>2. CASE Settle(h)
    <3>1. req[h].log \in LogId
      BY <2>2, <2>b DEF Settle, At, Label, BillingInv, RequestOK, Active
    <3> QED
      BY <2>2, <3>1, <1>a, ApplyPosts DEF Settle
  <2>3. CASE RecordPending(h)
    <3>1. /\ req[h].subj \in Subject /\ TokenOf[h] \in Token
          /\ req[h].cr \in Actual \ {0}
      BY <2>3, <2>b, TokenOfAssumption
      DEF RecordPending, At, Label, BillingInv, RequestOK, Active
    <3>2. \E l \in LogId :
             Accounts!Record(l, req[h].subj, TokenOf[h], req[h].cr, now)
      BY <2>3, <3>1, InsertRecords DEF RecordPending
    <3> QED
      BY <3>1, <3>2 DEF Accounts!LedgerNext, BillingInv, TypeOK
  <2>4. CASE PeekReset(h)
    BY <2>4 DEF PeekReset, ResetMonth
  <2> QED
    BY <1>1, <2>1, <2>2, <2>3, <2>4
    DEF RequestStep, Begin, ListSubjects, TakeMutex, TakeRow,
        AcquireTimesOut, ListPending, NextSubject, EnsureLiveBeforePrecheck,
        Peek, UpstreamReplies, EnsureLiveBeforeCharge, Abort, ledger
<1>2. ASSUME NEW o \in Observer, SnapshotReset(o)
      PROVE  UNCHANGED <<logs, bucket>>
  BY <1>2 DEF SnapshotReset, ResetMonth
<1> QED
  BY <1>1, <1>2
  DEF Next, BindToken, SnapshotRead, LeaseStep, CrashInstance, NextPeriod,
      vars, ledger

(* Exactly-once charging: through every interleaving of requests, replays, *)
(* crashes, cancellations and lost leases, a recorded charge is posted to  *)
(* its own subject and period once and is never altered otherwise.         *)
THEOREM BillingImplementsLedger == Spec => KeepsLedger
<1>1. Init => Accounts!LedgerInit
  BY DEF Init, Accounts!LedgerInit
<1> QED
  BY <1>1, BillingInvariant, LedgerStep, PTL
  DEF Spec, KeepsLedger, Accounts!LedgerSpec

------------------------------------------------------------------------------
(* Sums.                                                                      *)

\* Induction over the naturals, on a set instead of a formula.
LEMMA NatSteps ==
    ASSUME NEW T \in SUBSET Nat, 0 \in T, \A n \in T : n + 1 \in T
    PROVE  T = Nat
<1> SUFFICES ASSUME Nat \ T # {} PROVE FALSE
  OBVIOUS
<1>1. PICK x \in Nat \ T : \A y \in Nat \ T : x <= y
  BY LeastNat
<1>2. x - 1 \in Nat /\ x - 1 < x /\ (x - 1) + 1 = x
  BY <1>1
<1>3. x - 1 \in T
  BY <1>1, <1>2
<1> QED
  BY <1>1, <1>2, <1>3

\* The sum of the credits of a set of rows, as CreditsOf adds them: one row at a time, whichever
\* CHOOSE takes first.
Total(L, S) == MapThenSumSet(LAMBDA l : L[l].cr, S)

Some(s) == CHOOSE x \in s : TRUE

Adds(L, S, g) ==
    g = [s \in SUBSET S |-> IF s = {} THEN 0 ELSE L[Some(s)].cr + g[s \ {Some(s)}]]

\* What Adds says of one set.
LEMMA AddsOne ==
    ASSUME NEW L, NEW S, NEW g, Adds(L, S, g), NEW s \in SUBSET S
    PROVE  /\ s = {} => g[s] = 0
           /\ s # {} => /\ Some(s) \in s /\ s \ {Some(s)} \in SUBSET S
                        /\ g[s] = L[Some(s)].cr + g[s \ {Some(s)}]
<1>1. s # {} => Some(s) \in s
  BY DEF Some
<1>2. g[s] = IF s = {} THEN 0 ELSE L[Some(s)].cr + g[s \ {Some(s)}]
  BY DEF Adds
<1> QED
  BY <1>1, <1>2

\* Taking an element out of a finite set.
LEMMA OneLess ==
    ASSUME NEW s, IsFiniteSet(s), NEW x \in s
    PROVE  /\ IsFiniteSet(s \ {x}) /\ Cardinality(s) \in Nat
           /\ Cardinality(s \ {x}) \in Nat /\ Cardinality(s) = Cardinality(s \ {x}) + 1
<1>1. IsFiniteSet(s \ {x}) /\ Cardinality(s \ {x}) = Cardinality(s) - 1
  BY FS_RemoveElement
<1>2. Cardinality(s) \in Nat
  BY FS_CardinalityType
<1>3. Cardinality(s \ {x}) \in Nat
  BY <1>1, FS_CardinalityType
<1> QED
  BY <1>1, <1>2, <1>3

\* A set with elements is not empty.
LEMMA SomeElement ==
    ASSUME NEW s, NEW n \in Nat, Cardinality(s) = n + 1
    PROVE  s # {}
<1>1. Cardinality({}) = 0
  BY FS_EmptySet
<1> QED
  BY <1>1

\* The recursion that defines the sum has a solution on the subsets of a finite set: on those
\* with at most n elements, for every n.
LEMMA AddsExists ==
    ASSUME NEW L, NEW S, IsFiniteSet(S)
    PROVE  \E g : Adds(L, S, g)
<1> DEFINE Small(n) == {s \in SUBSET S : Cardinality(s) <= n}
           Solves(g, n) == g = [s \in Small(n) |->
                                   IF s = {} THEN 0 ELSE L[Some(s)].cr + g[s \ {Some(s)}]]
           N == {n \in Nat : \E g : Solves(g, n)}
<1>1. \A s \in SUBSET S : IsFiniteSet(s) /\ Cardinality(s) \in Nat
  BY FS_Subset, FS_CardinalityType
<1>2. 0 \in N
  <2> DEFINE g == [s \in Small(0) |-> 0]
  <2>1. \A s \in Small(0) : s = {}
    BY <1>1, FS_EmptySet
  <2>2. Solves(g, 0)
    BY <2>1
  <2> QED
    BY <2>2
<1>3. ASSUME NEW n \in N PROVE n + 1 \in N
  <2>1. PICK g : Solves(g, n)
    OBVIOUS
  <2>a. n \in Nat
    OBVIOUS
  <2> DEFINE V(f, s) == IF s = {} THEN 0 ELSE L[Some(s)].cr + f[s \ {Some(s)}]
             h == [s \in Small(n + 1) |-> V(g, s)]
  <2>2. ASSUME NEW s \in Small(n + 1), s # {} PROVE s \ {Some(s)} \in Small(n)
    <3>1. Some(s) \in s
      BY <2>2 DEF Some
    <3>2. IsFiniteSet(s)
      BY <1>1
    <3>3. Cardinality(s) = Cardinality(s \ {Some(s)}) + 1 /\ Cardinality(s \ {Some(s)}) \in Nat
      BY <3>1, <3>2, OneLess
    <3>4. Cardinality(s) <= n + 1
      OBVIOUS
    <3> QED
      BY <2>a, <3>3, <3>4
  <2>3. ASSUME NEW s \in Small(n) PROVE h[s] = g[s]
    <3>1. s \in Small(n + 1)
      BY <1>1, <2>a
    <3>2. g[s] = V(g, s)
      BY <2>1
    <3> QED
      BY <3>1, <3>2
  <2>4. ASSUME NEW s \in Small(n + 1) PROVE V(g, s) = V(h, s)
    BY <2>2, <2>3
  <2>5. h = [s \in Small(n + 1) |-> V(h, s)]
    <3> DEFINE k == [s \in Small(n + 1) |-> V(h, s)]
    <3>1. \A s \in Small(n + 1) : h[s] = k[s]
      BY <2>4
    <3> QED
      BY <3>1
  <2>6. Solves(h, n + 1)
    BY <2>5
  <2> HIDE DEF Solves, h
  <2> QED
    BY <2>6
<1>4. N = Nat
  <2>1. N \in SUBSET Nat
    OBVIOUS
  <2> HIDE DEF N
  <2> QED
    BY <1>2, <1>3, <2>1, NatSteps
<1>5. Cardinality(S) \in Nat
  BY FS_CardinalityType
<1>6. PICK g : Solves(g, Cardinality(S))
  BY <1>4, <1>5
<1>7. Small(Cardinality(S)) = SUBSET S
  BY FS_Subset
<1> QED
  BY <1>6, <1>7 DEF Adds

\* CreditsOf is the value of that solution.
LEMMA TotalAdds ==
    ASSUME NEW L, NEW S, IsFiniteSet(S)
    PROVE  \E g : Adds(L, S, g) /\ Total(L, S) = g[S]
<1> DEFINE G == CHOOSE g : Adds(L, S, g)
<1>1. Total(L, S) = G[S]
  BY DEF Total, MapThenSumSet, MapThenFoldSet, Adds, Some
<1>2. Adds(L, S, G)
  BY AddsExists
<1> QED
  BY <1>1, <1>2

\* Sums of the same credits agree, whatever larger set they are computed in.
LEMMA AddsAgree ==
    ASSUME NEW L, NEW M, NEW S, NEW T \in SUBSET S, IsFiniteSet(T), NEW g, NEW h,
           Adds(L, S, g), Adds(M, T, h), \A l \in T : L[l].cr = M[l].cr
    PROVE  g[T] = h[T]
<1>g. ASSUME NEW s \in SUBSET S
      PROVE  /\ s = {} => g[s] = 0
             /\ s # {} => /\ Some(s) \in s /\ s \ {Some(s)} \in SUBSET S
                          /\ g[s] = L[Some(s)].cr + g[s \ {Some(s)}]
  <2>1. s # {} => Some(s) \in s
    BY DEF Some
  <2>2. g[s] = IF s = {} THEN 0 ELSE L[Some(s)].cr + g[s \ {Some(s)}]
    BY DEF Adds
  <2> QED
    BY <2>1, <2>2
<1>h. ASSUME NEW s \in SUBSET T
      PROVE  /\ s = {} => h[s] = 0
             /\ s # {} => /\ Some(s) \in s /\ s \ {Some(s)} \in SUBSET T
                          /\ h[s] = M[Some(s)].cr + h[s \ {Some(s)}]
  BY AddsOne
<1> DEFINE N == {n \in Nat : \A t \in SUBSET T : Cardinality(t) = n => g[t] = h[t]}
<1>1. \A t \in SUBSET T : IsFiniteSet(t) /\ Cardinality(t) \in Nat /\ t \in SUBSET S
  BY FS_Subset, FS_CardinalityType
<1>2. 0 \in N
  <2>1. ASSUME NEW t \in SUBSET T, Cardinality(t) = 0 PROVE g[t] = h[t]
    <3>1. t = {}
      BY <1>1, <2>1, FS_EmptySet
    <3>2. g[t] = 0
      BY <1>1, <1>g, <3>1
    <3>3. h[t] = 0
      BY <1>h, <3>1
    <3> QED
      BY <3>2, <3>3
  <2> QED
    BY <2>1
<1>3. ASSUME NEW n \in N PROVE n + 1 \in N
  <2>0. n \in Nat
    OBVIOUS
  <2>1. ASSUME NEW t \in SUBSET T, Cardinality(t) = n + 1 PROVE g[t] = h[t]
    <3>1. t # {}
      BY <2>0, <2>1, SomeElement
    <3>a. Some(t) \in t /\ g[t] = L[Some(t)].cr + g[t \ {Some(t)}]
      BY <1>1, <1>g, <3>1
    <3>b. h[t] = M[Some(t)].cr + h[t \ {Some(t)}]
      BY <1>h, <3>1
    <3>2. /\ Some(t) \in t
          /\ g[t] = L[Some(t)].cr + g[t \ {Some(t)}]
          /\ h[t] = M[Some(t)].cr + h[t \ {Some(t)}]
      BY <3>a, <3>b
    <3>3. Cardinality(t) = Cardinality(t \ {Some(t)}) + 1 /\ Cardinality(t \ {Some(t)}) \in Nat
      BY <1>1, <3>2, OneLess
    <3>4. g[t \ {Some(t)}] = h[t \ {Some(t)}]
      <4>1. Cardinality(t \ {Some(t)}) = n
        BY <2>1, <3>3
      <4> QED
        BY <4>1
    <3> QED
      BY <3>2, <3>4
  <2>2. n + 1 \in Nat
    OBVIOUS
  <2> QED
    BY <2>1, <2>2
<1>4. N = Nat
  <2>1. N \in SUBSET Nat
    OBVIOUS
  <2> HIDE DEF N
  <2> QED
    BY <1>2, <1>3, <2>1, NatSteps
<1> QED
  BY <1>1, <1>4

\* A sum of naturals is a natural ...
LEMMA AddsNat ==
    ASSUME NEW L, NEW S, IsFiniteSet(S), NEW g, Adds(L, S, g), \A l \in S : L[l].cr \in Nat
    PROVE  \A s \in SUBSET S : g[s] \in Nat
<1> DEFINE N == {n \in Nat : \A s \in SUBSET S : Cardinality(s) = n => g[s] \in Nat}
<1>1. \A s \in SUBSET S : IsFiniteSet(s) /\ Cardinality(s) \in Nat
  BY FS_Subset, FS_CardinalityType
<1>2. 0 \in N
  <2>1. ASSUME NEW s \in SUBSET S, Cardinality(s) = 0 PROVE g[s] \in Nat
    <3>1. s = {}
      BY <1>1, <2>1, FS_EmptySet
    <3> QED
      BY <3>1, AddsOne
  <2> QED
    BY <2>1
<1>3. ASSUME NEW n \in N PROVE n + 1 \in N
  <2>0. n \in Nat /\ \A t \in SUBSET S : Cardinality(t) = n => g[t] \in Nat
    OBVIOUS
  <2>1. ASSUME NEW s \in SUBSET S, Cardinality(s) = n + 1 PROVE g[s] \in Nat
    <3> DEFINE c == Some(s)
    <3>1. s # {}
      BY <2>0, <2>1, SomeElement
    <3>2. c \in s /\ s \ {c} \in SUBSET S /\ g[s] = L[c].cr + g[s \ {c}]
      BY <3>1, AddsOne
    <3> HIDE DEF c, N
    <3>3. Cardinality(s) = Cardinality(s \ {c}) + 1 /\ Cardinality(s \ {c}) \in Nat
      BY <1>1, <3>2, OneLess
    <3>4. Cardinality(s \ {c}) = n
      BY <2>0, <2>1, <3>3
    <3>5. g[s \ {c}] \in Nat /\ L[c].cr \in Nat
      BY <2>0, <3>2, <3>4
    <3> QED
      BY <3>2, <3>5
  <2>2. n + 1 \in Nat
    OBVIOUS
  <2> QED
    BY <2>1, <2>2
<1>4. N = Nat
  <2>1. N \in SUBSET Nat
    OBVIOUS
  <2> HIDE DEF N
  <2> QED
    BY <1>2, <1>3, <2>1, NatSteps
<1> QED
  BY <1>1, <1>4

\* ... and any element may be added first.
LEMMA AddsAny ==
    ASSUME NEW L, NEW S, IsFiniteSet(S), NEW g, Adds(L, S, g), \A l \in S : L[l].cr \in Nat
    PROVE  \A s \in SUBSET S : \A x \in s : g[s] = L[x].cr + g[s \ {x}]
<1>g. ASSUME NEW s \in SUBSET S
      PROVE  /\ s = {} => g[s] = 0
             /\ s # {} => /\ Some(s) \in s /\ s \ {Some(s)} \in SUBSET S
                          /\ g[s] = L[Some(s)].cr + g[s \ {Some(s)}]
  BY AddsOne
<1> DEFINE P(s) == \A x \in s : g[s] = L[x].cr + g[s \ {x}]
           N == {n \in Nat : \A s \in SUBSET S : Cardinality(s) = n => P(s)}
<1>1. \A s \in SUBSET S : IsFiniteSet(s) /\ Cardinality(s) \in Nat
  BY FS_Subset, FS_CardinalityType
<1>0. \A s \in SUBSET S : g[s] \in Nat
  BY AddsNat
<1>2. 0 \in N
  <2>1. ASSUME NEW s \in SUBSET S, Cardinality(s) = 0 PROVE P(s)
    <3>1. s = {}
      BY <1>1, <2>1, FS_EmptySet
    <3> QED
      BY <3>1
  <2> QED
    BY <2>1
<1>3. ASSUME NEW n \in N PROVE n + 1 \in N
  <2>0. n \in Nat /\ \A t \in SUBSET S : Cardinality(t) = n => P(t)
    OBVIOUS
  <2>1. ASSUME NEW s \in SUBSET S, Cardinality(s) = n + 1 PROVE P(s)
    <3> DEFINE c == Some(s)
    <3>1. s # {}
      BY <2>0, <2>1, SomeElement
    <3>2. c \in s /\ g[s] = L[c].cr + g[s \ {c}]
      BY <1>g, <3>1
    <3> HIDE DEF c, N
    <3>3. ASSUME NEW x \in s PROVE Cardinality(s \ {x}) = n /\ s \ {x} \in SUBSET S
      <4>1. Cardinality(s) = Cardinality(s \ {x}) + 1 /\ Cardinality(s \ {x}) \in Nat
        BY <1>1, OneLess
      <4> QED
        BY <2>0, <2>1, <4>1
    <3>4. ASSUME NEW x \in s PROVE P(s \ {x})
      BY <2>0, <3>3
    <3>6. ASSUME NEW x \in s PROVE g[s] = L[x].cr + g[s \ {x}]
      <4>1. CASE x = c
        BY <3>2, <4>1
      <4>2. CASE x # c
        <5> DEFINE u == s \ {c}
                   v == s \ {x}
                   w == (s \ {c}) \ {x}
        <5>1. g[u] = L[x].cr + g[u \ {x}]
          BY <3>2, <3>4, <4>2
        <5>2. g[v] = L[c].cr + g[v \ {c}]
          BY <3>2, <3>4, <4>2
        <5>3. v \ {c} = w /\ u \ {x} = w /\ w \in SUBSET S /\ g[s] = L[c].cr + g[u]
          BY <3>2
        <5>4. L[x].cr \in Nat /\ L[c].cr \in Nat
          BY <3>2
        <5>5. g[w] \in Nat
          BY <1>0, <5>3
        <5> HIDE DEF u, w
        <5>6. g[u] = L[x].cr + g[w] /\ g[v] = L[c].cr + g[w] /\ g[s] = L[c].cr + g[u]
          BY <5>1, <5>2, <5>3
        <5> HIDE DEF v
        <5>7. g[s] = L[x].cr + g[v]
          BY <5>4, <5>5, <5>6
        <5> QED
          BY <5>7 DEF v
      <4> QED
        BY <4>1, <4>2
    <3> QED
      BY <3>6
  <2>2. n + 1 \in Nat
    OBVIOUS
  <2> QED
    BY <2>1, <2>2
<1>4. N = Nat
  <2>1. N \in SUBSET Nat
    OBVIOUS
  <2> HIDE DEF N
  <2> QED
    BY <1>2, <1>3, <2>1, NatSteps
<1> QED
  BY <1>1, <1>4

\* No rows, no credits.
LEMMA TotalEmpty == ASSUME NEW L PROVE Total(L, {}) = 0
<1>1. PICK g : Adds(L, {}, g) /\ Total(L, {}) = g[{}]
  BY FS_EmptySet, TotalAdds
<1> QED
  BY <1>1, AddsOne

\* Only the credits of the rows matter.
LEMMA TotalSame ==
    ASSUME NEW L, NEW M, NEW S, IsFiniteSet(S), \A l \in S : L[l].cr = M[l].cr
    PROVE  Total(L, S) = Total(M, S)
<1>1. PICK g : Adds(L, S, g) /\ Total(L, S) = g[S]
  BY TotalAdds
<1>2. PICK h : Adds(M, S, h) /\ Total(M, S) = h[S]
  BY TotalAdds
<1> QED
  BY <1>1, <1>2, AddsAgree

\* A row less.
LEMMA TotalLess ==
    ASSUME NEW L, NEW T, IsFiniteSet(T), NEW x \in T, \A l \in T : L[l].cr \in Nat
    PROVE  /\ Total(L, T) \in Nat /\ Total(L, T \ {x}) \in Nat
           /\ Total(L, T) = Total(L, T \ {x}) + L[x].cr
<1>1. IsFiniteSet(T \ {x}) /\ T \ {x} \in SUBSET T /\ T \in SUBSET T
  BY FS_RemoveElement
<1>2. PICK g : Adds(L, T, g) /\ Total(L, T) = g[T]
  BY TotalAdds
<1>3. PICK h : Adds(L, T \ {x}, h) /\ Total(L, T \ {x}) = h[T \ {x}]
  BY <1>1, TotalAdds
<1>4. g[T \ {x}] = h[T \ {x}]
  BY <1>1, <1>2, <1>3, AddsAgree
<1>5. g[T] = L[x].cr + g[T \ {x}]
  BY <1>1, <1>2, AddsAny
<1>6. g[T] \in Nat /\ g[T \ {x}] \in Nat
  BY <1>1, <1>2, AddsNat
<1> QED
  BY <1>2, <1>3, <1>4, <1>5, <1>6

\* A row more adds its credits.
LEMMA TotalMore ==
    ASSUME NEW L, NEW S, IsFiniteSet(S), NEW x, x \notin S,
           \A l \in S \cup {x} : L[l].cr \in Nat
    PROVE  /\ Total(L, S) \in Nat /\ Total(L, S \cup {x}) \in Nat
           /\ Total(L, S \cup {x}) = Total(L, S) + L[x].cr
<1>1. IsFiniteSet(S \cup {x})
  BY FS_AddElement
<1>2. (S \cup {x}) \ {x} = S /\ x \in S \cup {x}
  OBVIOUS
<1> QED
  BY <1>1, <1>2, TotalLess

------------------------------------------------------------------------------
(* Rows and their credits.                                                 *)

USE DEF Accounts!Absent, Accounts!Entry, Accounts!LedgerTypeOK

RowsOf(L, s, p, states) ==
    {l \in LogId : L[l].st \in states /\ L[l].subj = s /\ L[l].per = p}

Sum(L, s, p, states) == Total(L, RowsOf(L, s, p, states))

Both == {"pending", "charged"}

LEMMA CreditsAreSum ==
    ASSUME NEW s, NEW p, NEW states
    PROVE  /\ CreditsOf(s, p, states) = Sum(logs, s, p, states)
           /\ CreditsOf(s, p, states)' = Sum(logs', s, p, states)
<1>1. CreditsOf(s, p, states) = Sum(logs, s, p, states)
  BY DEF CreditsOf, Sum, Total, RowsOf, MapThenSumSet, MapThenFoldSet
<1>2. CreditsOf(s, p, states)' = Sum(logs', s, p, states)
  BY DEF CreditsOf, Sum, Total, RowsOf, MapThenSumSet, MapThenFoldSet
<1> QED
  BY <1>1, <1>2

LEMMA LogIdFinite == ASSUME NEW T \in SUBSET LogId PROVE IsFiniteSet(T)
<1>1. IsFiniteSet(LogId)
  BY BoundAssumption, FS_Interval DEF LogId
<1> QED
  BY <1>1, FS_Subset

\* Tables of rows: what TypeOK says of logs.
Table == [LogId -> Accounts!Entry \cup {Accounts!Absent}]

LEMMA RowCredit ==
    ASSUME NEW L \in Table, NEW l \in LogId, L[l].st \in Both
    PROVE  L[l].cr \in Nat /\ L[l].subj \in Subject /\ L[l].per \in Period
<1>1. L[l] \in Accounts!Entry
  BY DEF Table, Both
<1> QED
  BY <1>1, BoundAssumption

LEMMA SumNat ==
    ASSUME NEW L \in Table, NEW s, NEW p, NEW states \in SUBSET Both
    PROVE  Sum(L, s, p, states) \in Nat
<1> DEFINE T == RowsOf(L, s, p, states)
<1>1. IsFiniteSet(T)
  BY LogIdFinite DEF RowsOf
<1>2. \A l \in T : L[l].cr \in Nat
  BY RowCredit DEF RowsOf
<1>3. PICK g : Adds(L, T, g) /\ Total(L, T) = g[T]
  BY <1>1, TotalAdds
<1> QED
  BY <1>1, <1>2, <1>3, AddsNat DEF Sum

\* The same rows with the same credits.
LEMMA SumSame ==
    ASSUME NEW L, NEW M, NEW s, NEW p, NEW states,
           RowsOf(L, s, p, states) = RowsOf(M, s, p, states),
           \A l \in RowsOf(L, s, p, states) : L[l].cr = M[l].cr
    PROVE  Sum(L, s, p, states) = Sum(M, s, p, states)
<1>1. IsFiniteSet(RowsOf(L, s, p, states))
  BY LogIdFinite DEF RowsOf
<1> QED
  BY <1>1, TotalSame DEF Sum

\* One more row, l, among otherwise equal rows.
LEMMA SumMore ==
    ASSUME NEW L \in Table, NEW M \in Table, NEW s, NEW p, NEW states \in SUBSET Both,
           NEW l \in LogId, l \notin RowsOf(L, s, p, states),
           RowsOf(M, s, p, states) = RowsOf(L, s, p, states) \cup {l},
           \A k \in RowsOf(L, s, p, states) : L[k].cr = M[k].cr
    PROVE  Sum(M, s, p, states) = Sum(L, s, p, states) + M[l].cr
<1> DEFINE T == RowsOf(L, s, p, states)
<1>1. IsFiniteSet(T)
  BY LogIdFinite DEF RowsOf
<1>2. \A k \in T \cup {l} : M[k].cr \in Nat
  BY RowCredit DEF RowsOf
<1>3. Total(L, T) = Total(M, T)
  BY <1>1, TotalSame
<1> HIDE DEF T
<1>4. Total(M, T \cup {l}) = Total(M, T) + M[l].cr
  BY <1>1, <1>2, TotalMore DEF T
<1> QED
  BY <1>3, <1>4 DEF Sum, T

------------------------------------------------------------------------------
(* What a step does to the ledger.                                         *)

LEMMA LedgerMoves ==
    ASSUME BillingInv, [Next]_vars
    PROVE  \/ \E l \in LogId : Pending(l) /\ ApplyPending(l)
           \/ \E s \in Subject, t \in Token, c \in Actual \ {0} : InsertPending(s, t, c)
           \/ \E s \in Subject, m \in Period : ResetMonth(s, m)
           \/ UNCHANGED ledger
<1>a. ASSUME NEW l \in LogId, ApplyPending(l)
      PROVE  (Pending(l) /\ ApplyPending(l)) \/ UNCHANGED ledger
  BY <1>a DEF ApplyPending
<1>1. ASSUME NEW h \in Holder, RequestStep(h) \/ Abort(h)
      PROVE  \/ \E l \in LogId : Pending(l) /\ ApplyPending(l)
             \/ \E s \in Subject, t \in Token, c \in Actual \ {0} : InsertPending(s, t, c)
             \/ \E s \in Subject, m \in Period : ResetMonth(s, m)
             \/ UNCHANGED ledger
  <2>b. ASSUME req[h].pc \in Label PROVE req[h] \in Active
    BY <2>b, ActiveAt DEF BillingInv, Label
  <2>1. CASE ReplayOne(h)
    <3>1. req[h] \in Active
      BY <2>1, <2>b DEF ReplayOne, At, Label
    <3>2. req[h].ids \in SUBSET Nat /\ req[h].ids # {}
      BY <2>1, <3>1 DEF ReplayOne, Active, LogId
    <3>3. Min(req[h].ids) \in LogId
      BY <3>1, <3>2, MinIsIn DEF Active
    <3> QED
      BY <2>1, <3>3, <1>a DEF ReplayOne
  <2>2. CASE Settle(h)
    <3>1. req[h].log \in LogId
      BY <2>2, <2>b DEF Settle, At, Label, BillingInv, RequestOK, Active
    <3> QED
      BY <2>2, <3>1, <1>a DEF Settle
  <2>3. CASE RecordPending(h)
    <3>1. /\ req[h].subj \in Subject /\ TokenOf[h] \in Token
          /\ req[h].cr \in Actual \ {0}
      BY <2>3, <2>b, TokenOfAssumption
      DEF RecordPending, At, Label, BillingInv, RequestOK, Active
    <3> QED
      BY <2>3, <3>1 DEF RecordPending
  <2>4. CASE PeekReset(h)
    <3>1. req[h].subj \in Subject /\ req[h].at \in Period
      BY <2>4, <2>b DEF PeekReset, At, Label, BillingInv, RequestOK, Active
    <3> QED
      BY <2>4, <3>1 DEF PeekReset
  <2> QED
    BY <1>1, <2>1, <2>2, <2>3, <2>4
    DEF RequestStep, Begin, ListSubjects, TakeMutex, TakeRow,
        AcquireTimesOut, ListPending, NextSubject, EnsureLiveBeforePrecheck,
        Peek, UpstreamReplies, EnsureLiveBeforeCharge, Abort
<1>2. ASSUME NEW o \in Observer, SnapshotReset(o)
      PROVE  \E s \in Subject, m \in Period : ResetMonth(s, m)
  <2>1. snap[o].subj \in Subject /\ snap[o].at \in Period
    BY <1>2 DEF SnapshotReset, BillingInv, TypeOK, Snap
  <2> QED
    BY <1>2, <2>1 DEF SnapshotReset
<1> QED
  BY <1>1, <1>2
  DEF Next, BindToken, SnapshotRead, LeaseStep, CrashInstance, NextPeriod, vars

\* A charge: its credits join those charged for its subject and period, and
\* nothing else changes in any sum.
LEMMA SumsOfCharge ==
    ASSUME BillingInv, NEW l \in LogId, Pending(l), ApplyPending(l),
           NEW s \in Subject, NEW p \in Period
    PROVE  /\ logs[l].subj = s /\ logs[l].per = p =>
                 Sum(logs', s, p, {"charged"}) = Sum(logs, s, p, {"charged"}) + logs[l].cr
           /\ ~(logs[l].subj = s /\ logs[l].per = p) =>
                 Sum(logs', s, p, {"charged"}) = Sum(logs, s, p, {"charged"})
           /\ Sum(logs', s, p, Both) = Sum(logs, s, p, Both)
<1>1. logs \in Table /\ logs' \in Table
  BY ApplyTypes DEF BillingInv, TypeOK, LedgerTypes, Table
<1>2. \A k \in LogId : k # l => logs'[k] = logs[k]
  BY <1>1 DEF ApplyPending, Table
<1>3. /\ logs'[l].st = "charged" /\ logs'[l].subj = logs[l].subj
      /\ logs'[l].per = logs[l].per /\ logs'[l].cr = logs[l].cr /\ logs[l].st = "pending"
  <2> DEFINE e == logs[l]
  <2>1. e \in Accounts!Entry
    BY <1>1 DEF Pending, Table
  <2>2. logs'[l] = [e EXCEPT !.st = "charged"]
    BY <1>1 DEF ApplyPending, Table
  <2> HIDE DEF e
  <2>3. /\ logs'[l].st = "charged" /\ logs'[l].subj = e.subj
        /\ logs'[l].per = e.per /\ logs'[l].cr = e.cr
    BY <2>1, <2>2
  <2> QED
    BY <2>3 DEF e, Pending
<1>4. \A k \in LogId : logs'[k].cr = logs[k].cr
  BY <1>2, <1>3
<1>5. ASSUME logs[l].subj = s, logs[l].per = p
      PROVE  Sum(logs', s, p, {"charged"}) = Sum(logs, s, p, {"charged"}) + logs[l].cr
  <2>1. RowsOf(logs', s, p, {"charged"}) = RowsOf(logs, s, p, {"charged"}) \cup {l}
    BY <1>2, <1>3, <1>5 DEF RowsOf
  <2>2. l \notin RowsOf(logs, s, p, {"charged"})
    BY <1>3 DEF RowsOf
  <2>3. \A k \in RowsOf(logs, s, p, {"charged"}) : logs[k].cr = logs'[k].cr
    BY <1>4 DEF RowsOf
  <2>4. {"charged"} \in SUBSET Both
    BY DEF Both
  <2>5. Sum(logs', s, p, {"charged"}) = Sum(logs, s, p, {"charged"}) + logs'[l].cr
    BY <1>1, <2>1, <2>2, <2>3, <2>4, SumMore
  <2> QED
    BY <1>3, <2>5
<1>6. ASSUME ~(logs[l].subj = s /\ logs[l].per = p)
      PROVE  Sum(logs', s, p, {"charged"}) = Sum(logs, s, p, {"charged"})
  <2>1. RowsOf(logs', s, p, {"charged"}) = RowsOf(logs, s, p, {"charged"})
    BY <1>2, <1>3, <1>6 DEF RowsOf
  <2> QED
    BY <1>4, <2>1, SumSame DEF RowsOf
<1>7. Sum(logs', s, p, Both) = Sum(logs, s, p, Both)
  <2>1. RowsOf(logs', s, p, Both) = RowsOf(logs, s, p, Both)
    BY <1>2, <1>3 DEF RowsOf, Both
  <2> QED
    BY <1>4, <2>1, SumSame DEF RowsOf
<1> QED
  BY <1>5, <1>6, <1>7

\* A recorded response joins the pending rows of its subject and the present.
LEMMA SumsOfRecord ==
    ASSUME BillingInv, NEW q \in Subject, NEW t \in Token, NEW c \in Actual \ {0},
           InsertPending(q, t, c), NEW s \in Subject, NEW p \in Period
    PROVE  /\ Sum(logs', s, p, {"charged"}) = Sum(logs, s, p, {"charged"})
           /\ q = s /\ now = p => Sum(logs', s, p, Both) = Sum(logs, s, p, Both) + c
           /\ ~(q = s /\ now = p) => Sum(logs', s, p, Both) = Sum(logs, s, p, Both)
<1> DEFINE n == nlogs + 1
<1>1. logs \in Table /\ logs' \in Table
  BY InsertTypes DEF BillingInv, TypeOK, LedgerTypes, Table
<1>2. n \in LogId /\ n > nlogs
  BY InsertTypes DEF BillingInv, TypeOK, LogId
<1>3. logs[n].st = "absent"
  BY <1>2 DEF BillingInv, RowIdsInOrder
<1>4. \A k \in LogId : k # n => logs'[k] = logs[k]
  BY <1>1 DEF InsertPending, Table
<1>5. /\ logs'[n].st = "pending" /\ logs'[n].subj = q
      /\ logs'[n].per = now /\ logs'[n].cr = c
  BY <1>1, <1>2 DEF InsertPending, Table
<1> HIDE DEF n
<1>6. Sum(logs', s, p, {"charged"}) = Sum(logs, s, p, {"charged"})
  <2>1. RowsOf(logs', s, p, {"charged"}) = RowsOf(logs, s, p, {"charged"})
    BY <1>3, <1>4, <1>5 DEF RowsOf
  <2>2. \A k \in RowsOf(logs, s, p, {"charged"}) : logs[k].cr = logs'[k].cr
    BY <1>3, <1>4 DEF RowsOf
  <2> QED
    BY <2>1, <2>2, SumSame
<1>a. \A k \in RowsOf(logs, s, p, Both) : logs[k].cr = logs'[k].cr
  BY <1>3, <1>4 DEF RowsOf, Both
<1>7. ASSUME q = s, now = p
      PROVE  Sum(logs', s, p, Both) = Sum(logs, s, p, Both) + c
  <2>1. RowsOf(logs', s, p, Both) = RowsOf(logs, s, p, Both) \cup {n}
    BY <1>2, <1>3, <1>4, <1>5, <1>7 DEF RowsOf, Both
  <2>2. n \notin RowsOf(logs, s, p, Both)
    BY <1>3 DEF RowsOf, Both
  <2> QED
    BY <1>1, <1>2, <1>5, <1>a, <2>1, <2>2, SumMore
<1>8. ASSUME ~(q = s /\ now = p)
      PROVE  Sum(logs', s, p, Both) = Sum(logs, s, p, Both)
  <2>1. RowsOf(logs', s, p, Both) = RowsOf(logs, s, p, Both)
    BY <1>3, <1>4, <1>5, <1>8 DEF RowsOf, Both
  <2> QED
    BY <1>a, <2>1, SumSame
<1> QED
  BY <1>6, <1>7, <1>8

------------------------------------------------------------------------------
(* The buckets and the monthly counts add up.                              *)

LEMMA BucketStep == BillingInv /\ BucketsExact /\ [Next]_vars => BucketsExact'
<1> SUFFICES ASSUME BillingInv, BucketsExact, [Next]_vars,
                    NEW s \in Subject, NEW p \in Period
             PROVE  bucket'[s][p] = Sum(logs', s, p, {"charged"})
  BY CreditsAreSum DEF BucketsExact
<1>0. bucket[s][p] = Sum(logs, s, p, {"charged"}) /\ bucket \in [Subject -> [Period -> Nat]]
  BY CreditsAreSum DEF BucketsExact, BillingInv, TypeOK
<1>1. ASSUME NEW l \in LogId, Pending(l), ApplyPending(l)
      PROVE  bucket'[s][p] = Sum(logs', s, p, {"charged"})
  <2>1. /\ logs[l].subj = s /\ logs[l].per = p => bucket'[s][p] = bucket[s][p] + logs[l].cr
        /\ ~(logs[l].subj = s /\ logs[l].per = p) => bucket'[s][p] = bucket[s][p]
    BY <1>0, <1>1 DEF ApplyPending
  <2> QED
    BY <1>0, <1>1, <2>1, SumsOfCharge
<1>2. ASSUME NEW q \in Subject, NEW t \in Token, NEW c \in Actual \ {0}, InsertPending(q, t, c)
      PROVE  bucket'[s][p] = Sum(logs', s, p, {"charged"})
  BY <1>0, <1>2, SumsOfRecord DEF InsertPending
<1>3. ASSUME NEW q \in Subject, NEW m \in Period, ResetMonth(q, m)
      PROVE  bucket'[s][p] = Sum(logs', s, p, {"charged"})
  BY <1>0, <1>3 DEF ResetMonth
<1>4. CASE UNCHANGED ledger
  BY <1>0, <1>4 DEF ledger
<1> QED
  BY <1>1, <1>2, <1>3, <1>4, LedgerMoves

\* At the start there are no rows.
LEMMA NoCredits ==
    ASSUME Init, NEW s, NEW p, NEW states \in SUBSET Both
    PROVE  Sum(logs, s, p, states) = 0
<1>1. RowsOf(logs, s, p, states) = {}
  BY DEF Init, RowsOf, Both
<1> QED
  BY <1>1, TotalEmpty DEF Sum

(* Every charge is posted exactly once: at every moment the usage bucket   *)
(* of a subject and period holds the credits of the rows that              *)
(* apply_pending_billing_log has marked charged for them, for any number   *)
(* of requests, processes, tokens and users, with leases kept or lost.     *)
THEOREM BucketsAddUp == Spec => []BucketsExact
<1>1. Init => BucketsExact
  <2> SUFFICES ASSUME Init, NEW s \in Subject, NEW p \in Period
               PROVE  bucket[s][p] = CreditsOf(s, p, {"charged"})
    BY DEF BucketsExact
  <2>1. {"charged"} \in SUBSET Both
    BY DEF Both
  <2>2. Sum(logs, s, p, {"charged"}) = 0
    BY <2>1, NoCredits
  <2>3. bucket[s][p] = 0
    BY DEF Init
  <2> QED
    BY <2>2, <2>3, CreditsAreSum
<1> QED
  BY <1>1, BillingInvariant, BucketStep, PTL DEF Spec

\* What a charge makes of the month row of its subject.
LEMMA MonthOfCharge ==
    ASSUME BillingInv, NEW l \in LogId, Pending(l), ApplyPending(l)
    PROVE  /\ \A s \in Subject : s # logs[l].subj => month'[s] = month[s]
           /\ month'[logs[l].subj] = AddToMonth(month[logs[l].subj], logs[l].per, logs[l].cr)
           /\ logs[l] \in Accounts!Entry
<1>1. logs[l] \in Accounts!Entry
  BY DEF BillingInv, TypeOK, Pending
<1> QED
  BY <1>1 DEF ApplyPending, BillingInv, TypeOK

LEMMA AddedMonth ==
    ASSUME NEW m \in [start : Period \cup {0}, count : Nat], NEW p \in Period, NEW c \in Nat
    PROVE  /\ p > m.start => AddToMonth(m, p, c).start = p /\ AddToMonth(m, p, c).count = c
           /\ p < m.start => AddToMonth(m, p, c) = m
           /\ p = m.start => /\ AddToMonth(m, p, c).start = p
                             /\ AddToMonth(m, p, c).count = m.count + c
<1>1. m.start \in Nat /\ p \in Nat /\ m.count \in Nat
  BY BoundAssumption DEF Period
<1>2. [m EXCEPT !.count = @ + c].start = m.start
      /\ [m EXCEPT !.count = @ + c].count = m.count + c
  BY <1>1
<1> QED
  BY <1>1, <1>2 DEF AddToMonth

LEMMA MonthStep ==
    BillingInv /\ MonthNeverOvercounts /\ [Next]_vars => MonthNeverOvercounts'
<1> SUFFICES ASSUME BillingInv, MonthNeverOvercounts, [Next]_vars,
                    NEW s \in Subject, NEW p \in Period, month'[s].start = p
             PROVE  month'[s].count <= Sum(logs', s, p, {"charged"})
  BY CreditsAreSum DEF MonthNeverOvercounts
<1>0. /\ month[s] \in [start : Period \cup {0}, count : Nat]
      /\ month[s].start = p => month[s].count <= Sum(logs, s, p, {"charged"})
      /\ p \in Nat
  BY CreditsAreSum, BoundAssumption DEF MonthNeverOvercounts, BillingInv, TypeOK, Period
<1>a. {"charged"} \in SUBSET Both /\ logs \in Table
  BY DEF Both, Table, BillingInv, TypeOK
<1>b. Sum(logs, s, p, {"charged"}) \in Nat
  BY <1>a, SumNat
<1>1. ASSUME NEW l \in LogId, Pending(l), ApplyPending(l)
      PROVE  month'[s].count <= Sum(logs', s, p, {"charged"})
  <2> DEFINE e == logs[l]
             m == month[s]
  <2>1. e \in Accounts!Entry
    BY <1>1, MonthOfCharge
  <2>2. e.subj \in Subject /\ e.per \in Period /\ e.per \in Nat /\ e.cr \in Nat
    <3>1. e.subj \in Subject /\ e.per \in Period /\ e.cr \in Actual
      BY <2>1
    <3>2. Period \subseteq Nat /\ Actual \subseteq Nat
      BY BoundAssumption DEF Period
    <3> HIDE DEF e
    <3> QED
      BY <3>1, <3>2
  <2>3. CASE e.subj # s
    <3>1. month'[s] = month[s]
      BY <1>1, <2>3, MonthOfCharge
    <3>2. Sum(logs', s, p, {"charged"}) = Sum(logs, s, p, {"charged"})
      BY <1>1, <2>3, SumsOfCharge
    <3> QED
      BY <1>0, <3>1, <3>2
  <2>4. CASE e.subj = s
    <3>1. month'[s] = AddToMonth(m, e.per, e.cr)
      BY <1>1, <2>4, MonthOfCharge
    <3>2. /\ e.per = p => Sum(logs', s, p, {"charged"}) = Sum(logs, s, p, {"charged"}) + e.cr
          /\ e.per # p => Sum(logs', s, p, {"charged"}) = Sum(logs, s, p, {"charged"})
      BY <1>1, <2>4, SumsOfCharge
    <3> HIDE DEF e
    <3>3. /\ e.per > m.start => month'[s].start = e.per /\ month'[s].count = e.cr
          /\ e.per < m.start => month'[s] = m
          /\ e.per = m.start => month'[s].start = e.per /\ month'[s].count = m.count + e.cr
      BY <1>0, <2>2, <3>1, AddedMonth
    <3>4. m.start \in Nat /\ m.count \in Nat
      BY <1>0, BoundAssumption DEF Period
    <3> HIDE DEF m
    <3>5. m.start = p => m.count <= Sum(logs, s, p, {"charged"})
      BY <1>0 DEF m
    <3> QED
      BY <1>0, <1>b, <2>2, <3>2, <3>3, <3>4, <3>5
  <2> QED
    BY <2>3, <2>4
<1>2. ASSUME NEW q \in Subject, NEW t \in Token, NEW c \in Actual \ {0}, InsertPending(q, t, c)
      PROVE  month'[s].count <= Sum(logs', s, p, {"charged"})
  BY <1>0, <1>2, SumsOfRecord DEF InsertPending
<1>3. ASSUME NEW q \in Subject, NEW m \in Period, ResetMonth(q, m)
      PROVE  month'[s].count <= Sum(logs', s, p, {"charged"})
  <2>1. logs' = logs /\ (q # s => month'[s] = month[s]) /\ (q = s => month'[s].count = 0)
    BY <1>3 DEF ResetMonth, BillingInv, TypeOK
  <2> QED
    BY <1>0, <1>b, <2>1
<1>4. CASE UNCHANGED ledger
  BY <1>0, <1>4 DEF ledger
<1> QED
  BY <1>1, <1>2, <1>3, <1>4, LedgerMoves

(* A monthly count is never more than what was charged for its month,      *)
(* whatever late charges, replays and unlocked resets of dashboards come   *)
(* together: the ON CONFLICT upsert never counts a charge into another     *)
(* month, and a reset only ever lowers.                                    *)
THEOREM MonthsNeverOvercount == Spec => []MonthNeverOvercounts
<1>1. Init => MonthNeverOvercounts
  BY BoundAssumption DEF Init, MonthNeverOvercounts, Period
<1> QED
  BY <1>1, BillingInvariant, MonthStep, PTL DEF Spec

------------------------------------------------------------------------------
(* The steps of a request, field by field: what each does to its own local *)
(* variables, to its guards and to the ledger.                             *)

\* The next of the subjects left to lock.
NextOf(todo) == CHOOSE s \in todo : \A t \in todo : Rank[s] <= Rank[t]

Quiet == UNCHANGED <<held, ledger>>

Goes(h, from, to) ==
    /\ req[h].pc = from /\ req'[h].pc = to
    /\ req'[h].subj = req[h].subj /\ req'[h].res = req[h].res

SameList(h) == req'[h].todo = req[h].todo

Ends(h) ==
    /\ req[h].pc # "idle" /\ req'[h].pc = "done"
    /\ \/ UNCHANGED ledger
       \/ req[h].pc = "resetting" /\ ResetMonth(req[h].subj, req[h].at)
       \/ req[h].pc = "recording" /\ InsertPending(req[h].subj, TokenOf[h], req[h].cr)
       \/ req[h].pc = "settling" /\ ApplyPending(req[h].log)

Locks(h) ==
    LET next == NextOf(req[h].todo) IN
    \/ req[h].pc = "idle" /\ req'[h].pc = "listing" /\ Quiet
    \/ Goes(h, "listing", "locking") /\ req[h].subj \in req'[h].todo /\ Quiet
    \/ Goes(h, "locking", "acquiring") /\ SameList(h) /\ Quiet
    \/ /\ Goes(h, "acquiring", "locked") /\ SameList(h)
       /\ held' = held \cup {<<h, next>>} /\ UNCHANGED ledger
    \/ /\ Goes(h, "locked", "replaying") /\ SameList(h)
       /\ req'[h].ids = PendingOf(next) /\ Quiet
    \/ /\ Goes(h, "replaying", "replaying") /\ SameList(h)
       /\ Min(req[h].ids) \in req[h].ids
       /\ req'[h].ids = req[h].ids \ {Min(req[h].ids)}
       /\ ApplyPending(Min(req[h].ids)) /\ UNCHANGED held
    \/ /\ Goes(h, "replaying", "locking") /\ req'[h].todo = req[h].todo \ {next}
       /\ req[h].ids = {} /\ Quiet
    \/ /\ Goes(h, "replaying", "guarded") /\ req[h].todo = {next}
       /\ req[h].ids = {}
       /\ held' = held \ Of(h, Subject \ {req[h].subj}) /\ UNCHANGED ledger

Bills(h) ==
    \/ Goes(h, "guarded", "checking") /\ Quiet
    \/ /\ Goes(h, "checking", "resetting") /\ Quiet
       /\ StaleMonth(req[h].subj) /\ req'[h].at = now
       /\ req'[h].over = QuotaWouldExceed(req[h].subj, req[h].res)
    \/ /\ Goes(h, "checking", "upstream") /\ Quiet
       /\ ~QuotaWouldExceed(req[h].subj, req[h].res)
    \/ /\ Goes(h, "resetting", "upstream") /\ ~req[h].over
       /\ ResetMonth(req[h].subj, req[h].at) /\ UNCHANGED held
    \/ /\ Goes(h, "upstream", "recording") /\ Quiet
    \/ /\ Goes(h, "recording", "recorded") /\ req'[h].log = nlogs + 1
       /\ InsertPending(req[h].subj, TokenOf[h], req[h].cr) /\ UNCHANGED held
    \/ /\ Goes(h, "recorded", "settling") /\ req'[h].log = req[h].log
       /\ Quiet

\* GoTo changes the label only.
LEMMA GoToFields ==
    ASSUME BillingInv, NEW h \in Holder, req[h] \in Active, NEW label, GoTo(h, label)
    PROVE  /\ req'[h].pc = label /\ req'[h].subj = req[h].subj /\ req'[h].res = req[h].res
           /\ req'[h].todo = req[h].todo /\ req'[h].ids = req[h].ids
           /\ req'[h].log = req[h].log /\ req'[h].over = req[h].over
           /\ req'[h].at = req[h].at
<1> DEFINE r == req[h]
<1>1. req'[h] = [r EXCEPT !.pc = label]
  BY DEF GoTo, BillingInv, TypeOK
<1>2. r \in Active
  OBVIOUS
<1> HIDE DEF r
<1>3. LET n == [r EXCEPT !.pc = label] IN
      /\ n.pc = label /\ n.subj = r.subj /\ n.res = r.res /\ n.todo = r.todo
      /\ n.ids = r.ids /\ n.log = r.log /\ n.over = r.over /\ n.at = r.at
  BY <1>2 DEF Active
<1> QED
  BY <1>1, <1>3 DEF r

LEMMA FinishEnds ==
    ASSUME BillingInv, NEW h \in Holder, Finish(h)
    PROVE  req'[h].pc = "done"
  BY DEF Finish, Done, BillingInv, TypeOK

LEMMA RequestMoves ==
    ASSUME BillingInv, NEW h \in Holder, RequestStep(h) \/ Abort(h)
    PROVE  (Ends(h) \/ Locks(h) \/ Bills(h)) /\ now' = now
<1>b. ASSUME req[h].pc \in Label PROVE req[h] \in Active
  BY <1>b, ActiveAt DEF BillingInv, Label
<1>n. NextToLock(h) = NextOf(req[h].todo)
  BY DEF NextToLock, NextOf
<1>q. ASSUME UNCHANGED lockVars PROVE UNCHANGED held
  BY <1>q DEF lockVars
<1>z. now' = now
  BY DEF RequestStep, Abort, Begin, ListSubjects, TakeMutex, TakeRow,
        AcquireTimesOut, ListPending, ReplayOne, NextSubject, EnsureLiveBeforePrecheck,
        Peek, PeekReset, UpstreamReplies, RecordPending, EnsureLiveBeforeCharge, Settle
<1>1. ASSUME NEW c \in Reserve, Begin(h, c) PROVE Locks(h)
  <2>1. req'[h].pc = "listing"
    BY <1>1 DEF Begin, BillingInv, TypeOK
  <2> QED
    BY <1>1, <1>q, <2>1 DEF Begin, Locks, Quiet, At
<1>2. CASE ListSubjects(h)
  <2> DEFINE T == {req[h].subj} \cup
                  {logs[l].subj : l \in {k \in LogId :
                      Pending(k) /\ logs[k].tok = TokenOf[h]}}
             r == req[h]
  <2>1. r \in Active /\ r.pc = "listing"
    BY <1>2, <1>b DEF ListSubjects, At, Label
  <2>2. req'[h] = [r EXCEPT !.pc = "locking", !.todo = T]
    BY <1>2 DEF ListSubjects, BillingInv, TypeOK
  <2>3. r.subj \in T
    OBVIOUS
  <2> HIDE DEF T, r
  <2>4. LET n == [r EXCEPT !.pc = "locking", !.todo = T] IN
        n.pc = "locking" /\ n.subj = r.subj /\ n.res = r.res /\ n.todo = T
    BY <2>1 DEF Active
  <2>5. Goes(h, "listing", "locking") /\ req[h].subj \in req'[h].todo
    BY <2>1, <2>2, <2>3, <2>4 DEF Goes, r
  <2> QED
    BY <1>2, <1>q, <2>5 DEF ListSubjects, Locks, Quiet
<1>3. CASE TakeMutex(h)
  <2>1. req[h] \in Active /\ req[h].pc = "locking"
    BY <1>3, <1>b DEF TakeMutex, At, Label
  <2>2. Goes(h, "locking", "acquiring") /\ SameList(h)
    BY <1>3, <2>1, GoToFields DEF TakeMutex, Goes, SameList
  <2> QED
    BY <1>3, <2>2 DEF TakeMutex, LockLocal, Locks, Quiet
<1>4. CASE TakeRow(h)
  <2>1. req[h] \in Active /\ req[h].pc = "acquiring"
    BY <1>4, <1>b DEF TakeRow, At, Label
  <2>2. Goes(h, "acquiring", "locked") /\ SameList(h)
    BY <1>4, <2>1, GoToFields DEF TakeRow, Goes, SameList
  <2> QED
    BY <1>4, <1>n, <2>2 DEF TakeRow, AcquireRow, Locks
<1>5. CASE AcquireTimesOut(h)
  BY <1>5, FinishEnds DEF AcquireTimesOut, Ends, At
<1>6. CASE ListPending(h)
  <2> DEFINE r == req[h]
             P == PendingOf(NextOf(req[h].todo))
  <2>1. r \in Active /\ r.pc = "locked"
    BY <1>6, <1>b DEF ListPending, At, Label
  <2>2. req'[h] = [r EXCEPT !.pc = "replaying", !.ids = P]
    BY <1>6, <1>n DEF ListPending, BillingInv, TypeOK
  <2> HIDE DEF r, P
  <2>3. LET n == [r EXCEPT !.pc = "replaying", !.ids = P] IN
        n.pc = "replaying" /\ n.subj = r.subj /\ n.res = r.res /\ n.todo = r.todo /\ n.ids = P
    BY <2>1 DEF Active
  <2>4. Goes(h, "locked", "replaying") /\ SameList(h) /\ req'[h].ids = P
    BY <2>1, <2>2, <2>3 DEF Goes, SameList, r
  <2> QED
    BY <1>6, <1>q, <2>4 DEF ListPending, Locks, Quiet, P
<1>7. CASE ReplayOne(h)
  <2> DEFINE r == req[h]
             m == Min(req[h].ids)
  <2>1. r \in Active /\ r.pc = "replaying"
    BY <1>7, <1>b DEF ReplayOne, At, Label
  <2>2. req'[h] = [r EXCEPT !.ids = r.ids \ {m}]
    BY <1>7 DEF ReplayOne, BillingInv, TypeOK
  <2>3. r.ids \in SUBSET Nat /\ r.ids # {}
    BY <1>7, <2>1 DEF ReplayOne, Active, LogId
  <2>4. m \in r.ids
    BY <2>3, MinIsIn
  <2>5. ApplyPending(m) /\ UNCHANGED held
    BY <1>7, <1>q DEF ReplayOne
  <2> HIDE DEF r, m
  <2>6. LET n == [r EXCEPT !.ids = r.ids \ {m}] IN
        n.pc = r.pc /\ n.subj = r.subj /\ n.res = r.res /\ n.todo = r.todo
        /\ n.ids = r.ids \ {m}
    BY <2>1 DEF Active
  <2>7. Goes(h, "replaying", "replaying") /\ SameList(h) /\ req'[h].ids = req[h].ids \ {m}
    BY <2>1, <2>2, <2>6 DEF Goes, SameList, r
  <2> QED
    BY <1>z, <2>4, <2>5, <2>7 DEF Locks, r, m
<1>8. CASE NextSubject(h)
  <2> DEFINE r == req[h]
             x == NextOf(req[h].todo)
             label == IF r.todo \ {x} = {} THEN "guarded" ELSE "locking"
             left == r.todo \ {x}
  <2>1. r \in Active /\ r.pc = "replaying" /\ r.ids = {}
    BY <1>8, <1>b DEF NextSubject, At, Label
  <2>2. req'[h] = [r EXCEPT !.todo = left, !.pc = label]
    BY <1>8, <1>n DEF NextSubject, BillingInv, TypeOK
  <2>3. x \in r.todo
    <3>1. r.todo \in SUBSET Subject /\ r.todo # {}
      BY <2>1 DEF Active, BillingInv, RequestOK, LockingLabel
    <3> QED
      BY <1>n, <3>1, NextIsLeft
  <2>4. left = {} => r.todo = {x}
    BY <2>3
  <2>a. /\ left = {} => held' = held \ Of(h, Subject \ {req[h].subj}) /\ label = "guarded"
        /\ left # {} => UNCHANGED held /\ label = "locking"
        /\ UNCHANGED ledger
    BY <1>8, <1>n, <1>q DEF NextSubject, DropGuards
  <2> HIDE DEF r, left, label
  <2>5. LET n == [r EXCEPT !.todo = left, !.pc = label] IN
        n.pc = label /\ n.subj = r.subj /\ n.res = r.res /\ n.todo = left
    BY <2>1 DEF Active
  <2>6. Goes(h, "replaying", label) /\ req'[h].todo = left /\ req[h].ids = {}
    BY <2>1, <2>2, <2>5 DEF Goes, r
  <2>7. CASE left = {}
    BY <1>z, <2>4, <2>6, <2>7, <2>a DEF Locks, r
  <2>8. CASE left # {}
    BY <1>z, <2>6, <2>8, <2>a DEF Locks, Quiet, r, left
  <2> QED
    BY <2>7, <2>8
<1>9. CASE EnsureLiveBeforePrecheck(h)
  <2>1. req[h] \in Active /\ req[h].pc = "guarded"
    BY <1>9, <1>b DEF EnsureLiveBeforePrecheck, At, Label
  <2>2. CASE Finish(h)
    BY <1>9, <2>1, <2>2, FinishEnds DEF EnsureLiveBeforePrecheck, Ends
  <2>3. CASE GoTo(h, "checking") /\ UNCHANGED lockVars
    <3>1. Goes(h, "guarded", "checking")
      BY <2>1, <2>3, GoToFields DEF Goes
    <3> QED
      BY <1>9, <1>q, <2>3, <3>1 DEF EnsureLiveBeforePrecheck, Bills, Quiet
  <2> QED
    BY <1>9, <2>2, <2>3 DEF EnsureLiveBeforePrecheck
<1>10. CASE Peek(h)
  <2> DEFINE x == QuotaWouldExceed(req[h].subj, req[h].res)
             r == req[h]
  <2>1. r \in Active /\ r.pc = "checking"
    BY <1>10, <1>b DEF Peek, At, Label
  <2>2. CASE StaleMonth(req[h].subj)
    <3>1. req'[h] = [r EXCEPT !.pc = "resetting", !.over = x, !.at = now]
      BY <1>10, <2>2 DEF Peek, BillingInv, TypeOK
    <3> HIDE DEF r, x
    <3>2. LET n == [r EXCEPT !.pc = "resetting", !.over = x, !.at = now] IN
          n.pc = "resetting" /\ n.subj = r.subj /\ n.res = r.res /\ n.over = x /\ n.at = now
      BY <2>1 DEF Active
    <3>3. Goes(h, "checking", "resetting") /\ req'[h].at = now /\ req'[h].over = x
      BY <2>1, <3>1, <3>2 DEF Goes, r
    <3>4. Quiet
      BY <1>10, <1>q, <2>2 DEF Peek, Quiet
    <3> QED
      BY <1>z, <2>2, <3>3, <3>4 DEF Bills, x
  <2>3. CASE ~StaleMonth(req[h].subj) /\ x
    BY <1>10, <2>1, <2>3, FinishEnds DEF Peek, Ends
  <2>4. CASE ~StaleMonth(req[h].subj) /\ ~x
    <3>1. GoTo(h, "upstream") /\ UNCHANGED lockVars /\ UNCHANGED ledger
      BY <1>10, <2>4 DEF Peek
    <3>2. Goes(h, "checking", "upstream")
      BY <2>1, <3>1, GoToFields DEF Goes
    <3> QED
      BY <1>z, <1>q, <2>4, <3>1, <3>2 DEF Bills, Quiet
  <2> QED
    BY <2>2, <2>3, <2>4
<1>11. CASE PeekReset(h)
  <2>1. req[h] \in Active /\ req[h].pc = "resetting"
    BY <1>11, <1>b DEF PeekReset, At, Label
  <2>2. CASE req[h].over
    BY <1>11, <2>1, <2>2, FinishEnds DEF PeekReset, Ends
  <2>3. CASE ~req[h].over
    <3>1. GoTo(h, "upstream") /\ UNCHANGED lockVars
      BY <1>11, <2>3 DEF PeekReset
    <3>2. Goes(h, "resetting", "upstream")
      BY <2>1, <3>1, GoToFields DEF Goes
    <3> QED
      BY <1>11, <1>q, <2>3, <3>1, <3>2 DEF PeekReset, Bills
  <2> QED
    BY <2>2, <2>3
<1>12. ASSUME NEW c \in Actual, UpstreamReplies(h, c) PROVE Ends(h) \/ Bills(h)
  <2> DEFINE r == req[h]
  <2>1. r \in Active /\ r.pc = "upstream"
    BY <1>12, <1>b DEF UpstreamReplies, At, Label
  <2>2. CASE c = 0
    BY <1>12, <2>1, <2>2, FinishEnds DEF UpstreamReplies, Ends
  <2>3. CASE c # 0
    <3>1. req'[h] = [r EXCEPT !.pc = "recording", !.cr = c]
      BY <1>12, <2>3 DEF UpstreamReplies, BillingInv, TypeOK
    <3> HIDE DEF r
    <3>2. LET n == [r EXCEPT !.pc = "recording", !.cr = c] IN
          n.pc = "recording" /\ n.subj = r.subj /\ n.res = r.res
      BY <2>1 DEF Active
    <3>3. Goes(h, "upstream", "recording")
      BY <2>1, <3>1, <3>2 DEF Goes, r
    <3> QED
      BY <1>12, <1>q, <2>3, <3>3 DEF UpstreamReplies, Bills, Quiet
  <2> QED
    BY <2>2, <2>3
<1>13. CASE RecordPending(h)
  <2> DEFINE r == req[h]
             k == nlogs + 1
  <2>1. r \in Active /\ r.pc = "recording"
    BY <1>13, <1>b DEF RecordPending, At, Label
  <2>2. InsertPending(req[h].subj, TokenOf[h], req[h].cr)
    BY <1>13 DEF RecordPending
  <2>3. CASE Finish(h)
    BY <1>z, <2>1, <2>2, <2>3, FinishEnds DEF Ends
  <2>4. CASE /\ req' = [req EXCEPT ![h].pc = "recorded", ![h].log = nlogs + 1]
             /\ UNCHANGED lockVars
    <3>1. req'[h] = [r EXCEPT !.pc = "recorded", !.log = k]
      BY <2>4 DEF BillingInv, TypeOK
    <3> HIDE DEF r, k
    <3>2. LET n == [r EXCEPT !.pc = "recorded", !.log = k] IN
          n.pc = "recorded" /\ n.subj = r.subj /\ n.res = r.res /\ n.log = k
      BY <2>1 DEF Active
    <3>3. Goes(h, "recording", "recorded") /\ req'[h].log = k
      BY <2>1, <3>1, <3>2 DEF Goes, r
    <3> QED
      BY <1>z, <1>q, <2>2, <2>4, <3>3 DEF Bills, k
  <2> QED
    BY <1>13, <2>3, <2>4 DEF RecordPending
<1>14. CASE EnsureLiveBeforeCharge(h)
  <2>1. req[h] \in Active /\ req[h].pc = "recorded"
    BY <1>14, <1>b DEF EnsureLiveBeforeCharge, At, Label
  <2>2. CASE Finish(h)
    BY <1>14, <2>1, <2>2, FinishEnds DEF EnsureLiveBeforeCharge, Ends
  <2>3. CASE GoTo(h, "settling") /\ UNCHANGED lockVars
    <3>1. Goes(h, "recorded", "settling") /\ req'[h].log = req[h].log
      BY <2>1, <2>3, GoToFields DEF Goes
    <3> QED
      BY <1>14, <1>q, <2>3, <3>1 DEF EnsureLiveBeforeCharge, Bills, Quiet
  <2> QED
    BY <1>14, <2>2, <2>3 DEF EnsureLiveBeforeCharge
<1>15. CASE Settle(h)
  BY <1>15, FinishEnds DEF Settle, Ends, At
<1>16. CASE Abort(h)
  <2>1. req'[h].pc = "done"
    BY <1>16, FinishEnds DEF Abort, Done, BillingInv, TypeOK
  <2> QED
    BY <1>16, <2>1 DEF Abort, Ends
<1> QED
  BY <1>1, <1>2, <1>3, <1>4, <1>5, <1>6, <1>7, <1>8, <1>9, <1>10, <1>11,
     <1>12, <1>13, <1>14, <1>15, <1>16, <1>z DEF RequestStep

\* A request moves no other request and no guard of another.
LEMMA OthersUntouched ==
    ASSUME BillingInv, NEW h \in Holder, RequestStep(h) \/ Abort(h), NEW g \in Holder, g # h
    PROVE  /\ req'[g] = req[g]
           /\ \A s \in Subject : <<g, s>> \in held' <=> <<g, s>> \in held
<1>0. req \in [Holder -> Active \cup {Idle, Done}]
  BY DEF BillingInv, TypeOK
<1>1. ASSUME NEW S, DropGuards(h, S)
      PROVE  \A s \in Subject : <<g, s>> \in held' <=> <<g, s>> \in held
  BY <1>1 DEF DropGuards, Of
<1>2. ASSUME Finish(h)
      PROVE  /\ req'[g] = req[g]
             /\ \A s \in Subject : <<g, s>> \in held' <=> <<g, s>> \in held
  BY <1>0, <1>1, <1>2 DEF Finish
<1>3. ASSUME UNCHANGED lockVars
      PROVE  \A s \in Subject : <<g, s>> \in held' <=> <<g, s>> \in held
  BY <1>3 DEF lockVars
<1>4. ASSUME NEW label, GoTo(h, label) PROVE req'[g] = req[g]
  BY <1>0, <1>4 DEF GoTo
<1>5. CASE \E c \in Reserve : Begin(h, c)
  BY <1>0, <1>3, <1>5 DEF Begin
<1>6. CASE ListSubjects(h)
  BY <1>0, <1>3, <1>6 DEF ListSubjects
<1>7. CASE TakeMutex(h)
  BY <1>4, <1>7 DEF TakeMutex, LockLocal
<1>8. CASE TakeRow(h)
  <2>1. req'[g] = req[g] /\ held' = held \cup {<<h, NextToLock(h)>>}
    BY <1>4, <1>8 DEF TakeRow, AcquireRow
  <2> QED
    BY <2>1
<1>9. CASE AcquireTimesOut(h)
  BY <1>2, <1>9 DEF AcquireTimesOut
<1>10. CASE ListPending(h)
  BY <1>0, <1>3, <1>10 DEF ListPending
<1>11. CASE ReplayOne(h)
  BY <1>0, <1>3, <1>11 DEF ReplayOne
<1>12. CASE NextSubject(h)
  <2>1. req'[g] = req[g]
    BY <1>0, <1>12 DEF NextSubject
  <2>2. DropGuards(h, Subject \ {req[h].subj}) \/ UNCHANGED lockVars
    BY <1>12 DEF NextSubject
  <2> QED
    BY <1>1, <1>3, <2>1, <2>2
<1>13. CASE EnsureLiveBeforePrecheck(h)
  BY <1>2, <1>3, <1>4, <1>13 DEF EnsureLiveBeforePrecheck
<1>14. CASE Peek(h)
  <2>1. \/ /\ req' = [req EXCEPT ![h].pc = "resetting",
                         ![h].over = QuotaWouldExceed(req[h].subj, req[h].res), ![h].at = now]
           /\ UNCHANGED lockVars
        \/ Finish(h)
        \/ GoTo(h, "upstream") /\ UNCHANGED lockVars
    BY <1>14 DEF Peek
  <2> QED
    BY <1>0, <1>2, <1>3, <1>4, <2>1
<1>15. CASE PeekReset(h)
  BY <1>2, <1>3, <1>4, <1>15 DEF PeekReset
<1>16. CASE \E c \in Actual : UpstreamReplies(h, c)
  BY <1>0, <1>2, <1>3, <1>16 DEF UpstreamReplies
<1>17. CASE RecordPending(h)
  BY <1>0, <1>2, <1>3, <1>17 DEF RecordPending
<1>18. CASE EnsureLiveBeforeCharge(h)
  BY <1>2, <1>3, <1>4, <1>18 DEF EnsureLiveBeforeCharge
<1>19. CASE Settle(h)
  BY <1>2, <1>19 DEF Settle
<1>20. CASE Abort(h)
  <2>1. CASE AbandonInsert(h, NextToLock(h)) /\ req' = [req EXCEPT ![h] = Done]
    BY <1>0, <2>1 DEF AbandonInsert, Of
  <2> QED
    BY <1>2, <1>20, <2>1 DEF Abort
<1> QED
  BY <1>5, <1>6, <1>7, <1>8, <1>9, <1>10, <1>11, <1>12, <1>13, <1>14, <1>15, <1>16,
     <1>17, <1>18, <1>19, <1>20 DEF RequestStep

------------------------------------------------------------------------------
(* A request has the guards its label needs, and the rows it is going to   *)
(* charge are rows of a subject it has a guard on.                         *)

Guarding == {"guarded", "checking", "resetting", "upstream", "recording", "recorded", "settling"}

GuardsFit(h) ==
    LET r == req[h] IN
    /\ r.pc \in {"locked", "replaying"} => <<h, NextOf(r.todo)>> \in held
    /\ r.pc \in LockingLabel /\ r.subj \notin r.todo => <<h, r.subj>> \in held
    /\ r.pc \in Guarding => <<h, r.subj>> \in held

RowIsOf(l, s) == logs[l].st # "absent" /\ logs[l].subj = s

RowsFit(h) ==
    LET r == req[h] IN
    /\ r.pc = "replaying" => \A l \in r.ids : RowIsOf(l, NextOf(r.todo))
    /\ r.pc \in {"recorded", "settling"} => RowIsOf(r.log, r.subj)

GuardInv == \A h \in Holder : GuardsFit(h) /\ RowsFit(h)

\* A row keeps its subject.
LEMMA RowsStay ==
    ASSUME BillingInv, [Next]_vars, NEW l \in LogId, NEW s, RowIsOf(l, s)
    PROVE  RowIsOf(l, s)'
<1>0. logs \in Table
  BY DEF BillingInv, TypeOK, Table
<1>1. ASSUME NEW k \in LogId, Pending(k), ApplyPending(k) PROVE RowIsOf(l, s)'
  <2> DEFINE e == logs[k]
  <2>1. e \in Accounts!Entry
    BY <1>1, MonthOfCharge
  <2>2. logs' = [logs EXCEPT ![k] = [e EXCEPT !.st = "charged"]]
    BY <1>0, <1>1 DEF ApplyPending, Table
  <2> HIDE DEF e
  <2>3. [e EXCEPT !.st = "charged"].st = "charged" /\ [e EXCEPT !.st = "charged"].subj = e.subj
    BY <2>1
  <2>4. CASE k = l
    <3>1. logs'[l] = [e EXCEPT !.st = "charged"]
      BY <1>0, <2>2, <2>4 DEF Table
    <3> QED
      BY <2>3, <2>4, <3>1 DEF RowIsOf, e
  <2>5. CASE k # l
    BY <1>0, <2>2, <2>5 DEF RowIsOf, Table
  <2> QED
    BY <2>4, <2>5
<1>2. ASSUME NEW q \in Subject, NEW t \in Token, NEW c \in Actual \ {0}, InsertPending(q, t, c)
      PROVE  RowIsOf(l, s)'
  <2>1. nlogs + 1 \in LogId /\ nlogs + 1 > nlogs
    BY <1>2, InsertTypes DEF BillingInv, TypeOK, LogId
  <2>2. logs[nlogs + 1].st = "absent"
    BY <2>1 DEF BillingInv, RowIdsInOrder
  <2>3. l # nlogs + 1
    BY <2>2 DEF RowIsOf
  <2> QED
    BY <1>0, <1>2, <2>3 DEF InsertPending, RowIsOf, Table
<1>3. ASSUME NEW q \in Subject, NEW m \in Period, ResetMonth(q, m) PROVE RowIsOf(l, s)'
  BY <1>3 DEF ResetMonth, RowIsOf
<1>4. CASE UNCHANGED ledger
  BY <1>4 DEF ledger, RowIsOf
<1> QED
  BY <1>1, <1>2, <1>3, <1>4, LedgerMoves

\* The row ids a request works with.
LEMMA IdsAreRows ==
    ASSUME BillingInv, NEW h \in Holder
    PROVE  /\ req[h].pc = "replaying" => req[h].ids \in SUBSET LogId
           /\ req[h].pc \in {"recorded", "settling"} => req[h].log \in LogId
           /\ req[h].pc \in Label => req[h].subj \in Subject /\ req[h].res \in Reserve
           /\ req[h].pc \in LockingLabel =>
                 /\ req[h].todo \in SUBSET Subject /\ req[h].todo # {}
                 /\ NextOf(req[h].todo) \in req[h].todo
           /\ req[h].pc = "resetting" => req[h].at \in Period
           /\ req[h].pc = "recording" => req[h].cr \in Actual \ {0}
<1>1. req[h].pc \in Label => req[h] \in Active
  BY ActiveAt DEF BillingInv, Label
<1>2. req[h].pc \in LockingLabel =>
         req[h] \in Active /\ req[h].todo \in SUBSET Subject /\ req[h].todo # {}
  BY <1>1 DEF LockingLabel, Label, Active, BillingInv, RequestOK
<1>3. req[h].pc \in LockingLabel => NextOf(req[h].todo) \in req[h].todo
  <2>1. NextToLock(h) = NextOf(req[h].todo)
    BY DEF NextToLock, NextOf
  <2> QED
    BY <1>2, <2>1, NextIsLeft
<1> QED
  BY <1>1, <1>2, <1>3 DEF Label, Active, BillingInv, RequestOK

LEMMA OwnGuards ==
    ASSUME BillingInv, [Next]_vars, NEW h \in Holder, GuardsFit(h), RowsFit(h),
           Ends(h) \/ Locks(h) \/ Bills(h)
    PROVE  GuardsFit(h)' /\ RowsFit(h)'
<1> DEFINE r == req[h]
           n == req'[h]
           next == NextOf(req[h].todo)
<1>f. ASSUME n.pc \in {"done", "listing"} PROVE GuardsFit(h)' /\ RowsFit(h)'
  BY <1>f DEF GuardsFit, RowsFit, LockingLabel, Guarding
<1>1. CASE Ends(h)
  BY <1>1, <1>f DEF Ends
<1>2. CASE Locks(h)
  <2>1. CASE r.pc = "idle" /\ n.pc = "listing" /\ Quiet
    BY <1>f, <2>1
  <2>2. CASE Goes(h, "listing", "locking") /\ r.subj \in n.todo /\ Quiet
    BY <2>2 DEF Goes, GuardsFit, RowsFit, LockingLabel, Guarding
  <2>3. CASE Goes(h, "locking", "acquiring") /\ SameList(h) /\ Quiet
    BY <2>3 DEF Goes, GuardsFit, RowsFit, LockingLabel, Guarding, SameList, Quiet
  <2>4. CASE /\ Goes(h, "acquiring", "locked") /\ SameList(h)
             /\ held' = held \cup {<<h, next>>} /\ UNCHANGED ledger
    BY <2>4 DEF Goes, GuardsFit, RowsFit, LockingLabel, Guarding, SameList
  <2>5. CASE /\ Goes(h, "locked", "replaying") /\ SameList(h)
             /\ n.ids = PendingOf(next) /\ Quiet
    <3>1. GuardsFit(h)'
      BY <2>5 DEF Goes, GuardsFit, LockingLabel, Guarding, SameList, Quiet
    <3>2. RowsFit(h)'
      BY <2>5 DEF Goes, RowsFit, SameList, Quiet, PendingOf, Pending, RowIsOf, ledger
    <3> QED
      BY <3>1, <3>2
  <2>6. CASE /\ Goes(h, "replaying", "replaying") /\ SameList(h)
             /\ Min(r.ids) \in r.ids
             /\ n.ids = r.ids \ {Min(r.ids)}
             /\ ApplyPending(Min(r.ids)) /\ UNCHANGED held
    <3>1. GuardsFit(h)'
      BY <2>6 DEF Goes, GuardsFit, LockingLabel, Guarding, SameList
    <3>2. \A l \in n.ids : l \in LogId /\ RowIsOf(l, next)
      BY <2>6, IdsAreRows DEF Goes, RowsFit
    <3>3. \A l \in n.ids : RowIsOf(l, next)'
      <4> SUFFICES ASSUME NEW l \in n.ids PROVE RowIsOf(l, next)'
        OBVIOUS
      <4>1. RowIsOf(l, next) /\ l \in LogId
        BY <3>2
      <4> HIDE DEF next, n
      <4>2. \A s : RowIsOf(l, s) => (logs'[l].st # "absent" /\ logs'[l].subj = s)
        BY <4>1, RowsStay DEF RowIsOf
      <4>3. logs'[l].st # "absent" /\ logs'[l].subj = next
        BY <4>1, <4>2
      <4>4. SameList(h)
        BY <2>6
      <4> QED
        BY <4>3, <4>4 DEF RowIsOf, next, SameList
    <3>4. RowsFit(h)'
      BY <2>6, <3>3 DEF Goes, RowsFit, SameList
    <3> QED
      BY <3>1, <3>4
  <2>7. CASE /\ Goes(h, "replaying", "locking") /\ n.todo = r.todo \ {next}
             /\ r.ids = {} /\ Quiet
    BY <2>7 DEF Goes, GuardsFit, RowsFit, LockingLabel, Guarding, Quiet
  <2>8. CASE /\ Goes(h, "replaying", "guarded") /\ r.todo = {next} /\ r.ids = {}
             /\ held' = held \ Of(h, Subject \ {r.subj}) /\ UNCHANGED ledger
    <3>1. <<h, r.subj>> \in held
      BY <2>8 DEF Goes, GuardsFit, LockingLabel
    <3>2. <<h, n.subj>> \in held'
      BY <2>8, <3>1 DEF Goes, Of
    <3> QED
      BY <2>8, <3>2 DEF Goes, GuardsFit, RowsFit, LockingLabel, Guarding
  <2> HIDE DEF r, n, next
  <2> QED
    BY <1>2, <2>1, <2>2, <2>3, <2>4, <2>5, <2>6, <2>7, <2>8 DEF Locks, r, n, next
<1>3. CASE Bills(h)
  <2>1. r.pc \in Guarding /\ n.pc \in Guarding /\ n.subj = r.subj /\ UNCHANGED held
    BY <1>3 DEF Bills, Goes, Guarding, Quiet
  <2>2. GuardsFit(h)'
    BY <2>1 DEF GuardsFit, Guarding, LockingLabel
  <2>3. RowsFit(h)'
    <3>1. CASE /\ Goes(h, "recording", "recorded") /\ n.log = nlogs + 1
               /\ InsertPending(r.subj, TokenOf[h], r.cr)
      <4>1. nlogs + 1 \in LogId
        BY <3>1, BoundAssumption DEF InsertPending, LogId, BillingInv, TypeOK
      <4>2. logs'[nlogs + 1].st = "pending" /\ logs'[nlogs + 1].subj = r.subj
        BY <3>1, <4>1 DEF InsertPending, BillingInv, TypeOK
      <4> QED
        BY <3>1, <4>2 DEF Goes, RowsFit, RowIsOf
    <3>2. CASE Goes(h, "recorded", "settling") /\ n.log = r.log /\ Quiet
      BY <3>2 DEF Goes, RowsFit, RowIsOf, Quiet, ledger
    <3>3. CASE n.pc \notin {"recorded", "settling"}
      BY <2>1, <3>3 DEF RowsFit, Guarding
    <3> QED
      BY <1>3, <3>1, <3>2, <3>3 DEF Bills, Goes
  <2> QED
    BY <2>2, <2>3
<1> QED
  BY <1>1, <1>2, <1>3

\* A request that a step leaves alone, with its guards, still fits.
LEMMA GuardsStay ==
    ASSUME BillingInv, [Next]_vars, NEW g \in Holder, GuardsFit(g), RowsFit(g),
           req'[g] = req[g],
           \A s \in Subject : <<g, s>> \in held => <<g, s>> \in held'
    PROVE  GuardsFit(g)' /\ RowsFit(g)'
<1>1. GuardsFit(g)'
  <2>1. /\ req[g].pc \in LockingLabel => NextOf(req[g].todo) \in Subject
        /\ req[g].pc \in Label => req[g].subj \in Subject
    BY IdsAreRows
  <2> QED
    BY <2>1 DEF GuardsFit, LockingLabel, Guarding, Label
<1>2. RowsFit(g)'
  <2>1. ASSUME req[g].pc = "replaying", NEW l \in req[g].ids
        PROVE  RowIsOf(l, NextOf(req[g].todo))'
    <3> DEFINE x == NextOf(req[g].todo)
    <3>1. RowIsOf(l, x) /\ l \in LogId
      BY <2>1, IdsAreRows DEF RowsFit
    <3> HIDE DEF x
    <3>2. \A s : RowIsOf(l, s) => (logs'[l].st # "absent" /\ logs'[l].subj = s)
      BY <3>1, RowsStay DEF RowIsOf
    <3>3. logs'[l].st # "absent" /\ logs'[l].subj = x
      BY <3>1, <3>2
    <3> QED
      BY <3>3 DEF RowIsOf, x
  <2>2. ASSUME req[g].pc \in {"recorded", "settling"}
        PROVE  RowIsOf(req[g].log, req[g].subj)'
    <3> DEFINE l == req[g].log
               x == req[g].subj
    <3>1. RowIsOf(l, x) /\ l \in LogId
      BY <2>2, IdsAreRows DEF RowsFit
    <3> HIDE DEF l, x
    <3>2. \A s : RowIsOf(l, s) => (logs'[l].st # "absent" /\ logs'[l].subj = s)
      BY <3>1, RowsStay DEF RowIsOf
    <3>3. logs'[l].st # "absent" /\ logs'[l].subj = x
      BY <3>1, <3>2
    <3> QED
      BY <3>3 DEF RowIsOf, l, x
  <2> QED
    BY <2>1, <2>2 DEF RowsFit
<1> QED
  BY <1>1, <1>2

\* What is not a step of a request.
LEMMA OtherSteps ==
    ASSUME BillingInv, [Next]_vars,
           ~ \E h \in Holder : RequestStep(h) \/ Abort(h)
    PROVE  \A g \in Holder :
              \/ req'[g].pc \in {"idle", "done"}
              \/ /\ req'[g] = req[g]
                 /\ \A s \in Subject : <<g, s>> \in held' <=> <<g, s>> \in held
<1> SUFFICES ASSUME NEW g \in Holder
             PROVE  \/ req'[g].pc \in {"idle", "done"}
                    \/ /\ req'[g] = req[g]
                       /\ \A s \in Subject : <<g, s>> \in held' <=> <<g, s>> \in held
  OBVIOUS
<1>1. ASSUME UNCHANGED <<lockVars, req>>
      PROVE  req'[g] = req[g] /\ \A s \in Subject : <<g, s>> \in held' <=> <<g, s>> \in held
  BY <1>1 DEF lockVars
<1>2. CASE LeaseStep
  <2>1. UNCHANGED <<held, req>>
    BY <1>2 DEF LeaseStep, Release, ReleaseFails, Refresh, GiveUpLease, Expire
  <2> QED
    BY <2>1
<1>3. ASSUME NEW i \in Instance, CrashInstance(i)
      PROVE  \/ req'[g].pc \in {"idle", "done"}
             \/ /\ req'[g] = req[g]
                /\ \A s \in Subject : <<g, s>> \in held' <=> <<g, s>> \in held
  <2>1. CASE InstanceOf[g] = i
    BY <1>3, <2>1 DEF CrashInstance, At, Done
  <2>2. CASE InstanceOf[g] # i
    <3>1. req'[g] = req[g]
      BY <1>3, <2>2 DEF CrashInstance
    <3>2. \A s \in Subject : <<g, s>> \in held' <=> <<g, s>> \in held
      BY <1>3, <2>2 DEF CrashInstance, Crash
    <3> QED
      BY <3>1, <3>2
  <2> QED
    BY <2>1, <2>2
<1>4. CASE \E t \in Token, u \in User : BindToken(t, u)
  BY <1>1, <1>4 DEF BindToken
<1>5. CASE \E o \in Observer : SnapshotReset(o) \/ \E s \in Subject : SnapshotRead(o, s)
  BY <1>1, <1>5 DEF SnapshotReset, SnapshotRead
<1>6. CASE NextPeriod
  BY <1>1, <1>6 DEF NextPeriod
<1>7. CASE UNCHANGED vars
  BY <1>1, <1>7 DEF vars
<1> QED
  BY <1>2, <1>3, <1>4, <1>5, <1>6, <1>7 DEF Next

LEMMA GuardInvStep == BillingInv /\ GuardInv /\ [Next]_vars => GuardInv'
<1> SUFFICES ASSUME BillingInv, GuardInv, [Next]_vars, NEW g \in Holder
             PROVE  GuardsFit(g)' /\ RowsFit(g)'
  BY DEF GuardInv
<1>0. GuardsFit(g) /\ RowsFit(g)
  BY DEF GuardInv
<1>1. ASSUME NEW h \in Holder, RequestStep(h) \/ Abort(h)
      PROVE  GuardsFit(g)' /\ RowsFit(g)'
  <2>1. CASE g = h
    BY <1>0, <1>1, <2>1, RequestMoves, OwnGuards
  <2>2. CASE g # h
    BY <1>0, <1>1, <2>2, OthersUntouched, GuardsStay
  <2> QED
    BY <2>1, <2>2
<1>2. CASE ~ \E h \in Holder : RequestStep(h) \/ Abort(h)
  <2>1. CASE req'[g].pc \in {"idle", "done"}
    BY <2>1 DEF GuardsFit, RowsFit, LockingLabel, Guarding
  <2>2. CASE /\ req'[g] = req[g]
             /\ \A s \in Subject : <<g, s>> \in held' <=> <<g, s>> \in held
    BY <1>0, <2>2, GuardsStay
  <2> QED
    BY <1>2, <2>1, <2>2, OtherSteps
<1> QED
  BY <1>1, <1>2

LEMMA GuardInvariant == Spec => []GuardInv
<1>1. Init => GuardInv
  BY DEF Init, GuardInv, GuardsFit, RowsFit, Idle, LockingLabel, Guarding
<1> QED
  BY <1>1, BillingInvariant, GuardInvStep, PTL DEF Spec

\* A charge changes its own row only; recording a response ends no pending row.
LEMMA OnlyItsRow ==
    ASSUME BillingInv, NEW l \in LogId, NEW k, ApplyPending(k), Pending(l), ~Pending(l)'
    PROVE  k = l
  BY DEF ApplyPending, Pending, ledger, BillingInv, TypeOK

LEMMA RecordEndsNone ==
    ASSUME BillingInv, NEW l \in LogId, NEW q, NEW t, NEW c, InsertPending(q, t, c), Pending(l)
    PROVE  Pending(l)'
<1>1. logs \in Table
  BY DEF BillingInv, TypeOK, Table
<1>2. logs'[l] = logs[l] \/ logs'[l].st = "pending"
  BY <1>1 DEF InsertPending, Table
<1> QED
  BY <1>2 DEF Pending

LEMMA WhoCharges ==
    ASSUME BillingInv, GuardInv, [Next]_vars, NEW l \in LogId, Pending(l), ~Pending(l)'
    PROVE  \E h \in Holder : <<h, logs[l].subj>> \in held /\ req'[h] # req[h]
<1>1. ASSUME NEW h \in Holder, RequestStep(h) \/ Abort(h)
      PROVE  <<h, logs[l].subj>> \in held /\ req'[h] # req[h]
  <2>0. GuardsFit(h) /\ RowsFit(h) /\ (Ends(h) \/ Locks(h) \/ Bills(h))
    BY <1>1, RequestMoves DEF GuardInv
  <2>a. ~ UNCHANGED ledger
    BY DEF ledger, Pending
  <2>b. ASSUME NEW s, NEW m, ResetMonth(s, m) PROVE FALSE
    BY <2>b DEF ResetMonth, Pending
  <2>c. ASSUME NEW q, NEW t, NEW c, InsertPending(q, t, c) PROVE FALSE
    BY <2>c, RecordEndsNone
  <2>1. CASE req[h].pc = "settling" /\ ApplyPending(req[h].log) /\ req'[h].pc = "done"
    <3>1. req[h].log = l
      BY <2>1, OnlyItsRow
    <3> QED
      BY <2>0, <2>1, <3>1 DEF GuardsFit, RowsFit, RowIsOf, Guarding
  <2>2. CASE /\ req[h].pc = "replaying"
             /\ Min(req[h].ids) \in req[h].ids /\ ApplyPending(Min(req[h].ids))
             /\ req'[h].ids = req[h].ids \ {Min(req[h].ids)}
    <3>1. Min(req[h].ids) = l
      BY <2>2, OnlyItsRow
    <3> QED
      BY <2>0, <2>2, <3>1 DEF GuardsFit, RowsFit, RowIsOf
  <2>3. \/ req[h].pc = "settling" /\ ApplyPending(req[h].log) /\ req'[h].pc = "done"
        \/ /\ req[h].pc = "replaying"
           /\ Min(req[h].ids) \in req[h].ids /\ ApplyPending(Min(req[h].ids))
           /\ req'[h].ids = req[h].ids \ {Min(req[h].ids)}
    BY <2>0, <2>a, <2>b, <2>c DEF Ends, Locks, Bills, Quiet, Goes
  <2> QED
    BY <2>1, <2>2, <2>3
<1>2. CASE ~ \E h \in Holder : RequestStep(h) \/ Abort(h)
  <2>1. UNCHANGED logs
    BY <1>2
    DEF Next, BindToken, SnapshotRead, SnapshotReset, ResetMonth, LeaseStep, CrashInstance,
        NextPeriod, vars, ledger
  <2> QED
    BY <2>1 DEF Pending
<1> QED
  BY <1>1, <1>2

(* A pending row is charged only in a step of a request that has a guard   *)
(* on the row's subject at that moment: replay, settlement, an account binding    *)
(* that changes the subject under way, crashes and lost leases never       *)
(* leave a request charging rows of a subject whose guard it has dropped.  *)
THEOREM ChargesAreGuarded == Spec => ChargesUnderGuard
<1>1. BillingInv /\ GuardInv /\ [Next]_vars
      => [\A l \in LogId : Pending(l) /\ ~Pending(l)' =>
            \E h \in Holder : <<h, logs[l].subj>> \in held /\ req'[h] # req[h]]_vars
  BY WhoCharges
<1> QED
  BY <1>1, BillingInvariant, GuardInvariant, PTL DEF Spec, ChargesUnderGuard

------------------------------------------------------------------------------
(* While leases are kept, no guard loses its row, so a subject has one     *)
(* guard at a time over all processes.                                     *)

KeptInv ==
    /\ lost = {} /\ stolen = {}
    /\ \A s \in expired : <<row[s], s>> \notin held

OneGuard ==
    \A g, h \in Holder, s \in Subject : <<g, s>> \in held /\ <<h, s>> \in held => g = h

\* The steps of the lock that leave the flags of the guards alone.
LEMMA KeptDrop ==
    ASSUME KeptInv, NEW h, NEW S, DropGuards(h, S)
    PROVE  KeptInv'
  BY DEF KeptInv, DropGuards

LEMMA KeptTake ==
    ASSUME LockTypeOK, LockInv, KeptInv, NEW h \in Holder, NEW s \in Subject, AcquireRow(h, s),
           s \notin expired'
    PROVE  KeptInv'
<1>1. GuardOfRow(s) = {}
  <2>1. CASE row[s] = NoHolder
    BY <2>1, NoHolderAssumption DEF GuardOfRow, LockTypeOK, Pair
  <2>2. CASE s \in expired
    BY <2>2 DEF GuardOfRow, KeptInv
  <2> QED
    BY <2>1, <2>2 DEF AcquireRow, InsertRow
<1>2. lost' = {} /\ stolen' = {}
  BY <1>1 DEF AcquireRow, KeptInv
<1>3. ASSUME NEW t \in expired' PROVE <<row'[t], t>> \notin held'
  <2>1. t \in expired /\ t # s /\ t \in Subject
    BY <1>3 DEF AcquireRow, InsertRow, WriteExpiry, LockTypeOK
  <2>2. row'[t] = row[t]
    BY <2>1 DEF AcquireRow, InsertRow, LockTypeOK
  <2>3. held' = held \cup {<<h, s>>}
    BY DEF AcquireRow
  <2> QED
    BY <2>1, <2>2, <2>3 DEF KeptInv
<1> QED
  BY <1>2, <1>3 DEF KeptInv

LEMMA KeptAbandon ==
    ASSUME LockTypeOK, KeptInv, NEW h \in Holder, NEW s \in Subject, AbandonInsert(h, s)
    PROVE  KeptInv'
<1>1. GuardOfRow(s) = {}
  <2>1. CASE row[s] = NoHolder
    BY <2>1, NoHolderAssumption DEF GuardOfRow, LockTypeOK, Pair
  <2>2. CASE s \in expired
    BY <2>2 DEF GuardOfRow, KeptInv
  <2> QED
    BY <2>1, <2>2 DEF AbandonInsert, InsertRow
<1>2. lost' = {} /\ stolen' = {}
  BY <1>1 DEF AbandonInsert, KeptInv
<1>3. ASSUME NEW t \in expired' PROVE <<row'[t], t>> \notin held'
  <2>1. CASE t = s
    BY <2>1 DEF AbandonInsert, InsertRow, LockTypeOK, Of
  <2>2. CASE t # s
    <3>1. t \in expired /\ t \in Subject
      BY <1>3, <2>2 DEF AbandonInsert, InsertRow, WriteExpiry, LockTypeOK
    <3>2. row'[t] = row[t] /\ held' \subseteq held
      BY <2>2, <3>1 DEF AbandonInsert, InsertRow, LockTypeOK
    <3> QED
      BY <3>1, <3>2 DEF KeptInv
  <2> QED
    BY <2>1, <2>2
<1> QED
  BY <1>2, <1>3 DEF KeptInv

LEMMA KeptStep ==
    ASSUME LeasesKept, BillingInv, LockInv, KeptInv, [Next]_vars
    PROVE  KeptInv'
<1>0. LockTypeOK
  BY DEF LockInv
<1>u. ASSUME UNCHANGED lockVars PROVE KeptInv'
  BY <1>u DEF lockVars, KeptInv
<1>f. ASSUME NEW h, Finish(h) PROVE KeptInv'
  BY <1>f, KeptDrop DEF Finish
<1>1. ASSUME NEW h \in Holder, RequestStep(h) \/ Abort(h) PROVE KeptInv'
  <2>1. CASE TakeMutex(h)
    BY <2>1 DEF TakeMutex, LockLocal, KeptInv
  <2>2. CASE TakeRow(h)
    <3>1. NextToLock(h) \in Subject
      BY <2>2, NextIsSubject DEF TakeRow, At, LockingLabel
    <3>2. AcquireRow(h, NextToLock(h)) /\ NextToLock(h) \notin expired'
      BY <2>2 DEF TakeRow
    <3> QED
      BY <1>0, <3>1, <3>2, KeptTake
  <2>3. CASE NextSubject(h)
    BY <1>u, <2>3, KeptDrop DEF NextSubject
  <2>4. CASE Abort(h)
    <3>1. CASE At(h, "acquiring") /\ AbandonInsert(h, NextToLock(h))
      <4>1. NextToLock(h) \in Subject
        BY <3>1, NextIsSubject DEF At, LockingLabel
      <4> QED
        BY <1>0, <3>1, <4>1, KeptAbandon
    <3> QED
      BY <1>f, <2>4, <3>1 DEF Abort
  <2>5. CASE AcquireTimesOut(h) \/ Settle(h)
    BY <1>f, <2>5 DEF AcquireTimesOut, Settle
  <2>6. CASE \/ EnsureLiveBeforePrecheck(h) \/ Peek(h) \/ PeekReset(h)
             \/ \E c \in Actual : UpstreamReplies(h, c)
             \/ RecordPending(h) \/ EnsureLiveBeforeCharge(h)
    BY <1>f, <1>u, <2>6 DEF EnsureLiveBeforePrecheck, Peek, PeekReset, UpstreamReplies,
        RecordPending, EnsureLiveBeforeCharge
  <2> QED
    BY <1>1, <1>u, <2>1, <2>2, <2>3, <2>4, <2>5, <2>6
    DEF RequestStep, Begin, ListSubjects, ListPending, ReplayOne
<1>2. CASE LeaseStep
  <2>1. ASSUME NEW h \in Holder, NEW s \in Subject,
               \/ Release(h, s) \/ ReleaseFails(h, s)
               \/ Refresh(h, s) /\ s \notin expired'
        PROVE  KeptInv'
    <3>1. lost' = {} /\ stolen' = {} /\ held' = held /\ expired' \subseteq expired
      BY <2>1 DEF Release, ReleaseFails, Refresh, WriteExpiry, KeptInv
    <3>2. ASSUME NEW t \in expired' PROVE row'[t] = row[t]
      BY <1>0, <2>1, <3>1, <3>2 DEF Release, ReleaseFails, Refresh, WriteExpiry, LockTypeOK
    <3> QED
      BY <3>1, <3>2 DEF KeptInv
  <2>2. ASSUME NEW s \in Subject, <<row[s], s>> \notin held, Expire({s}) PROVE KeptInv'
    BY <2>2 DEF Expire, KeptInv
  <2> QED
    BY <1>2, <2>1, <2>2 DEF LeaseStep
<1>3. ASSUME NEW i \in Instance, CrashInstance(i) PROVE KeptInv'
  BY <1>3 DEF CrashInstance, Crash, KeptInv
<1> QED
  BY <1>1, <1>2, <1>3, <1>u
  DEF Next, BindToken, SnapshotRead, SnapshotReset, NextPeriod, vars

LEMMA BillingLockInvariant == Spec => []LockInv
  BY BillingImplementsLock, LockInvariant, PTL

LEMMA KeptInvariant == ASSUME LeasesKept PROVE Spec => []KeptInv
<1>1. Init => KeptInv
  BY DEF Init, LockInit, KeptInv
<1>2. BillingInv /\ LockInv /\ KeptInv /\ [Next]_vars => KeptInv'
  BY KeptStep
<1> QED
  BY <1>1, <1>2, BillingInvariant, BillingLockInvariant, PTL DEF Spec

LEMMA KeptIsOne ==
    ASSUME LockInv, KeptInv
    PROVE  OneGuard
  BY DEF LockInv, KeptInv, GuardOwnsRow, OneGuard

------------------------------------------------------------------------------
(* A request changes the ledger only where it has a guard, so under        *)
(* OneGuard it changes nothing under a subject that another one guards.    *)

LEMMA TouchesOwn ==
    ASSUME BillingInv, GuardInv, NEW h \in Holder, RequestStep(h) \/ Abort(h)
    PROVE  \/ UNCHANGED ledger
           \/ \E q \in Subject :
                 /\ <<h, q>> \in held
                 /\ \/ \E k \in LogId : RowIsOf(k, q) /\ ApplyPending(k)
                    \/ \E t \in Token, c \in Actual \ {0} : InsertPending(q, t, c)
                    \/ \E m \in Period : ResetMonth(q, m)
<1>0. GuardsFit(h) /\ RowsFit(h) /\ (Ends(h) \/ Locks(h) \/ Bills(h))
  BY RequestMoves DEF GuardInv
<1>i. /\ req[h].pc = "replaying" => req[h].ids \in SUBSET LogId
      /\ req[h].pc \in {"recorded", "settling"} => req[h].log \in LogId
      /\ req[h].pc \in Label => req[h].subj \in Subject
      /\ req[h].pc \in LockingLabel => NextOf(req[h].todo) \in Subject
      /\ req[h].pc = "resetting" => req[h].at \in Period
      /\ req[h].pc = "recording" => req[h].cr \in Actual \ {0}
  BY IdsAreRows
<1>t. TokenOf[h] \in Token
  BY TokenOfAssumption
<1>1. CASE req[h].pc = "settling" /\ ApplyPending(req[h].log)
  <2>1. /\ req[h].subj \in Subject /\ <<h, req[h].subj>> \in held
        /\ req[h].log \in LogId /\ RowIsOf(req[h].log, req[h].subj)
    BY <1>0, <1>1, <1>i DEF GuardsFit, RowsFit, Guarding, Label
  <2> QED
    BY <1>1, <2>1
<1>2. CASE /\ req[h].pc = "replaying"
           /\ Min(req[h].ids) \in req[h].ids /\ ApplyPending(Min(req[h].ids))
  <2> DEFINE k == Min(req[h].ids)
             q == NextOf(req[h].todo)
  <2>1. q \in Subject /\ <<h, q>> \in held /\ k \in LogId /\ RowIsOf(k, q)
    BY <1>0, <1>2, <1>i DEF GuardsFit, RowsFit, LockingLabel
  <2>2. ApplyPending(k)
    BY <1>2
  <2> HIDE DEF k, q
  <2> QED
    BY <2>1, <2>2
<1>3. CASE req[h].pc = "resetting" /\ ResetMonth(req[h].subj, req[h].at)
  <2>1. req[h].subj \in Subject /\ <<h, req[h].subj>> \in held /\ req[h].at \in Period
    BY <1>0, <1>3, <1>i DEF GuardsFit, Guarding, Label
  <2> QED
    BY <1>3, <2>1
<1>4. CASE req[h].pc = "recording" /\ InsertPending(req[h].subj, TokenOf[h], req[h].cr)
  <2>1. /\ req[h].subj \in Subject /\ <<h, req[h].subj>> \in held
        /\ req[h].cr \in Actual \ {0}
    BY <1>0, <1>4, <1>i DEF GuardsFit, Guarding, Label
  <2> QED
    BY <1>4, <1>t, <2>1
<1>5. \/ UNCHANGED ledger
      \/ req[h].pc = "settling" /\ ApplyPending(req[h].log)
      \/ /\ req[h].pc = "replaying"
         /\ Min(req[h].ids) \in req[h].ids /\ ApplyPending(Min(req[h].ids))
      \/ req[h].pc = "resetting" /\ ResetMonth(req[h].subj, req[h].at)
      \/ req[h].pc = "recording" /\ InsertPending(req[h].subj, TokenOf[h], req[h].cr)
  BY <1>0 DEF Ends, Locks, Bills, Quiet, Goes
<1> QED
  BY <1>1, <1>2, <1>3, <1>4, <1>5

\* The rows that are pending after a charge or a recorded response.
LEMMA StillPending ==
    ASSUME BillingInv, NEW k \in LogId, ApplyPending(k), NEW l \in LogId, Pending(l)'
    PROVE  Pending(l) /\ logs'[l].subj = logs[l].subj /\ l # k
<1>0. logs \in Table
  BY DEF BillingInv, TypeOK, Table
<1>1. CASE Pending(k)
  <2>1. l # k => logs'[l] = logs[l]
    BY <1>0, <1>1 DEF ApplyPending, Table
  <2>2. logs'[k].st = "charged"
    <3> DEFINE e == logs[k]
    <3>1. e \in Accounts!Entry
      BY <1>0, <1>1 DEF Pending, Table
    <3>2. logs'[k] = [e EXCEPT !.st = "charged"]
      BY <1>0, <1>1 DEF ApplyPending, Table
    <3> HIDE DEF e
    <3> QED
      BY <3>1, <3>2
  <2> QED
    BY <2>1, <2>2 DEF Pending
<1>2. CASE ~Pending(k)
  BY <1>2 DEF ApplyPending, ledger, Pending
<1> QED
  BY <1>1, <1>2

LEMMA PendingOrNew ==
    ASSUME BillingInv, NEW q, NEW t, NEW c, InsertPending(q, t, c), NEW l \in LogId, Pending(l)'
    PROVE  (Pending(l) /\ logs'[l].subj = logs[l].subj) \/ logs'[l].subj = q
<1>0. logs \in Table
  BY DEF BillingInv, TypeOK, Table
<1>1. l # nlogs + 1 => logs'[l] = logs[l]
  BY <1>0 DEF InsertPending, Table
<1>2. l = nlogs + 1 => logs'[l].subj = q
  BY <1>0 DEF InsertPending, Table
<1> QED
  BY <1>1, <1>2 DEF Pending

\* The parts of the ledger that belong to s are not changed: at most one of
\* its pending rows less.
Spared(s) ==
    /\ \A p \in Period : Sum(logs', s, p, Both) = Sum(logs, s, p, Both)
    /\ \A l \in LogId : Pending(l)' /\ logs'[l].subj = s => Pending(l) /\ logs[l].subj = s
    /\ month'[s] = month[s]

LEMMA SparesOthers ==
    ASSUME BillingInv, GuardInv, OneGuard, NEW h \in Holder, RequestStep(h) \/ Abort(h),
           NEW g \in Holder, g # h, NEW s \in Subject, <<g, s>> \in held
    PROVE  Spared(s)
<1>1. CASE UNCHANGED ledger
  BY <1>1 DEF ledger, Spared, Pending
<1>2. ASSUME NEW q \in Subject, <<h, q>> \in held,
             NEW k \in LogId, RowIsOf(k, q), ApplyPending(k)
      PROVE  Spared(s)
  <2>0. q # s
    BY <1>2 DEF OneGuard
  <2>1. CASE Pending(k)
    <3>1. \A p \in Period : Sum(logs', s, p, Both) = Sum(logs, s, p, Both)
      BY <1>2, <2>1, SumsOfCharge
    <3>2. month'[s] = month[s]
      BY <1>2, <2>0, <2>1, MonthOfCharge DEF RowIsOf
    <3>3. \A l \in LogId : Pending(l)' => Pending(l) /\ logs'[l].subj = logs[l].subj
      BY <1>2, StillPending DEF Pending
    <3> QED
      BY <3>1, <3>2, <3>3 DEF Spared, Pending
  <2>2. CASE ~Pending(k)
    BY <1>1, <1>2, <2>2 DEF ApplyPending
  <2> QED
    BY <2>1, <2>2
<1>3. ASSUME NEW q \in Subject, <<h, q>> \in held,
             NEW t \in Token, NEW c \in Actual \ {0}, InsertPending(q, t, c)
      PROVE  Spared(s)
  <2>0. q # s
    BY <1>3 DEF OneGuard
  <2>1. \A p \in Period : Sum(logs', s, p, Both) = Sum(logs, s, p, Both)
    BY <1>3, <2>0, SumsOfRecord
  <2>2. month'[s] = month[s]
    BY <1>3 DEF InsertPending
  <2>3. ASSUME NEW l \in LogId, Pending(l)', logs'[l].subj = s
        PROVE  Pending(l) /\ logs[l].subj = s
    BY <1>3, <2>0, <2>3, PendingOrNew
  <2> QED
    BY <2>1, <2>2, <2>3 DEF Spared
<1>4. ASSUME NEW q \in Subject, <<h, q>> \in held, NEW m \in Period, ResetMonth(q, m)
      PROVE  Spared(s)
  <2>0. q # s
    BY <1>4 DEF OneGuard
  <2> QED
    BY <1>4, <2>0 DEF ResetMonth, Spared, Pending, BillingInv, TypeOK
<1> QED
  BY <1>1, <1>2, <1>3, <1>4, TouchesOwn

------------------------------------------------------------------------------
(* The precheck.                                                           *)

\* Once a request has replayed its subject, and until it records a charge of
\* its own, nothing is pending under the subject; during a replay, what is
\* pending is still to be replayed.
Cleared(h) ==
    LET r == req[h] IN
    /\ r.pc = "replaying" =>
          \A l \in LogId : Pending(l) /\ logs[l].subj = NextOf(r.todo) => l \in r.ids
    /\ \/ r.pc \in LockingLabel /\ r.subj \notin r.todo
       \/ r.pc \in Guarding \ {"recorded", "settling"}
       => \A l \in LogId : Pending(l) => logs[l].subj # r.subj

ClearedInv == \A h \in Holder : Cleared(h)

LEMMA OwnCleared ==
    ASSUME BillingInv, NEW h \in Holder, Cleared(h), Ends(h) \/ Locks(h) \/ Bills(h)
    PROVE  Cleared(h)'
<1> DEFINE r == req[h]
           n == req'[h]
           next == NextOf(req[h].todo)
<1>f. ASSUME n.pc \in {"done", "listing"} PROVE Cleared(h)'
  BY <1>f DEF Cleared, LockingLabel, Guarding
<1>1. CASE Ends(h)
  BY <1>1, <1>f DEF Ends
<1>2. CASE Locks(h)
  <2>1. CASE r.pc = "idle" /\ n.pc = "listing" /\ Quiet
    BY <1>f, <2>1
  <2>2. CASE Goes(h, "listing", "locking") /\ r.subj \in n.todo /\ Quiet
    BY <2>2 DEF Goes, Cleared, LockingLabel, Guarding
  <2>3. CASE Goes(h, "locking", "acquiring") /\ SameList(h) /\ Quiet
    BY <2>3 DEF Goes, Cleared, LockingLabel, Guarding, SameList, Quiet, ledger, Pending
  <2>4. CASE /\ Goes(h, "acquiring", "locked") /\ SameList(h)
             /\ held' = held \cup {<<h, next>>} /\ UNCHANGED ledger
    BY <2>4 DEF Goes, Cleared, LockingLabel, Guarding, SameList, ledger, Pending
  <2>5. CASE /\ Goes(h, "locked", "replaying") /\ SameList(h)
             /\ n.ids = PendingOf(next) /\ Quiet
    BY <2>5 DEF Goes, Cleared, LockingLabel, Guarding, SameList, Quiet, ledger, Pending, PendingOf
  <2>6. CASE /\ Goes(h, "replaying", "replaying") /\ SameList(h)
             /\ Min(r.ids) \in r.ids
             /\ n.ids = r.ids \ {Min(r.ids)}
             /\ ApplyPending(Min(r.ids)) /\ UNCHANGED held
    <3> DEFINE k == Min(r.ids)
    <3>1. k \in LogId
      BY <2>6, IdsAreRows DEF Goes
    <3>2. ApplyPending(k)
      BY <2>6
    <3>3. \A l \in LogId : Pending(l)' => Pending(l) /\ logs'[l].subj = logs[l].subj /\ l # k
      <4> HIDE DEF k
      <4> QED BY <3>1, <3>2, StillPending
    <3>4. n.pc = "replaying" /\ n.subj = r.subj /\ n.todo = r.todo /\ n.ids = r.ids \ {k}
          /\ r.pc = "replaying"
      BY <2>6 DEF Goes, SameList
    <3> HIDE DEF k
    <3>5. \A l \in LogId : Pending(l)' /\ logs'[l].subj = NextOf(n.todo) => l \in n.ids
      BY <3>3, <3>4 DEF Cleared
    <3>6. n.subj \notin n.todo => \A l \in LogId : Pending(l)' => logs'[l].subj # n.subj
      BY <3>3, <3>4 DEF Cleared, LockingLabel
    <3> QED
      BY <3>4, <3>5, <3>6 DEF Cleared, LockingLabel, Guarding
  <2>7. CASE /\ Goes(h, "replaying", "locking") /\ n.todo = r.todo \ {next}
             /\ r.ids = {} /\ Quiet
    BY <2>7 DEF Goes, Cleared, LockingLabel, Guarding, Quiet, ledger, Pending
  <2>8. CASE /\ Goes(h, "replaying", "guarded") /\ r.todo = {next} /\ r.ids = {}
             /\ held' = held \ Of(h, Subject \ {r.subj}) /\ UNCHANGED ledger
    BY <2>8 DEF Goes, Cleared, LockingLabel, Guarding, ledger, Pending
  <2> HIDE DEF r, n, next
  <2> QED
    BY <1>2, <2>1, <2>2, <2>3, <2>4, <2>5, <2>6, <2>7, <2>8 DEF Locks, r, n, next
<1>3. CASE Bills(h)
  <2>1. CASE n.pc \in {"recorded", "settling"}
    BY <2>1 DEF Cleared, LockingLabel
  <2>2. CASE n.pc \notin {"recorded", "settling"}
    <3>1. /\ UNCHANGED logs /\ n.subj = r.subj /\ n.pc \in Guarding
          /\ r.pc \in Guarding \ {"recorded", "settling"}
      BY <1>3, <2>2 DEF Bills, Goes, Guarding, Quiet, ledger, ResetMonth
    <3> QED
      BY <3>1 DEF Cleared, Guarding, LockingLabel, Pending
  <2> QED
    BY <2>1, <2>2
<1> QED
  BY <1>1, <1>2, <1>3

LEMMA ClearedStep ==
    ASSUME BillingInv, GuardInv, OneGuard, ClearedInv, [Next]_vars
    PROVE  ClearedInv'
<1> SUFFICES ASSUME NEW g \in Holder PROVE Cleared(g)'
  BY DEF ClearedInv
<1>0. Cleared(g) /\ GuardsFit(g)
  BY DEF ClearedInv, GuardInv
<1>1. ASSUME NEW h \in Holder, RequestStep(h) \/ Abort(h) PROVE Cleared(g)'
  <2>1. CASE g = h
    BY <1>0, <1>1, <2>1, RequestMoves, OwnCleared
  <2>2. CASE g # h
    <3>1. req'[g] = req[g]
      BY <1>1, <2>2, OthersUntouched
    <3>2. /\ req[g].pc \in LockingLabel => NextOf(req[g].todo) \in Subject
          /\ req[g].pc \in Label => req[g].subj \in Subject
      BY IdsAreRows
    <3>3. req[g].pc = "replaying" => Spared(NextOf(req[g].todo))
      BY <1>0, <1>1, <2>2, <3>2, SparesOthers DEF GuardsFit, LockingLabel
    <3>4. (req[g].pc \in LockingLabel /\ req[g].subj \notin req[g].todo)
             \/ req[g].pc \in Guarding => Spared(req[g].subj)
      BY <1>0, <1>1, <2>2, <3>2, SparesOthers DEF GuardsFit, LockingLabel, Guarding, Label
    <3> QED
      BY <1>0, <3>1, <3>3, <3>4 DEF Cleared, Spared
  <2> QED
    BY <2>1, <2>2
<1>2. CASE ~ \E h \in Holder : RequestStep(h) \/ Abort(h)
  <2>1. UNCHANGED logs
    BY <1>2
    DEF Next, BindToken, SnapshotRead, SnapshotReset, ResetMonth, LeaseStep, CrashInstance,
        NextPeriod, vars, ledger
  <2>2. CASE req'[g].pc \in {"idle", "done"}
    BY <2>2 DEF Cleared, LockingLabel, Guarding
  <2>3. CASE req'[g] = req[g]
    BY <1>0, <2>1, <2>3 DEF Cleared, Pending
  <2> QED
    BY <1>2, <2>2, <2>3, OtherSteps
<1> QED
  BY <1>1, <1>2

LEMMA ClearedInvariant == ASSUME LeasesKept PROVE Spec => []ClearedInv
<1>1. Init => ClearedInv
  BY DEF Init, ClearedInv, Cleared, Idle, LockingLabel, Guarding
<1>2. BillingInv /\ GuardInv /\ LockInv /\ KeptInv /\ ClearedInv /\ [Next]_vars => ClearedInv'
  BY ClearedStep, KeptIsOne
<1>3. Spec => []KeptInv
  BY KeptInvariant
<1> QED
  BY <1>1, <1>2, <1>3, BillingInvariant, GuardInvariant, BillingLockInvariant, PTL DEF Spec

(* While every live guard refreshes its lease in time, the quota check of  *)
(* a request sees every charge recorded under its subject: whatever an     *)
(* earlier request left pending, by a crash, a lost client or a failed     *)
(* settlement, under the user or under the token, has been replayed by     *)
(* then.  For any number of requests, processes and subjects.              *)
THEOREM PrecheckIsComplete ==
    ASSUME LeasesKept PROVE Spec => []PrecheckSeesAllCharges
<1>1. ClearedInv => PrecheckSeesAllCharges
  BY DEF ClearedInv, Cleared, PrecheckSeesAllCharges, At, PendingOf, Guarding
<1>2. Spec => []ClearedInv
  BY ClearedInvariant
<1> QED
  BY <1>1, <1>2, PTL

------------------------------------------------------------------------------
(* The quota.                                                              *)

\* An admitted request still has room for what it announced.
Admitted(h) ==
    LET r == req[h] IN
    r.pc \in {"upstream", "recording"} \/ (r.pc = "resetting" /\ ~r.over) =>
        Sum(logs, r.subj, now, Both) + r.res <= WindowLimit

RowsArePast == \A l \in LogId : logs[l].st \in Both => logs[l].per <= now

RoomInv ==
    /\ RowsArePast
    /\ \A h \in Holder : Admitted(h)
    /\ QuotaHeld

\* No row of a later period, no credits in it.
LEMMA FutureIsEmpty ==
    ASSUME RowsArePast, BillingInv, NEW s, NEW p \in Period, p > now
    PROVE  Sum(logs, s, p, Both) = 0
<1>1. RowsOf(logs, s, p, Both) = {}
  <2>1. ASSUME NEW l \in RowsOf(logs, s, p, Both) PROVE FALSE
    <3>1. p <= now
      BY <2>1 DEF RowsOf, RowsArePast
    <3>2. p \in Nat /\ now \in Nat
      BY BoundAssumption DEF Period, BillingInv, TypeOK
    <3> QED
      BY <3>1, <3>2
  <2> QED
    BY <2>1
<1> QED
  BY <1>1, TotalEmpty DEF Sum

\* When nothing of s is pending, its bucket holds all its credits.
LEMMA BucketIsAll ==
    ASSUME BillingInv, BucketsExact, NEW s \in Subject, NEW p \in Period,
           \A l \in LogId : Pending(l) => logs[l].subj # s
    PROVE  Sum(logs, s, p, Both) = bucket[s][p]
<1>1. RowsOf(logs, s, p, Both) = RowsOf(logs, s, p, {"charged"})
  BY DEF RowsOf, Both, Pending
<1>2. Sum(logs, s, p, Both) = Sum(logs, s, p, {"charged"})
  BY <1>1 DEF Sum
<1> QED
  BY <1>2, CreditsAreSum DEF BucketsExact

\* Overshoot is what its name says.
LEMMA OvershootBounds ==
    /\ Overshoot \in Nat
    /\ \A c \in Actual, r \in Reserve : c - r <= Overshoot
<1> DEFINE D == {a - r : a \in Actual, r \in Reserve} \cup {0}
<1>1. PICK most \in Actual : \A c \in Actual : c <= most
  BY CreditsAssumption
<1>2. most \in Nat
  BY BoundAssumption
<1>3. D \subseteq Int /\ 0 \in D
  BY BoundAssumption
<1>4. \A d \in D : d <= most
  <2>1. ASSUME NEW a \in Actual, NEW r \in Reserve PROVE a - r <= most
    <3>1. a \in Nat /\ r \in Nat /\ a <= most
      BY <1>1, BoundAssumption
    <3> QED
      BY <1>2, <3>1
  <2> QED
    BY <1>2, <2>1
<1> HIDE DEF D
<1> DEFINE G == {most - d : d \in D}
<1>5. G \in SUBSET Nat /\ G # {}
  BY <1>2, <1>3, <1>4
<1>6. PICK g \in G : \A y \in G : g <= y
  <2> HIDE DEF G
  <2> QED BY <1>5, LeastNat
<1>7. PICK x \in D : g = most - x
  OBVIOUS
<1>8. \A y \in D : x >= y
  <2>1. ASSUME NEW y \in D PROVE x >= y
    <3>1. most - x <= most - y
      BY <1>6, <1>7
    <3>2. x \in Int /\ y \in Int
      BY <1>3
    <3> QED
      BY <1>2, <3>1, <3>2
  <2> QED
    BY <2>1
<1>9. Overshoot = Max(D)
  BY DEF Overshoot, D
<1>10. Overshoot \in D /\ \A y \in D : Overshoot >= y
  BY <1>8, <1>9 DEF Max
<1>11. Overshoot \in Int /\ Overshoot >= 0
  BY <1>3, <1>10
<1>12. ASSUME NEW c \in Actual, NEW r \in Reserve PROVE c - r <= Overshoot
  <2>1. c - r \in D
    BY DEF D
  <2>2. c - r \in Int
    BY <1>3, <2>1
  <2> QED
    BY <1>10, <1>11, <2>1, <2>2
<1> QED
  BY <1>11, <1>12

LEMMA PastStep == BillingInv /\ RowsArePast /\ [Next]_vars => RowsArePast'
<1> SUFFICES ASSUME BillingInv, RowsArePast, [Next]_vars, NEW l \in LogId, logs'[l].st \in Both
             PROVE  logs'[l].per <= now'
  BY DEF RowsArePast
<1>0. logs \in Table /\ now \in Nat
  BY BoundAssumption DEF BillingInv, TypeOK, Table, Period
<1>n. now' \in Nat /\ now' >= now
  <2>1. CASE NextPeriod
    BY <1>0, <2>1 DEF NextPeriod
  <2>2. CASE ~NextPeriod
    <3>1. now' = now
      BY <2>2, RequestMoves
      DEF Next, BindToken, SnapshotRead, SnapshotReset, LeaseStep, CrashInstance, vars
    <3> QED
      BY <1>0, <3>1
  <2> QED
    BY <2>1, <2>2
<1>1. ASSUME NEW k \in LogId, Pending(k), ApplyPending(k) PROVE logs'[l].per <= now'
  <2> DEFINE e == logs[k]
  <2>1. e \in Accounts!Entry /\ e.st = "pending"
    BY <1>0, <1>1 DEF Pending, Table
  <2>2. logs' = [logs EXCEPT ![k] = [e EXCEPT !.st = "charged"]]
    BY <1>0, <1>1 DEF ApplyPending, Table
  <2> HIDE DEF e
  <2>3. [e EXCEPT !.st = "charged"].per = e.per
    BY <2>1
  <2>4. logs'[l].per = logs[l].per /\ logs[l].st \in Both
    <3>1. CASE k = l
      <4>1. logs'[l] = [e EXCEPT !.st = "charged"]
        BY <1>0, <2>2, <3>1 DEF Table
      <4> QED
        BY <2>1, <2>3, <3>1, <4>1 DEF e, Both
    <3>2. CASE k # l
      BY <1>0, <2>2, <3>2 DEF Table
    <3> QED
      BY <3>1, <3>2
  <2>5. logs[l].per <= now
    BY <2>4 DEF RowsArePast
  <2>6. logs[l].per \in Nat
    <3>1. logs[l].per \in Period
      BY <1>0, <2>4, RowCredit
    <3> QED
      BY <3>1, BoundAssumption DEF Period
  <2> QED
    BY <1>0, <1>n, <2>4, <2>5, <2>6
<1>2. ASSUME logs'[l] = logs[l] PROVE logs'[l].per <= now'
  <2>1. logs[l].per <= now /\ logs[l].per \in Period
    BY <1>0, <1>2, RowCredit DEF RowsArePast
  <2>2. logs[l].per \in Nat
    BY <2>1, BoundAssumption DEF Period
  <2> QED
    BY <1>0, <1>2, <1>n, <2>1, <2>2
<1>3. ASSUME NEW q \in Subject, NEW t \in Token, NEW c \in Actual \ {0}, InsertPending(q, t, c)
      PROVE  logs'[l].per <= now'
  <2>1. CASE l = nlogs + 1
    <3>1. logs'[l].per = now
      BY <1>0, <1>3, <2>1 DEF InsertPending, Table
    <3> QED
      BY <1>0, <1>n, <3>1
  <2>2. CASE l # nlogs + 1
    BY <1>0, <1>2, <1>3, <2>2 DEF InsertPending, Table
  <2> QED
    BY <2>1, <2>2
<1>4. CASE UNCHANGED logs
  BY <1>2, <1>4
<1> QED
  BY <1>1, <1>3, <1>4, LedgerMoves DEF ResetMonth, ledger

\* The request's own step: the precheck admits it into what is left.
LEMMA OwnAdmitted ==
    ASSUME BillingInv, BucketsExact, NEW h \in Holder, Cleared(h), Admitted(h),
           Ends(h) \/ Locks(h) \/ Bills(h), now' = now
    PROVE  Admitted(h)'
<1> DEFINE r == req[h]
           n == req'[h]
<1>0. now \in Period
  BY DEF BillingInv, TypeOK
<1>1. ASSUME n.pc \notin {"upstream", "recording", "resetting"} PROVE Admitted(h)'
  BY <1>1 DEF Admitted
<1>2. CASE Ends(h)
  BY <1>1, <1>2 DEF Ends
<1>3. CASE Locks(h)
  BY <1>1, <1>3 DEF Locks, Goes
<1>4. CASE Bills(h)
  <2>1. ASSUME r.pc = "checking", ~QuotaWouldExceed(r.subj, r.res)
        PROVE  Sum(logs, r.subj, now, Both) + r.res <= WindowLimit
    <3>1. r.subj \in Subject /\ r.res \in Nat
      BY <2>1, IdsAreRows, BoundAssumption DEF Label
    <3>2. \A l \in LogId : Pending(l) => logs[l].subj # r.subj
      BY <2>1 DEF Cleared, Guarding
    <3>3. Sum(logs, r.subj, now, Both) = bucket[r.subj][now]
      BY <1>0, <3>1, <3>2, BucketIsAll
    <3>4. ~(bucket[r.subj][now] + r.res > WindowLimit)
      BY <2>1 DEF QuotaWouldExceed
    <3>5. bucket[r.subj][now] \in Nat /\ WindowLimit \in Nat
      BY <1>0, <3>1, BoundAssumption DEF BillingInv, TypeOK
    <3> QED
      BY <3>1, <3>3, <3>4, <3>5
  <2>2. CASE /\ Goes(h, "checking", "resetting") /\ Quiet
             /\ n.over = QuotaWouldExceed(r.subj, r.res)
    BY <2>1, <2>2 DEF Goes, Quiet, ledger, Admitted
  <2>3. CASE /\ Goes(h, "checking", "upstream") /\ Quiet
             /\ ~QuotaWouldExceed(r.subj, r.res)
    BY <2>1, <2>3 DEF Goes, Quiet, ledger, Admitted
  <2>4. CASE /\ Goes(h, "resetting", "upstream") /\ ~r.over
             /\ ResetMonth(r.subj, r.at)
    BY <2>4 DEF Goes, ResetMonth, Admitted
  <2>5. CASE Goes(h, "upstream", "recording") /\ Quiet
    BY <2>5 DEF Goes, Quiet, ledger, Admitted
  <2>6. CASE n.pc \notin {"upstream", "recording", "resetting"}
    BY <1>1, <2>6
  <2> QED
    BY <1>4, <2>2, <2>3, <2>4, <2>5, <2>6 DEF Bills, Goes
<1> QED
  BY <1>2, <1>3, <1>4

LEMMA AdmittedStep ==
    ASSUME BillingInv, GuardInv, OneGuard, ClearedInv, BucketsExact, RowsArePast, [Next]_vars,
           NEW g \in Holder, Admitted(g)
    PROVE  Admitted(g)'
<1>0. /\ Cleared(g) /\ GuardsFit(g) /\ now \in Period
      /\ req[g].pc \in Label => req[g].subj \in Subject
      /\ req[g].pc \in Guarding => <<g, req[g].subj>> \in held
  BY IdsAreRows DEF ClearedInv, GuardInv, BillingInv, TypeOK, GuardsFit
<1>1. ASSUME NEW h \in Holder, RequestStep(h) \/ Abort(h) PROVE Admitted(g)'
  <2>1. now' = now /\ (Ends(h) \/ Locks(h) \/ Bills(h))
    BY <1>1, RequestMoves
  <2>2. CASE g = h
    BY <1>0, <2>1, <2>2, OwnAdmitted
  <2>3. CASE g # h
    <3>1. req'[g] = req[g]
      BY <1>1, <2>3, OthersUntouched
    <3>2. req[g].pc \in {"upstream", "recording", "resetting"} => Spared(req[g].subj)
      BY <1>0, <1>1, <2>3, SparesOthers DEF Guarding, Label
    <3> QED
      BY <1>0, <2>1, <3>1, <3>2 DEF Admitted, Spared
  <2> QED
    BY <2>2, <2>3
<1>2. CASE ~ \E h \in Holder : RequestStep(h) \/ Abort(h)
  <2>1. UNCHANGED logs
    BY <1>2
    DEF Next, BindToken, SnapshotRead, SnapshotReset, ResetMonth, LeaseStep, CrashInstance,
        NextPeriod, vars, ledger
  <2>2. CASE req'[g].pc \in {"idle", "done"}
    BY <2>2 DEF Admitted
  <2>3. CASE req'[g] = req[g] /\ now' = now
    BY <2>1, <2>3 DEF Admitted
  <2>4. CASE req'[g] = req[g] /\ NextPeriod
    <3>1. now \in Nat /\ now' = now + 1 /\ now' \in Period /\ now' > now
      BY <1>0, <2>4, BoundAssumption DEF NextPeriod, Period
    <3> SUFFICES ASSUME req[g].pc \in {"upstream", "recording"}
                           \/ (req[g].pc = "resetting" /\ ~req[g].over)
                 PROVE  Sum(logs, req[g].subj, now', Both) + req[g].res <= WindowLimit
      BY <2>1, <2>4 DEF Admitted
    <3>2. Sum(logs, req[g].subj, now', Both) = 0
      BY <3>1, FutureIsEmpty
    <3>3. logs \in Table /\ Both \in SUBSET Both
      BY DEF Table, BillingInv, TypeOK
    <3>4. Sum(logs, req[g].subj, now, Both) \in Nat
      BY <3>3, SumNat
    <3>5. Sum(logs, req[g].subj, now, Both) + req[g].res <= WindowLimit
      BY DEF Admitted
    <3>6. req[g].res \in Nat /\ WindowLimit \in Nat
      BY IdsAreRows, BoundAssumption DEF Label
    <3> QED
      BY <3>2, <3>4, <3>5, <3>6
  <2>5. now' = now \/ NextPeriod
    BY <1>2 DEF Next, BindToken, SnapshotRead, SnapshotReset, LeaseStep, CrashInstance, vars
  <2> QED
    BY <1>2, <2>2, <2>3, <2>4, <2>5, OtherSteps
<1> QED
  BY <1>1, <1>2

LEMMA QuotaStep ==
    ASSUME BillingInv, RoomInv, [Next]_vars
    PROVE  QuotaHeld'
<1> SUFFICES ASSUME NEW s \in Subject, NEW p \in Period
             PROVE  Sum(logs', s, p, Both) <= WindowLimit + Overshoot
  BY CreditsAreSum DEF QuotaHeld, Both
<1>0. Sum(logs, s, p, Both) <= WindowLimit + Overshoot
  BY CreditsAreSum DEF RoomInv, QuotaHeld, Both
<1>1. ASSUME NEW l \in LogId, Pending(l), ApplyPending(l)
      PROVE  Sum(logs', s, p, Both) <= WindowLimit + Overshoot
  BY <1>0, <1>1, SumsOfCharge
<1>2. CASE UNCHANGED logs
  BY <1>0, <1>2
<1>3. ASSUME NEW q \in Subject, NEW t \in Token, NEW c \in Actual \ {0}, InsertPending(q, t, c)
      PROVE  Sum(logs', s, p, Both) <= WindowLimit + Overshoot
  <2>1. CASE ~(q = s /\ now = p)
    BY <1>0, <1>3, <2>1, SumsOfRecord
  <2>2. CASE q = s /\ now = p
    <3>0. ~ UNCHANGED ledger /\ ~ UNCHANGED logs /\ nlogs' # nlogs
      <4>1. nlogs \in Nat
        BY BoundAssumption DEF BillingInv, TypeOK, LogId
      <4>2. nlogs' # nlogs
        BY <1>3, <4>1 DEF InsertPending
      <4>3. nlogs + 1 \in LogId /\ nlogs + 1 > nlogs
        BY <1>3, InsertTypes DEF BillingInv, TypeOK, LogId
      <4>4. logs[nlogs + 1].st = "absent" /\ logs'[nlogs + 1].st = "pending"
        BY <1>3, <4>3 DEF BillingInv, RowIdsInOrder, InsertPending, TypeOK
      <4> QED
        BY <4>2, <4>4 DEF ledger
    <3>1. PICK h \in Holder : RequestStep(h) \/ Abort(h)
      BY <3>0
      DEF Next, BindToken, SnapshotRead, SnapshotReset, ResetMonth, LeaseStep, CrashInstance,
          NextPeriod, vars
    <3>2. Ends(h) \/ Locks(h) \/ Bills(h)
      BY <3>1, RequestMoves
    <3>3. /\ req[h].pc = "recording"
          /\ InsertPending(req[h].subj, TokenOf[h], req[h].cr)
      BY <3>0, <3>2 DEF Ends, Locks, Bills, Quiet, ledger, ResetMonth, ApplyPending, Goes
    <3>4. req[h].cr \in Actual \ {0} /\ req[h].subj \in Subject /\ req[h].res \in Reserve
      BY <3>3, IdsAreRows DEF Label
    <3>5. TokenOf[h] \in Token
      BY TokenOfAssumption
    <3>6. CASE req[h].subj = s
      <4>1. Sum(logs', s, p, Both) = Sum(logs, s, p, Both) + req[h].cr
        BY <2>2, <3>3, <3>4, <3>5, <3>6, SumsOfRecord
      <4>2. Sum(logs, s, p, Both) + req[h].res <= WindowLimit
        BY <2>2, <3>3, <3>6 DEF RoomInv, Admitted
      <4>3. req[h].cr - req[h].res <= Overshoot /\ Overshoot \in Nat
        BY <3>4, OvershootBounds
      <4>4. logs \in Table /\ Both \in SUBSET Both
        BY DEF Table, BillingInv, TypeOK
      <4>5. Sum(logs, s, p, Both) \in Nat
        BY <4>4, SumNat
      <4>6. req[h].cr \in Nat /\ req[h].res \in Nat /\ WindowLimit \in Nat
        BY <3>4, BoundAssumption
      <4> QED
        BY <4>1, <4>2, <4>3, <4>5, <4>6
    <3>7. CASE req[h].subj # s
      BY <1>0, <3>3, <3>4, <3>5, <3>7, SumsOfRecord
    <3> QED
      BY <3>6, <3>7
  <2> QED
    BY <2>1, <2>2
<1> QED
  BY <1>1, <1>2, <1>3, LedgerMoves DEF ResetMonth, ledger

LEMMA RoomInit == Init => RoomInv
<1> SUFFICES ASSUME Init PROVE RoomInv
  OBVIOUS
<1>1. RowsArePast
  BY DEF Init, RowsArePast, Both
<1>2. \A h \in Holder : Admitted(h)
  BY DEF Init, Admitted, Idle
<1>3. QuotaHeld
  <2> SUFFICES ASSUME NEW s \in Subject, NEW p \in Period
               PROVE  Sum(logs, s, p, Both) <= WindowLimit + Overshoot
    BY CreditsAreSum DEF QuotaHeld, Both
  <2>1. Both \in SUBSET Both
    OBVIOUS
  <2>2. Sum(logs, s, p, Both) = 0
    BY <2>1, NoCredits
  <2>3. Overshoot \in Nat /\ WindowLimit \in Nat
    BY OvershootBounds, BoundAssumption
  <2> QED
    BY <2>2, <2>3
<1> QED
  BY <1>1, <1>2, <1>3 DEF RoomInv

(* While leases are kept, the recorded credits of a subject, charged or    *)
(* still pending, pass the limit of a period by no more than one response  *)
(* can cost beyond what its request announced: the check and the charge of *)
(* a request are never interleaved with those of another request of the    *)
(* subject, in whatever process it runs, and a crash between them leaves   *)
(* nothing uncounted.                                                      *)
THEOREM QuotaIsHeld == ASSUME LeasesKept PROVE Spec => []QuotaHeld
<1>1. BillingInv /\ GuardInv /\ LockInv /\ KeptInv /\ ClearedInv /\ BucketsExact /\ RoomInv
         /\ [Next]_vars => RoomInv'
  <2> SUFFICES ASSUME BillingInv, GuardInv, LockInv, KeptInv, ClearedInv, BucketsExact,
                      RoomInv, [Next]_vars
               PROVE  RoomInv'
    OBVIOUS
  <2>1. OneGuard
    BY KeptIsOne
  <2>2. RowsArePast'
    BY PastStep DEF RoomInv
  <2>3. \A g \in Holder : Admitted(g)'
    BY <2>1, AdmittedStep DEF RoomInv
  <2>4. QuotaHeld'
    BY QuotaStep
  <2> QED
    BY <2>2, <2>3, <2>4 DEF RoomInv
<1>2. Spec => []KeptInv
  BY KeptInvariant
<1>3. Spec => []ClearedInv
  BY ClearedInvariant
<1>4. Spec => []RoomInv
  BY <1>1, <1>2, <1>3, RoomInit, BillingInvariant, GuardInvariant, BillingLockInvariant,
     BucketsAddUp, PTL DEF Spec
<1>5. RoomInv => QuotaHeld
  BY DEF RoomInv
<1> QED
  BY <1>4, <1>5, PTL

------------------------------------------------------------------------------
(* The monthly count, when no dashboard resets a month without the lock.   *)

\* The month row a request is about to reset is still of an earlier month.
ResetIsDue(h) == req[h].pc = "resetting" => month[req[h].subj].start < req[h].at

\* A month row is at least as late as every charge of its subject.
MonthIsLatest ==
    \A l \in LogId : logs[l].st = "charged" => logs[l].per <= month[logs[l].subj].start

MonthInv == MonthIsLatest /\ MonthExact /\ \A h \in Holder : ResetIsDue(h)

\* No charge of a later month than the row's.
LEMMA NothingLater ==
    ASSUME BillingInv, MonthIsLatest, NEW s \in Subject, NEW p \in Period, month[s].start < p
    PROVE  Sum(logs, s, p, {"charged"}) = 0
<1>1. RowsOf(logs, s, p, {"charged"}) = {}
  <2>1. ASSUME NEW l \in RowsOf(logs, s, p, {"charged"}) PROVE FALSE
    <3>1. p <= month[s].start
      BY <2>1 DEF RowsOf, MonthIsLatest
    <3>2. month[s].start \in Period \cup {0}
      BY DEF BillingInv, TypeOK
    <3>3. p \in Nat /\ month[s].start \in Nat
      BY <3>2, BoundAssumption DEF Period
    <3> QED
      BY <3>1, <3>3
  <2> QED
    BY <2>1
<1> QED
  BY <1>1, TotalEmpty DEF Sum

\* A charge keeps both: the row moves to the month of the charge or stays.
LEMMA ChargeKeepsMonth ==
    ASSUME BillingInv, MonthIsLatest, MonthExact, NEW k \in LogId, Pending(k), ApplyPending(k)
    PROVE  MonthIsLatest' /\ MonthExact'
<1> DEFINE e == logs[k]
           m == month[logs[k].subj]
           x == month'[logs[k].subj]
<1>1. e \in Accounts!Entry /\ e.st = "pending"
  BY MonthOfCharge DEF Pending
<1>2. e.subj \in Subject /\ e.per \in Period /\ e.cr \in Actual
  BY <1>1
<1>p. Period \subseteq Nat /\ Actual \subseteq Nat
  BY BoundAssumption DEF Period
<1>3. m \in [start : Period \cup {0}, count : Nat]
  BY <1>2 DEF BillingInv, TypeOK
<1>4. x = AddToMonth(m, e.per, e.cr)
  BY MonthOfCharge
<1>5. \A s \in Subject : s # e.subj => month'[s] = month[s]
  BY MonthOfCharge
<1>6. /\ \A l \in LogId : l # k => logs'[l] = logs[l]
      /\ logs'[k].per = e.per /\ logs'[k].subj = e.subj
  <2>1. logs' = [logs EXCEPT ![k] = [e EXCEPT !.st = "charged"]]
    BY DEF ApplyPending, BillingInv, TypeOK
  <2>2. logs'[k] = [e EXCEPT !.st = "charged"]
    BY <2>1 DEF BillingInv, TypeOK
  <2>3. \A l \in LogId : l # k => logs'[l] = logs[l]
    BY <2>1 DEF BillingInv, TypeOK
  <2> HIDE DEF e
  <2>4. [e EXCEPT !.st = "charged"].per = e.per /\ [e EXCEPT !.st = "charged"].subj = e.subj
    BY <1>1
  <2> QED
    BY <2>2, <2>3, <2>4
<1>s. \A s \in Subject, p \in Period :
         /\ e.subj = s /\ e.per = p =>
               Sum(logs', s, p, {"charged"}) = Sum(logs, s, p, {"charged"}) + e.cr
         /\ ~(e.subj = s /\ e.per = p) =>
               Sum(logs', s, p, {"charged"}) = Sum(logs, s, p, {"charged"})
  BY SumsOfCharge
<1>o. \A p \in Period : m.start = p => m.count = Sum(logs, e.subj, p, {"charged"})
  BY <1>2, CreditsAreSum DEF MonthExact
<1>z. ASSUME m.start < e.per PROVE Sum(logs, e.subj, e.per, {"charged"}) = 0
  BY <1>2, <1>z, NothingLater
<1>w. \A l \in LogId : logs[l].st = "charged" /\ logs[l].subj = e.subj => logs[l].per <= m.start
  BY DEF MonthIsLatest
<1> HIDE DEF e, m, x
<1>a. e.per \in Nat /\ e.cr \in Nat /\ m.start \in Nat /\ m.count \in Nat
  <2>1. m.start \in Period \cup {0} /\ m.count \in Nat
    BY <1>3
  <2>2. e.per \in Nat /\ e.cr \in Nat
    BY <1>2, <1>p
  <2>3. Period \cup {0} \subseteq Nat
    BY <1>p
  <2>4. m.start \in Nat
    BY <2>1, <2>3, Zenon
  <2> QED
    BY <2>1, <2>2, <2>4
<1>7. /\ e.per > m.start => x.start = e.per /\ x.count = e.cr
      /\ e.per < m.start => x = m
      /\ e.per = m.start => x.start = e.per /\ x.count = m.count + e.cr
  BY <1>2, <1>3, <1>4, <1>a, AddedMonth
<1>8. x.start \in Nat /\ x.start >= m.start /\ x.start >= e.per
  BY <1>7, <1>a
<1>9. MonthIsLatest'
  <2> SUFFICES ASSUME NEW l \in LogId, logs'[l].st = "charged"
               PROVE  logs'[l].per <= month'[logs'[l].subj].start
    BY DEF MonthIsLatest
  <2>1. CASE l = k
    BY <1>6, <1>8, <1>a, <2>1 DEF x, e
  <2>2. CASE l # k
    <3>1. logs'[l] = logs[l] /\ logs[l].st = "charged"
      BY <1>6, <2>2
    <3>2. logs[l].subj \in Subject /\ logs[l].per \in Period
      <4>1. logs \in Table
        BY DEF Table, BillingInv, TypeOK
      <4> QED
        BY <3>1, <4>1, RowCredit DEF Both
    <3>3. CASE logs[l].subj = e.subj
      <4>1. logs[l].per <= m.start /\ logs[l].per \in Nat
        BY <1>p, <1>w, <3>1, <3>2, <3>3
      <4>2. logs[l].per <= x.start
        BY <1>8, <1>a, <4>1
      <4> QED
        BY <3>1, <3>3, <4>2 DEF x, e
    <3>4. CASE logs[l].subj # e.subj
      <4>1. month'[logs[l].subj] = month[logs[l].subj]
        BY <1>5, <3>2, <3>4
      <4> QED
        BY <3>1, <4>1 DEF MonthIsLatest
    <3> QED
      BY <3>3, <3>4
  <2> QED
    BY <2>1, <2>2
<1>10. MonthExact'
  <2> SUFFICES ASSUME NEW s \in Subject, NEW p \in Period, month'[s].start = p
               PROVE  month'[s].count = Sum(logs', s, p, {"charged"})
    BY CreditsAreSum DEF MonthExact
  <2>1. CASE s # e.subj
    <3>1. month'[s] = month[s]
      BY <1>5, <2>1
    <3>2. month[s].count = Sum(logs, s, p, {"charged"})
      BY <3>1, CreditsAreSum DEF MonthExact
    <3> QED
      BY <1>s, <2>1, <3>1, <3>2
  <2>2. CASE s = e.subj
    <3>1. x.start = p /\ month'[s] = x
      BY <2>2 DEF x, e
    <3>2. CASE e.per > m.start
      <4>1. p = e.per /\ x.count = e.cr
        BY <1>7, <3>1, <3>2
      <4>2. Sum(logs, s, p, {"charged"}) = 0
        BY <1>a, <1>z, <2>2, <3>2, <4>1
      <4>3. Sum(logs', s, p, {"charged"}) = Sum(logs, s, p, {"charged"}) + e.cr
        BY <1>s, <2>2, <4>1
      <4> QED
        BY <1>a, <3>1, <4>1, <4>2, <4>3
    <3>3. CASE e.per < m.start
      <4>1. x = m /\ p # e.per
        BY <1>7, <1>a, <3>1, <3>3
      <4> QED
        BY <1>o, <1>s, <2>2, <3>1, <4>1
    <3>4. CASE e.per = m.start
      <4>1. p = e.per /\ x.count = m.count + e.cr
        BY <1>7, <3>1, <3>4
      <4> QED
        BY <1>o, <1>s, <2>2, <3>1, <3>4, <4>1
    <3> QED
      BY <1>a, <3>2, <3>3, <3>4
  <2> QED
    BY <2>1, <2>2
<1> QED
  BY <1>9, <1>10

\* A reset that is due keeps both: nothing was charged for the new month yet.
LEMMA ResetKeepsMonth ==
    ASSUME BillingInv, MonthIsLatest, MonthExact, NEW q \in Subject, NEW m \in Period,
           ResetMonth(q, m), month[q].start < m
    PROVE  MonthIsLatest' /\ MonthExact'
<1>1. /\ logs' = logs /\ month'[q].start = m /\ month'[q].count = 0
      /\ \A s \in Subject : s # q => month'[s] = month[s]
  BY DEF ResetMonth, BillingInv, TypeOK
<1>2. month[q].start \in Nat /\ m \in Nat
  <2>1. month[q].start \in Period \cup {0}
    BY DEF BillingInv, TypeOK
  <2> QED
    BY <2>1, BoundAssumption DEF Period
<1>3. MonthIsLatest'
  <2> SUFFICES ASSUME NEW l \in LogId, logs[l].st = "charged"
               PROVE  logs[l].per <= month'[logs[l].subj].start
    BY <1>1 DEF MonthIsLatest
  <2>1. logs[l].subj \in Subject /\ logs[l].per \in Period
    <3>1. logs \in Table
      BY DEF Table, BillingInv, TypeOK
    <3> QED
      BY <3>1, RowCredit DEF Both
  <2>2. logs[l].per <= month[logs[l].subj].start
    BY DEF MonthIsLatest
  <2>3. logs[l].per \in Nat
    BY <2>1, BoundAssumption DEF Period
  <2>4. CASE logs[l].subj = q
    <3>1. logs[l].per <= month[q].start
      BY <2>2, <2>4
    <3>2. logs[l].per <= m
      BY <1>2, <2>3, <3>1
    <3> QED
      BY <1>1, <2>4, <3>2
  <2>5. CASE logs[l].subj # q
    BY <1>1, <2>1, <2>2, <2>5
  <2> QED
    BY <2>4, <2>5
<1>4. MonthExact'
  <2> SUFFICES ASSUME NEW s \in Subject, NEW p \in Period, month'[s].start = p
               PROVE  month'[s].count = Sum(logs', s, p, {"charged"})
    BY CreditsAreSum DEF MonthExact
  <2>1. CASE s = q
    <3>1. Sum(logs, s, p, {"charged"}) = 0
      BY <1>1, <2>1, NothingLater
    <3> QED
      BY <1>1, <2>1, <3>1
  <2>2. CASE s # q
    BY <1>1, <2>2, CreditsAreSum DEF MonthExact
  <2> QED
    BY <2>1, <2>2
<1> QED
  BY <1>3, <1>4

LEMMA MonthExactStep ==
    ASSUME Observer = {}, BillingInv, MonthInv, [Next]_vars
    PROVE  MonthIsLatest' /\ MonthExact'
<1>0. MonthIsLatest /\ MonthExact
  BY DEF MonthInv
<1>1. ASSUME NEW l \in LogId, Pending(l), ApplyPending(l) PROVE MonthIsLatest' /\ MonthExact'
  BY <1>0, <1>1, ChargeKeepsMonth
<1>2. CASE UNCHANGED ledger
  <2>1. MonthIsLatest'
    BY <1>0, <1>2 DEF ledger, MonthIsLatest
  <2>2. MonthExact'
    BY <1>0, <1>2, CreditsAreSum DEF ledger, MonthExact
  <2> QED
    BY <2>1, <2>2
<1>3. ASSUME NEW q \in Subject, NEW t \in Token, NEW c \in Actual \ {0}, InsertPending(q, t, c)
      PROVE  MonthIsLatest' /\ MonthExact'
  <2>1. logs \in Table /\ month' = month
    BY <1>3 DEF Table, BillingInv, TypeOK, InsertPending
  <2>2. \A l \in LogId : logs'[l].st = "charged" => logs'[l] = logs[l]
    BY <1>3, <2>1 DEF InsertPending, Table
  <2>3. MonthIsLatest'
    BY <1>0, <2>1, <2>2 DEF MonthIsLatest
  <2>4. MonthExact'
    <3> SUFFICES ASSUME NEW s \in Subject, NEW p \in Period, month'[s].start = p
                 PROVE  month'[s].count = Sum(logs', s, p, {"charged"})
      BY CreditsAreSum DEF MonthExact
    <3>1. month[s].count = Sum(logs, s, p, {"charged"})
      BY <1>0, <2>1, CreditsAreSum DEF MonthExact
    <3>2. Sum(logs', s, p, {"charged"}) = Sum(logs, s, p, {"charged"})
      BY <1>3, SumsOfRecord
    <3> QED
      BY <2>1, <3>1, <3>2
  <2> QED
    BY <2>3, <2>4
<1>4. ASSUME NEW h \in Holder, RequestStep(h) \/ Abort(h) PROVE MonthIsLatest' /\ MonthExact'
  <2>1. Ends(h) \/ Locks(h) \/ Bills(h)
    BY <1>4, RequestMoves
  <2>2. CASE req[h].pc = "resetting" /\ ResetMonth(req[h].subj, req[h].at)
    <3>1. req[h].subj \in Subject /\ req[h].at \in Period
      BY <2>2, IdsAreRows DEF Label
    <3>2. month[req[h].subj].start < req[h].at
      BY <2>2 DEF MonthInv, ResetIsDue
    <3> QED
      BY <1>0, <2>2, <3>1, <3>2, ResetKeepsMonth
  <2>3. ASSUME NEW l, l \in LogId, ApplyPending(l) PROVE MonthIsLatest' /\ MonthExact'
    BY <1>1, <1>2, <2>3 DEF ApplyPending
  <2>4. \/ UNCHANGED ledger
        \/ req[h].pc = "resetting" /\ ResetMonth(req[h].subj, req[h].at)
        \/ /\ req[h].pc = "replaying" /\ Min(req[h].ids) \in req[h].ids
           /\ ApplyPending(Min(req[h].ids))
        \/ req[h].pc = "settling" /\ ApplyPending(req[h].log)
        \/ req[h].pc = "recording" /\ InsertPending(req[h].subj, TokenOf[h], req[h].cr)
    BY <2>1 DEF Ends, Locks, Bills, Quiet, Goes
  <2>5. TokenOf[h] \in Token
    BY TokenOfAssumption
  <2>6. CASE /\ req[h].pc = "replaying" /\ Min(req[h].ids) \in req[h].ids
             /\ ApplyPending(Min(req[h].ids))
    BY <2>3, <2>6, IdsAreRows
  <2>7. CASE req[h].pc = "settling" /\ ApplyPending(req[h].log)
    BY <2>3, <2>7, IdsAreRows
  <2>8. CASE req[h].pc = "recording" /\ InsertPending(req[h].subj, TokenOf[h], req[h].cr)
    <3>1. req[h].subj \in Subject /\ req[h].cr \in Actual \ {0}
      BY <2>8, IdsAreRows DEF Label
    <3> QED
      BY <1>3, <2>5, <2>8, <3>1
  <2> QED
    BY <1>2, <2>2, <2>4, <2>6, <2>7, <2>8
<1>5. CASE ~ \E h \in Holder : RequestStep(h) \/ Abort(h)
  <2>1. UNCHANGED ledger
    BY <1>5 DEF Next, BindToken, LeaseStep, CrashInstance, NextPeriod, vars
  <2> QED
    BY <1>2, <2>1
<1> QED
  BY <1>4, <1>5

LEMMA ResetDueStep ==
    ASSUME Observer = {}, BillingInv, GuardInv, OneGuard, MonthInv, [Next]_vars,
           NEW g \in Holder
    PROVE  ResetIsDue(g)'
<1>0. /\ ResetIsDue(g) /\ GuardsFit(g)
      /\ req[g].pc \in Label => req[g].subj \in Subject
  BY IdsAreRows DEF MonthInv, GuardInv
<1>1. ASSUME NEW h \in Holder, RequestStep(h) \/ Abort(h) PROVE ResetIsDue(g)'
  <2>1. CASE g = h
    <3>1. CASE Goes(h, "checking", "resetting") /\ Quiet
                  /\ StaleMonth(req[h].subj) /\ req'[h].at = now
      BY <2>1, <3>1 DEF Goes, Quiet, ledger, StaleMonth, ResetIsDue
    <3>2. CASE req'[h].pc # "resetting"
      BY <2>1, <3>2 DEF ResetIsDue
    <3>3. Ends(h) \/ Locks(h) \/ Bills(h)
      BY <1>1, RequestMoves
    <3> QED
      BY <3>1, <3>2, <3>3 DEF Ends, Locks, Bills, Goes
  <2>2. CASE g # h
    <3>1. req'[g] = req[g]
      BY <1>1, <2>2, OthersUntouched
    <3>2. req[g].pc = "resetting" => Spared(req[g].subj)
      BY <1>0, <1>1, <2>2, SparesOthers DEF GuardsFit, Guarding, Label
    <3> QED
      BY <1>0, <3>1, <3>2 DEF ResetIsDue, Spared
  <2> QED
    BY <2>1, <2>2
<1>2. CASE ~ \E h \in Holder : RequestStep(h) \/ Abort(h)
  <2>1. UNCHANGED ledger
    BY <1>2 DEF Next, BindToken, LeaseStep, CrashInstance, NextPeriod, vars
  <2>2. CASE req'[g].pc \in {"idle", "done"}
    BY <2>2 DEF ResetIsDue
  <2>3. CASE req'[g] = req[g]
    BY <1>0, <2>1, <2>3 DEF ResetIsDue, ledger
  <2> QED
    BY <1>2, <2>2, <2>3, OtherSteps
<1> QED
  BY <1>1, <1>2

(* While leases are kept and no dashboard snapshot resets a month outside  *)
(* the lock, the monthly count of a subject is exactly what was charged    *)
(* for its month: the reset of the precheck, two statements with the       *)
(* network between them, never wipes out a charge.                         *)
THEOREM MonthsAddUp == ASSUME LeasesKept, Observer = {} PROVE Spec => []MonthExact
<1>1. Init => MonthInv
  BY BoundAssumption
  DEF Init, MonthInv, MonthIsLatest, MonthExact, ResetIsDue, Idle, Period
<1>2. BillingInv /\ GuardInv /\ LockInv /\ KeptInv /\ MonthInv /\ [Next]_vars => MonthInv'
  <2> SUFFICES ASSUME BillingInv, GuardInv, LockInv, KeptInv, MonthInv, [Next]_vars
               PROVE  MonthInv'
    OBVIOUS
  <2>1. OneGuard
    BY KeptIsOne
  <2>2. MonthIsLatest' /\ MonthExact'
    BY MonthExactStep
  <2>3. \A g \in Holder : ResetIsDue(g)'
    BY <2>1, ResetDueStep
  <2> QED
    BY <2>2, <2>3 DEF MonthInv
<1>3. Spec => []KeptInv
  BY KeptInvariant
<1>4. MonthInv => MonthExact
  BY DEF MonthInv
<1> QED
  BY <1>1, <1>2, <1>3, <1>4, BillingInvariant, GuardInvariant, BillingLockInvariant, PTL
  DEF Spec

==============================================================================
