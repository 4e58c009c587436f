-------------------------- MODULE SubjectLockProofs --------------------------
(* Proofs about SubjectLock, for any number of processes, requests and     *)
(* subjects.                                                               *)
EXTENDS SubjectLock, TLAPS

\* A pair is in at most one stage: looping for the row, guarded, releasing.
OneStage ==
    \A h \in Holder, s \in Subject :
        /\ ~(<<h, s>> \in trying /\ <<h, s>> \in held)
        /\ <<h, s>> \in releasing => <<h, s>> \notin trying \cup held

(* The inductive invariant.  GuardOwnsRow alone is not inductive: a late   *)
(* release of a pair that has a guard again would delete the guard's row,  *)
(* which OneStage excludes; OneStage needs the mutex.                      *)
LockInv == LockTypeOK /\ MutexHeld /\ OneStage /\ GuardOwnsRow

LEMMA LockInitInv == LockInit => LockInv
  BY InstanceOfAssumption, NoHolderAssumption
  DEF LockInit, LockInv, LockTypeOK, MutexHeld, OneStage, GuardOwnsRow, Pair

LEMMA LockTypeStep == LockTypeOK /\ [LockNext]_lockVars => LockTypeOK'
<1> SUFFICES ASSUME LockTypeOK, [LockNext]_lockVars PROVE LockTypeOK'
  OBVIOUS
<1> USE InstanceOfAssumption, NoHolderAssumption DEF LockTypeOK, Pair
<1>1. ASSUME NEW h \in Holder, NEW s \in Subject, LockLocal(h, s)
      PROVE  LockTypeOK'
  BY <1>1 DEF LockLocal
<1>2. ASSUME NEW h \in Holder, NEW s \in Subject, AcquireRow(h, s)
      PROVE  LockTypeOK'
  BY <1>2 DEF AcquireRow, InsertRow, WriteExpiry, GuardOfRow
<1>3. ASSUME NEW h \in Holder, NEW s \in Subject, AbandonInsert(h, s)
      PROVE  LockTypeOK'
  BY <1>3 DEF AbandonInsert, InsertRow, WriteExpiry, GuardOfRow, FreeMutexes, Of
<1>4. ASSUME NEW h \in Holder, NEW s \in Subject, Release(h, s)
      PROVE  LockTypeOK'
  BY <1>4 DEF Release
<1>5. ASSUME NEW h \in Holder, NEW s \in Subject, ReleaseFails(h, s)
      PROVE  LockTypeOK'
  BY <1>5 DEF ReleaseFails
<1>6. ASSUME NEW h \in Holder, NEW s \in Subject, Refresh(h, s)
      PROVE  LockTypeOK'
  BY <1>6 DEF Refresh, WriteExpiry
<1>7. ASSUME NEW h \in Holder, NEW s \in Subject, GiveUpLease(h, s)
      PROVE  LockTypeOK'
  BY <1>7 DEF GiveUpLease
<1>8. ASSUME NEW h \in Holder, NEW S \in SUBSET Subject, DropGuards(h, S)
      PROVE  LockTypeOK'
  BY <1>8 DEF DropGuards, FreeMutexes, Of
<1>9. ASSUME NEW S \in SUBSET Subject, Expire(S) PROVE LockTypeOK'
  BY <1>9 DEF Expire
<1>10. ASSUME NEW i \in Instance, Crash(i) PROVE LockTypeOK'
  BY <1>10 DEF Crash
<1>11. CASE UNCHANGED lockVars
  BY <1>11 DEF lockVars
<1> QED
  BY <1>1, <1>2, <1>3, <1>4, <1>5, <1>6, <1>7, <1>8, <1>9, <1>10, <1>11
  DEF LockNext

\* Only the holder itself, or the death of its process, frees its mutex.
LEMMA MutexStep ==
    LockInv /\ [LockNext]_lockVars => MutexHeld'
<1> SUFFICES ASSUME LockInv, [LockNext]_lockVars PROVE MutexHeld'
  OBVIOUS
<1> USE InstanceOfAssumption, NoHolderAssumption
    DEF LockInv, LockTypeOK, Pair, MutexHeld
<1>1. ASSUME NEW h \in Holder, NEW s \in Subject, LockLocal(h, s)
      PROVE  MutexHeld'
  BY <1>1 DEF LockLocal
<1>2. ASSUME NEW h \in Holder, NEW s \in Subject, AcquireRow(h, s)
      PROVE  MutexHeld'
  BY <1>2 DEF AcquireRow, InsertRow, WriteExpiry, GuardOfRow
<1>3. ASSUME NEW h \in Holder, NEW s \in Subject, AbandonInsert(h, s)
      PROVE  MutexHeld'
  BY <1>3 DEF AbandonInsert, InsertRow, WriteExpiry, GuardOfRow, FreeMutexes, Of
<1>4. ASSUME NEW h \in Holder, NEW s \in Subject, Release(h, s)
      PROVE  MutexHeld'
  BY <1>4 DEF Release
<1>5. ASSUME NEW h \in Holder, NEW s \in Subject, ReleaseFails(h, s)
      PROVE  MutexHeld'
  BY <1>5 DEF ReleaseFails
<1>6. ASSUME NEW h \in Holder, NEW s \in Subject, Refresh(h, s)
      PROVE  MutexHeld'
  BY <1>6 DEF Refresh, WriteExpiry
<1>7. ASSUME NEW h \in Holder, NEW s \in Subject, GiveUpLease(h, s)
      PROVE  MutexHeld'
  BY <1>7 DEF GiveUpLease
<1>8. ASSUME NEW h \in Holder, NEW S \in SUBSET Subject, DropGuards(h, S)
      PROVE  MutexHeld'
  BY <1>8 DEF DropGuards, FreeMutexes, Of
<1>9. ASSUME NEW S \in SUBSET Subject, Expire(S) PROVE MutexHeld'
  BY <1>9 DEF Expire
<1>10. ASSUME NEW i \in Instance, Crash(i) PROVE MutexHeld'
  BY <1>10 DEF Crash
<1>11. CASE UNCHANGED lockVars
  BY <1>11 DEF lockVars
<1> QED
  BY <1>1, <1>2, <1>3, <1>4, <1>5, <1>6, <1>7, <1>8, <1>9, <1>10, <1>11
  DEF LockNext

\* The mutex is free only when no holder of the process is in a stage.
LEMMA StageStep ==
    LockInv /\ [LockNext]_lockVars => OneStage'
<1> SUFFICES ASSUME LockInv, [LockNext]_lockVars PROVE OneStage'
  OBVIOUS
<1> USE InstanceOfAssumption, NoHolderAssumption
    DEF LockInv, LockTypeOK, Pair, MutexHeld, OneStage
<1>1. ASSUME NEW h \in Holder, NEW s \in Subject, LockLocal(h, s)
      PROVE  OneStage'
  BY <1>1 DEF LockLocal
<1>2. ASSUME NEW h \in Holder, NEW s \in Subject, AcquireRow(h, s)
      PROVE  OneStage'
  BY <1>2 DEF AcquireRow, InsertRow, WriteExpiry, GuardOfRow
<1>3. ASSUME NEW h \in Holder, NEW s \in Subject, AbandonInsert(h, s)
      PROVE  OneStage'
  BY <1>3 DEF AbandonInsert, InsertRow, WriteExpiry, GuardOfRow, FreeMutexes, Of
<1>4. ASSUME NEW h \in Holder, NEW s \in Subject, Release(h, s)
      PROVE  OneStage'
  BY <1>4 DEF Release
<1>5. ASSUME NEW h \in Holder, NEW s \in Subject, ReleaseFails(h, s)
      PROVE  OneStage'
  BY <1>5 DEF ReleaseFails
<1>6. ASSUME NEW h \in Holder, NEW s \in Subject, Refresh(h, s)
      PROVE  OneStage'
  BY <1>6 DEF Refresh, WriteExpiry
<1>7. ASSUME NEW h \in Holder, NEW s \in Subject, GiveUpLease(h, s)
      PROVE  OneStage'
  BY <1>7 DEF GiveUpLease
<1>8. ASSUME NEW h \in Holder, NEW S \in SUBSET Subject, DropGuards(h, S)
      PROVE  OneStage'
  BY <1>8 DEF DropGuards, FreeMutexes, Of
<1>9. ASSUME NEW S \in SUBSET Subject, Expire(S) PROVE OneStage'
  BY <1>9 DEF Expire
<1>10. ASSUME NEW i \in Instance, Crash(i) PROVE OneStage'
  BY <1>10 DEF Crash
<1>11. CASE UNCHANGED lockVars
  BY <1>11 DEF lockVars
<1> QED
  BY <1>1, <1>2, <1>3, <1>4, <1>5, <1>6, <1>7, <1>8, <1>9, <1>10, <1>11
  DEF LockNext

\* A row changes hands only by a release of its owner or by a take-over.
LEMMA RowStep ==
    LockInv /\ [LockNext]_lockVars => GuardOwnsRow'
<1> SUFFICES ASSUME LockInv, [LockNext]_lockVars PROVE GuardOwnsRow'
  OBVIOUS
<1> USE InstanceOfAssumption, NoHolderAssumption
    DEF LockInv, LockTypeOK, Pair, OneStage, GuardOwnsRow
<1>1. ASSUME NEW h \in Holder, NEW s \in Subject, LockLocal(h, s)
      PROVE  GuardOwnsRow'
  BY <1>1 DEF LockLocal
<1>2. ASSUME NEW h \in Holder, NEW s \in Subject, AcquireRow(h, s)
      PROVE  GuardOwnsRow'
  BY <1>2 DEF AcquireRow, InsertRow, WriteExpiry, GuardOfRow
<1>3. ASSUME NEW h \in Holder, NEW s \in Subject, AbandonInsert(h, s)
      PROVE  GuardOwnsRow'
  BY <1>3 DEF AbandonInsert, InsertRow, WriteExpiry, GuardOfRow, FreeMutexes, Of
<1>4. ASSUME NEW h \in Holder, NEW s \in Subject, Release(h, s)
      PROVE  GuardOwnsRow'
  BY <1>4 DEF Release
<1>5. ASSUME NEW h \in Holder, NEW s \in Subject, ReleaseFails(h, s)
      PROVE  GuardOwnsRow'
  BY <1>5 DEF ReleaseFails
<1>6. ASSUME NEW h \in Holder, NEW s \in Subject, Refresh(h, s)
      PROVE  GuardOwnsRow'
  BY <1>6 DEF Refresh, WriteExpiry
<1>7. ASSUME NEW h \in Holder, NEW s \in Subject, GiveUpLease(h, s)
      PROVE  GuardOwnsRow'
  BY <1>7 DEF GiveUpLease
<1>8. ASSUME NEW h \in Holder, NEW S \in SUBSET Subject, DropGuards(h, S)
      PROVE  GuardOwnsRow'
  BY <1>8 DEF DropGuards, FreeMutexes, Of
<1>9. ASSUME NEW S \in SUBSET Subject, Expire(S) PROVE GuardOwnsRow'
  BY <1>9 DEF Expire
<1>10. ASSUME NEW i \in Instance, Crash(i) PROVE GuardOwnsRow'
  BY <1>10 DEF Crash
<1>11. CASE UNCHANGED lockVars
  BY <1>11 DEF lockVars
<1> QED
  BY <1>1, <1>2, <1>3, <1>4, <1>5, <1>6, <1>7, <1>8, <1>9, <1>10, <1>11
  DEF LockNext

LEMMA LockInvariant == LockSpec => []LockInv
<1>1. LockInit => LockInv
  BY LockInitInv
<1>2. LockInv /\ [LockNext]_lockVars => LockInv'
  BY LockTypeStep, MutexStep, StageStep, RowStep DEF LockInv
<1> QED
  BY <1>1, <1>2, PTL DEF LockSpec

(* The variables of the lock keep their types.                             *)
THEOREM LockTypeCorrect == LockSpec => []LockTypeOK
<1>1. LockInv => LockTypeOK
  BY DEF LockInv
<1> QED
  BY <1>1, LockInvariant, PTL

(* A guard owns its row until the row expires and another owner takes it.  *)
THEOREM GuardsOwnRows == LockSpec => []GuardOwnsRow
<1>1. LockInv => GuardOwnsRow
  BY DEF LockInv
<1> QED
  BY <1>1, LockInvariant, PTL

(* Two guards on a subject: different processes, and one lease taken over. *)
THEOREM Serialization == LockSpec => []SerializedUnlessStolen
<1>1. LockInv => SerializedUnlessStolen
  <2> SUFFICES ASSUME LockInv,
                      NEW g \in Holder, NEW h \in Holder, NEW s \in Subject,
                      <<g, s>> \in held, <<h, s>> \in held, g # h
               PROVE  /\ InstanceOf[g] # InstanceOf[h]
                      /\ <<g, s>> \in stolen \/ <<h, s>> \in stolen
    BY DEF SerializedUnlessStolen
  <2>1. InstanceOf[g] # InstanceOf[h]
    BY DEF LockInv, MutexHeld
  <2>2. <<g, s>> \in stolen \/ <<h, s>> \in stolen
    BY DEF LockInv, GuardOwnsRow
  <2> QED
    BY <2>1, <2>2
<1> QED
  BY <1>1, LockInvariant, PTL
==============================================================================
