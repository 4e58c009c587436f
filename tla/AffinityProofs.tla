---------------------------- MODULE AffinityProofs ----------------------------
(* Proofs about Affinity and the key pool, for any number of processes,    *)
(* requests, tokens, users, keys and sessions.                             *)
EXTENDS Affinity, TLAPS

------------------------------------------------------------------------------
(* The inductive invariant.                                                *)

WithKey == {"sync", "rebind", "revoke", "pinned", "unpin", "upstream",
            "opening", "touching"}
OfSession == {"pinned", "unpin", "upstream", "touching"}

\* The local variables q of a request fit the place it has reached and the
\* sessions there are.
Fits(q, sessions) ==
    /\ q \in Active \cup {Idle}
    /\ q.pc = "user" => q.user \in User
    /\ q.pc \in WithKey => q.key \in Key
    /\ q.pc \in {"pinned", "unpin", "touching"} => q.sess # 0
    /\ q.pc # "idle" /\ q.sess # 0 =>
          /\ q.pc \in OfSession
          /\ sessions[q.sess].st # "absent"
          /\ q.key = sessions[q.sess].key
          /\ q.tok = sessions[q.sess].tok
          /\ q.opens = FALSE

RequestOK == \A r \in Slot : Fits(req[r], session)

\* A row of a token names only the user the token is bound to, so that
\* synchronizing that user reaches the row.
RowsNameBinding ==
    \A t \in Token : tokenKey[t].user # None => tokenKey[t].user = binding[t]

\* What the monthly reset makes active was exhausted, never disabled.
ResetsExhausted == \A k \in lastMonth : status[k] = "exhausted"

AffinityInv ==
    /\ TypeOK
    /\ RequestOK
    /\ RowsNameBinding
    /\ RowsAgree
    /\ ResetsExhausted

LEMMA AffinityInitInv == Init => AffinityInv
<1> SUFFICES ASSUME Init PROVE AffinityInv
  OBVIOUS
<1>1. TypeOK
  BY DEF Init, PoolInit, TypeOK, PoolTypeOK, MaybeUser, MaybeKey, NoRow
<1>2. RequestOK
  BY DEF Init, RequestOK, Fits, Idle, WithKey
<1>3. RowsNameBinding /\ RowsAgree
  BY NoneAssumption DEF Init, RowsNameBinding, RowsAgree, NoRow
<1>4. ResetsExhausted
  BY DEF Init, PoolInit, ResetsExhausted
<1> QED
  BY <1>1, <1>2, <1>3, <1>4 DEF AffinityInv

------------------------------------------------------------------------------
(* The key pool.                                                           *)

PoolInv == PoolTypeOK /\ ResetsExhausted

LEMMA SetStatusPool ==
    ASSUME PoolInv, NEW k \in Key,
           NEW st \in {"active", "exhausted", "disabled"}, SetStatus(k, st)
    PROVE  PoolInv'
  BY DEF PoolInv, PoolTypeOK, ResetsExhausted, SetStatus

LEMMA ResetMonthlyPool ==
    ASSUME PoolInv, ResetMonthly
    PROVE  /\ PoolInv'
           /\ \A k \in Key : Usable(k)' <=> Usable(k)
<1>1. PoolInv'
  BY DEF PoolInv, PoolTypeOK, ResetsExhausted, ResetMonthly
<1>2. \A k \in Key : status'[k] = "disabled" <=> status[k] = "disabled"
  BY DEF PoolInv, PoolTypeOK, ResetsExhausted, ResetMonthly
<1> QED
  BY <1>1, <1>2 DEF Usable, ResetMonthly

\* An answer of the upstream never makes a key usable that was not.
LEMMA ReconcilePool ==
    ASSUME PoolInv, NEW x \in Key, NEW a \in KeyHealthAction,
           ReconcileKeyHealth(x, a)
    PROVE  /\ PoolInv'
           /\ \A k \in Key : Usable(k)' => Usable(k)
<1>1. CASE UNCHANGED poolVars
  BY <1>1 DEF poolVars, PoolInv, PoolTypeOK, ResetsExhausted, Usable
<1>2. CASE status[x] = "exhausted" /\ SetStatus(x, "active")
  <2>1. PoolInv'
    BY <1>2, SetStatusPool
  <2> QED
    BY <1>2, <2>1 DEF PoolInv, PoolTypeOK, SetStatus, Usable
<1>3. CASE status[x] # "disabled" /\ SetStatus(x, "exhausted")
  <2>1. PoolInv'
    BY <1>3, SetStatusPool
  <2> QED
    BY <1>3, <2>1 DEF PoolInv, PoolTypeOK, SetStatus, Usable
<1>4. CASE QuarantineKey(x)
  BY <1>4 DEF QuarantineKey, PoolInv, PoolTypeOK, ResetsExhausted, Usable
<1> QED
  BY <1>1, <1>2, <1>3, <1>4
  DEF ReconcileKeyHealth, RestoreActiveStatus, MarkQuotaExhausted

LEMMA AdminPool ==
    ASSUME PoolInv, NEW x \in Key, AdminStep(x)
    PROVE  /\ PoolInv'
           /\ \A k \in Key \ {x} : Usable(k)' <=> Usable(k)
<1>1. CASE SetStatus(x, "disabled") \/ SetStatus(x, "active")
  <2>1. PoolInv'
    BY <1>1, SetStatusPool
  <2> QED
    BY <1>1, <2>1 DEF PoolInv, PoolTypeOK, SetStatus, Usable
<1>2. CASE SoftDeleteKey(x)
  BY <1>2 DEF SoftDeleteKey, PoolInv, PoolTypeOK, ResetsExhausted, Usable
<1>3. CASE UndeleteKey(x)
  BY <1>3 DEF UndeleteKey, PoolInv, PoolTypeOK, ResetsExhausted, Usable
<1>4. CASE ClearKeyQuarantine(x)
  BY <1>4 DEF ClearKeyQuarantine, PoolInv, PoolTypeOK, ResetsExhausted, Usable
<1> QED
  BY <1>1, <1>2, <1>3, <1>4 DEF AdminStep, DisableKey, EnableKey

LEMMA SamePool ==
    ASSUME PoolInv, UNCHANGED poolVars
    PROVE  PoolInv' /\ \A k \in Key : Usable(k)' <=> Usable(k)
  BY DEF poolVars, PoolInv, PoolTypeOK, ResetsExhausted, Usable

------------------------------------------------------------------------------
(* Requests: the operators that several actions use.                       *)

USE DEF Idle, Absent, At

Reqs == [Slot -> Active \cup {Idle}]
Sessions == [SessionId -> Session \cup {Absent}]

\* A session that has a row keeps it, with its key and its token.
SessionsKept ==
    \A s \in SessionId :
        session[s].st # "absent" =>
            /\ session'[s].st # "absent"
            /\ session'[s].key = session[s].key
            /\ session'[s].tok = session[s].tok

LEMMA ActiveAt ==
    ASSUME TypeOK, NEW r \in Slot, req[r].pc # "idle"
    PROVE  req[r] \in Active
  BY DEF TypeOK

\* Sessions that are kept fit the requests they fitted.
LEMMA StillFits ==
    ASSUME NEW q, Fits(q, session), SessionsKept
    PROVE  Fits(q, session')
<1>1. CASE q.pc # "idle" /\ q.sess # 0
  <2>1. q \in Active
    BY <1>1 DEF Fits
  <2>2. q.sess \in SessionId
    BY <1>1, <2>1 DEF Active
  <2> QED
    BY <1>1, <2>2 DEF Fits, SessionsKept
<1>2. CASE ~(q.pc # "idle" /\ q.sess # 0)
  BY <1>2 DEF Fits
<1> QED
  BY <1>1, <1>2

LEMMA OneRequest ==
    ASSUME TypeOK, RequestOK, NEW r \in Slot, NEW q,
           Fits(q, session'), req' = [req EXCEPT ![r] = q], SessionsKept
    PROVE  RequestOK' /\ req' \in Reqs
<1>1. req \in Reqs
  BY DEF TypeOK, Reqs
<1>2. \A x \in Slot : Fits(req[x], session')
  BY StillFits DEF RequestOK
<1>3. \A x \in Slot : Fits(req'[x], session')
  BY <1>1, <1>2 DEF Reqs
<1> QED
  BY <1>1, <1>3 DEF RequestOK, Fits, Reqs

LEMMA SameSessions ==
    ASSUME TypeOK, UNCHANGED session
    PROVE  SessionsKept /\ session' \in Sessions
  BY DEF TypeOK, Sessions, SessionsKept

LEMMA IdleFits == \A sessions : Fits(Idle, sessions)
  BY DEF Fits, WithKey

LEMMA FinishRequest ==
    ASSUME TypeOK, RequestOK, NEW r \in Slot, Finish(r), SessionsKept
    PROVE  RequestOK' /\ req' \in Reqs
  BY IdleFits, OneRequest DEF Finish

\* A request with its key moves on without its session, or within it.
LEMMA GoToRequest ==
    ASSUME TypeOK, RequestOK, NEW r \in Slot, NEW label \in Label,
           GoTo(r, label), SessionsKept,
           req[r].pc \in WithKey, label \in WithKey,
           label \in {"pinned", "unpin", "touching"} => req[r].sess # 0,
           req[r].sess # 0 => label \in OfSession
    PROVE  RequestOK' /\ req' \in Reqs
<1>1. req[r] \in Active
  BY ActiveAt DEF WithKey
<1>2. Fits([req[r] EXCEPT !.pc = label], session)
  BY <1>1 DEF Fits, Active, RequestOK, WithKey
<1>3. req' = [req EXCEPT ![r] = [req[r] EXCEPT !.pc = label]]
  BY DEF GoTo, TypeOK
<1> QED
  BY <1>2, <1>3, OneRequest, StillFits

LEMMA SendRequest ==
    ASSUME TypeOK, RequestOK, NEW r \in Slot, Send(r), SessionsKept,
           req[r].pc \in WithKey
    PROVE  RequestOK' /\ req' \in Reqs
<1> DEFINE q == [req[r] EXCEPT !.pc = "upstream", !.user = None]
<1>1. req[r] \in Active
  BY ActiveAt DEF WithKey
<1>2. Fits(q, session)
  BY <1>1 DEF Fits, Active, RequestOK, WithKey, OfSession, Label, MaybeUser
<1>3. req' = [req EXCEPT ![r] = q]
  BY DEF Send, TypeOK
<1> QED
  BY <1>2, <1>3, OneRequest, StillFits

\* Revoking sessions that have a row.
LEMMA RevokeSome ==
    ASSUME TypeOK, NEW S \in SUBSET Opened, Revoke(S)
    PROVE  SessionsKept /\ session' \in Sessions
<1>1. ASSUME NEW s \in S PROVE session[s] \in Session
  BY DEF TypeOK, Opened
<1>2. ASSUME NEW s \in S
      PROVE  /\ [session[s] EXCEPT !.st = "revoked"] \in Session
             /\ [session[s] EXCEPT !.st = "revoked"].st = "revoked"
             /\ [session[s] EXCEPT !.st = "revoked"].key = session[s].key
             /\ [session[s] EXCEPT !.st = "revoked"].tok = session[s].tok
  BY <1>1 DEF Session
<1>3. session' \in Sessions
  BY <1>2 DEF TypeOK, Opened, Revoke, Sessions
<1>4. SessionsKept
  BY <1>2 DEF TypeOK, Opened, Revoke, SessionsKept
<1> QED
  BY <1>3, <1>4

LEMMA FillCacheTypes ==
    ASSUME TypeOK, NEW i \in Instance, NEW t \in Token, FillCache(i, t)
    PROVE  /\ UserOf(i, t) \in MaybeUser
           /\ cache' \in [Instance -> [Token -> {Unknown} \cup {Cached(u) : u \in MaybeUser}]]
<1>1. UserOf(i, t) \in MaybeUser
  BY DEF TypeOK, UserOf, Unknown, Cached
<1> DEFINE Entry == {Unknown} \cup {Cached(u) : u \in MaybeUser}
<1>2. Cached(UserOf(i, t)) \in Entry
  BY <1>1
<1>3. cache \in [Instance -> [Token -> Entry]]
  BY DEF TypeOK
<1>4. cache' = [cache EXCEPT ![i] = [cache[i] EXCEPT ![t] = Cached(UserOf(i, t))]]
  BY DEF FillCache
<1> HIDE DEF Entry
<1>5. cache' \in [Instance -> [Token -> Entry]]
  BY <1>2, <1>3, <1>4
<1> QED
  BY <1>1, <1>5 DEF Entry

------------------------------------------------------------------------------
(* The invariant in four parts that actions leave alone together.          *)

RowsInv ==
    /\ binding \in [Token -> MaybeUser]
    /\ userKey \in [User -> MaybeKey]
    /\ tokenKey \in [Token -> [user : MaybeUser, key : MaybeKey]]
    /\ RowsNameBinding
    /\ RowsAgree

CacheOK ==
    cache \in [Instance -> [Token -> {Unknown} \cup {Cached(u) : u \in MaybeUser}]]

RequestInv == RequestOK /\ req \in Reqs /\ session \in Sessions

LEMMA Parts == AffinityInv <=> PoolInv /\ RowsInv /\ CacheOK /\ RequestInv
  BY DEF AffinityInv, TypeOK, PoolInv, RowsInv, CacheOK, RequestInv, Reqs, Sessions

LEMMA Whole ==
    ASSUME PoolInv', RowsInv', CacheOK', RequestInv'
    PROVE  AffinityInv'
  BY DEF AffinityInv, TypeOK, PoolInv, RowsInv, CacheOK, RequestInv, Reqs, Sessions

LEMMA SameRows ==
    ASSUME RowsInv, UNCHANGED <<binding, userKey, tokenKey>>
    PROVE  RowsInv'
  BY DEF RowsInv, RowsNameBinding, RowsAgree

LEMMA SameCache ==
    ASSUME CacheOK, UNCHANGED cache
    PROVE  CacheOK'
  BY DEF CacheOK

\* Synchronizing a user: the rows that name the user are those of tokens
\* bound to it, and all of these get the key.
LEMMA SyncRows ==
    ASSUME RowsInv, NEW u \in User, NEW k \in Key, SyncUser(u, k),
           UNCHANGED binding
    PROVE  RowsInv'
<1>1. /\ userKey' \in [User -> MaybeKey]
      /\ tokenKey' \in [Token -> [user : MaybeUser, key : MaybeKey]]
  BY DEF RowsInv, SyncUser, MaybeUser, MaybeKey
<1>2. u # None
  BY NoneAssumption
<1>3. RowsNameBinding'
  BY <1>2 DEF RowsInv, RowsNameBinding, SyncUser
<1>4. ASSUME NEW t \in Token, NEW x \in User, tokenKey'[t].user = x
      PROVE  tokenKey'[t].key = userKey'[x]
  <2>1. CASE binding[t] = u
    <3>1. tokenKey'[t] = [user |-> u, key |-> k]
      BY <2>1 DEF SyncUser
    <3> QED
      BY <1>4, <3>1 DEF RowsInv, SyncUser
  <2>2. CASE binding[t] # u
    <3>1. tokenKey'[t] = tokenKey[t]
      BY <2>2 DEF SyncUser
    <3>2. x # None
      BY NoneAssumption
    <3>3. x = binding[t] /\ x # u
      BY <1>4, <2>2, <3>1, <3>2 DEF RowsInv, RowsNameBinding
    <3> QED
      BY <1>4, <3>1, <3>3 DEF RowsInv, RowsAgree, SyncUser
  <2> QED
    BY <2>1, <2>2
<1> QED
  BY <1>1, <1>3, <1>4 DEF RowsInv, RowsAgree

LEMMA SetTokenRows ==
    ASSUME RowsInv, NEW t \in Token, NEW k \in Key, SetToken(t, k),
           UNCHANGED binding
    PROVE  RowsInv'
<1>1. tokenKey' \in [Token -> [user : MaybeUser, key : MaybeKey]]
  BY DEF RowsInv, SetToken, MaybeUser, MaybeKey
<1>2. tokenKey'[t].user = None /\ \A x \in Token \ {t} : tokenKey'[x] = tokenKey[x]
  BY DEF RowsInv, SetToken
<1>3. RowsNameBinding'
  BY <1>2 DEF RowsInv, RowsNameBinding
<1>4. RowsAgree'
  BY <1>2, NoneAssumption DEF RowsInv, RowsAgree, SetToken
<1> QED
  BY <1>1, <1>3, <1>4 DEF RowsInv, SetToken

\* A token is bound while its row names nobody.
LEMMA BindRows ==
    ASSUME RowsInv, NEW t \in Token, NEW u \in User, binding[t] = None,
           binding' = [binding EXCEPT ![t] = u], UNCHANGED <<userKey, tokenKey>>
    PROVE  RowsInv'
  BY DEF RowsInv, RowsNameBinding, RowsAgree, MaybeUser

------------------------------------------------------------------------------
(* The actions of a request.                                               *)

LEMMA RequestTypes == AffinityInv => TypeOK /\ RequestOK
  BY DEF AffinityInv

LEMMA NewRequestTypes ==
    ASSUME NEW t \in Token, NEW s \in SessionId \cup {0},
           NEW k \in MaybeKey, NEW u \in MaybeUser
    PROVE  NewRequest(t, s, k, u) \in Active
  BY DEF NewRequest, Active, Label, MaybeKey, MaybeUser

\* A request that arrives.
LEMMA ArriveInv ==
    ASSUME AffinityInv, NEW r \in Slot, NEW t \in Token,
           \/ ArriveHttp(r, t)
           \/ ArriveInitialize(r, t)
           \/ \E s \in SessionId : ArriveFollowUp(r, t, s)
    PROVE  AffinityInv'
<1> USE RequestTypes, Parts
<1>0. InstanceOf[r] \in Instance
  BY SlotAssumption
<1>1. UNCHANGED <<poolVars, binding, userKey, tokenKey, session>>
  BY DEF ArriveHttp, ArriveInitialize, ArriveFollowUp, affinityVars
<1>2. PoolInv' /\ RowsInv' /\ SessionsKept /\ session' \in Sessions
  BY <1>1, SamePool, SameRows, SameSessions
<1>3. CacheOK'
  BY <1>0, FillCacheTypes, SameCache
  DEF ArriveHttp, ArriveInitialize, ArriveFollowUp, affinityVars, CacheOK
<1>4. RequestOK' /\ req' \in Reqs
  <2>1. CASE ArriveHttp(r, t)
    <3>1. Fits(NewRequest(t, 0, None, None), session')
      BY NewRequestTypes DEF Fits, NewRequest, MaybeKey, MaybeUser, WithKey
    <3> QED
      BY <1>2, <2>1, <3>1, OneRequest DEF ArriveHttp
  <2>2. CASE ArriveInitialize(r, t)
    <3> DEFINE u == UserOf(InstanceOf[r], t)
               q == [NewRequest(t, 0, None, u) EXCEPT !.opens = TRUE]
    <3>1. u \in MaybeUser
      BY <1>0, <2>2, FillCacheTypes DEF ArriveInitialize
    <3> HIDE DEF u
    <3>2. Fits(q, session')
      <4>1. NewRequest(t, 0, None, u) \in Active
        BY <3>1, NewRequestTypes DEF MaybeKey
      <4>2. q \in Active /\ q.pc = "resolving" /\ q.sess = 0
        BY <4>1 DEF Active, NewRequest
      <4> QED
        BY <4>2 DEF Fits, WithKey
    <3>3. req' = [req EXCEPT ![r] = q]
      BY <2>2 DEF ArriveInitialize, u
    <3> HIDE DEF q
    <3> QED
      BY <1>2, <3>2, <3>3, OneRequest
  <2>3. ASSUME NEW s \in SessionId, ArriveFollowUp(r, t, s)
        PROVE  RequestOK' /\ req' \in Reqs
    <3> DEFINE q == [NewRequest(t, s, session[s].key, None) EXCEPT !.pc = "pinned"]
    <3>1. session[s] \in Session /\ session[s].tok = t
      BY <2>3 DEF ArriveFollowUp, TypeOK
    <3>2. s # 0
      BY DEF SessionId
    <3>3. Fits(q, session)
      <4>1. session[s].key \in Key
        BY <3>1 DEF Session
      <4>2. NewRequest(t, s, session[s].key, None) \in Active
        BY <4>1, NewRequestTypes DEF MaybeKey, MaybeUser
      <4>3. /\ q \in Active /\ q.pc = "pinned" /\ q.sess = s
            /\ q.key = session[s].key /\ q.tok = t /\ q.opens = FALSE
        BY <4>2 DEF Active, NewRequest, Label
      <4>4. session[s].st # "absent"
        BY <3>1 DEF Session
      <4> QED
        BY <3>1, <3>2, <4>1, <4>3, <4>4 DEF Fits, OfSession
    <3>4. req' = [req EXCEPT ![r] = q]
      BY <2>3 DEF ArriveFollowUp
    <3> HIDE DEF q
    <3> QED
      BY <1>1, <1>2, <3>3, <3>4, OneRequest
  <2> QED
    BY <2>1, <2>2, <2>3
<1> QED
  BY <1>2, <1>3, <1>4, Whole DEF RequestInv

\* A request that has no session and gets other local variables.
LEMMA ChoosingRequest ==
    ASSUME TypeOK, RequestOK, NEW r \in Slot, NEW q \in Active, SessionsKept,
           req' = [req EXCEPT ![r] = q], q.sess = 0,
           q.pc = "user" => q.user \in User,
           q.pc \in WithKey => q.key \in Key,
           q.pc \notin {"pinned", "unpin", "touching"}
    PROVE  RequestOK' /\ req' \in Reqs
<1>1. Fits(q, session')
  BY DEF Fits
<1> QED
  BY <1>1, OneRequest

LEMMA NoSession ==
    ASSUME TypeOK, RequestOK, NEW r \in Slot,
           req[r].pc \in {"resolving", "user", "token", "keep", "first",
                          "sync", "rebind", "revoke", "opening"}
    PROVE  req[r] \in Active /\ req[r].sess = 0
<1>1. req[r] \in Active
  BY ActiveAt
<1> QED
  BY <1>1 DEF RequestOK, Fits, OfSession

LEMMA ResolveInv ==
    ASSUME AffinityInv, NEW r \in Slot, Resolve(r)
    PROVE  AffinityInv'
<1> USE RequestTypes, Parts
<1> DEFINE u == UserOf(InstanceOf[r], req[r].tok)
           q == [req[r] EXCEPT !.user = u,
                               !.pc = IF u = None THEN "token" ELSE "user"]
<1>1. req[r] \in Active /\ req[r].sess = 0
  BY NoSession DEF Resolve
<1>2. InstanceOf[r] \in Instance /\ req[r].tok \in Token
  BY <1>1, SlotAssumption DEF Active
<1>3. u \in MaybeUser /\ CacheOK'
  BY <1>2, FillCacheTypes DEF Resolve, CacheOK
<1>4. req' = [req EXCEPT ![r] = q]
  BY DEF Resolve, TypeOK
<1>5. PoolInv' /\ RowsInv' /\ SessionsKept /\ session' \in Sessions
  BY SamePool, SameRows, SameSessions DEF Resolve
<1> HIDE DEF u
<1>6. /\ q \in Active /\ q.sess = 0 /\ q.pc \in {"token", "user"}
      /\ q.pc = "user" => q.user \in User
  BY <1>1, <1>3 DEF Active, MaybeUser, Label
<1> HIDE DEF q
<1>7. RequestOK' /\ req' \in Reqs
  BY <1>4, <1>5, <1>6, ChoosingRequest DEF WithKey
<1> QED
  BY <1>3, <1>5, <1>7, Whole DEF RequestInv

LEMMA ReadUserPrimaryInv ==
    ASSUME AffinityInv, NEW r \in Slot, ReadUserPrimary(r)
    PROVE  AffinityInv'
<1> USE RequestTypes, Parts
<1> DEFINE q == [req[r] EXCEPT !.old = userKey[req[r].user], !.pc = "token"]
<1>1. req[r] \in Active /\ req[r].sess = 0
  BY NoSession DEF ReadUserPrimary
<1>2. req[r].user \in User
  BY DEF ReadUserPrimary, RequestOK, Fits
<1>3. userKey[req[r].user] \in MaybeKey
  BY <1>2 DEF TypeOK
<1>4. req' = [req EXCEPT ![r] = q]
  BY DEF ReadUserPrimary, TypeOK
<1>5. PoolInv' /\ RowsInv' /\ CacheOK' /\ SessionsKept /\ session' \in Sessions
  BY SamePool, SameRows, SameCache, SameSessions DEF ReadUserPrimary, affinityVars
<1>6. q \in Active /\ q.sess = 0 /\ q.pc = "token"
  BY <1>1, <1>3 DEF Active, Label
<1> HIDE DEF q
<1>7. RequestOK' /\ req' \in Reqs
  BY <1>4, <1>5, <1>6, ChoosingRequest DEF WithKey
<1> QED
  BY <1>5, <1>7, Whole DEF RequestInv

\* Only keys are tried, never the absence of one.
LEMMA ChoicesAreKeys ==
    ASSUME TypeOK, NEW r \in Slot, req[r] \in Active, NEW legacy \in MaybeKey
    PROVE  Choices(r, legacy) \in Seq(Key)
<1> DEFINE up == req[r].old
           tp == tokenKey[req[r].tok]
           a == IF up # None THEN <<up>> ELSE <<>>
           b == IF tp.key # None /\ tp.user = req[r].user /\ tp.key # up
                THEN <<tp.key>> ELSE <<>>
           c == IF up = None /\ tp.key = None /\ legacy # None
                THEN <<legacy>> ELSE <<>>
<1>1. up \in MaybeKey /\ tp.key \in MaybeKey
  BY DEF Active, TypeOK
<1>2. Choices(r, legacy) = a \o b \o c
  BY DEF Choices
<1> HIDE DEF up, tp
<1>3. a \in Seq(Key) /\ b \in Seq(Key) /\ c \in Seq(Key)
  BY <1>1 DEF MaybeKey
<1> HIDE DEF a, b, c
<1> QED
  BY <1>2, <1>3

LEMMA ReadTokenPrimaryInv ==
    ASSUME AffinityInv, NEW r \in Slot, NEW legacy \in MaybeKey,
           ReadTokenPrimary(r, legacy)
    PROVE  AffinityInv'
<1> USE RequestTypes, Parts
<1>1. req[r] \in Active /\ req[r].sess = 0
  BY NoSession DEF ReadTokenPrimary
<1>2. tokenKey[req[r].tok].key \in MaybeKey
  BY <1>1 DEF Active, TypeOK
<1>3. PoolInv' /\ RowsInv' /\ CacheOK' /\ SessionsKept /\ session' \in Sessions
  BY SamePool, SameRows, SameCache, SameSessions DEF ReadTokenPrimary, affinityVars
<1>4. \E todo \in Seq(Key), old \in MaybeKey, pc \in {"keep", "first"} :
         req' = [req EXCEPT ![r] =
                   [req[r] EXCEPT !.todo = todo, !.old = old, !.pc = pc]]
  <2>1. CASE req[r].user # None
    <3> DEFINE pc == IF req[r].old # None \/ tokenKey[req[r].tok].key # None
                     THEN "keep" ELSE "first"
    <3>1. req' = [req EXCEPT ![r] = [req[r] EXCEPT
                    !.todo = Choices(r, legacy), !.old = req[r].old, !.pc = pc]]
      BY <1>1, <2>1 DEF ReadTokenPrimary, Active, TypeOK
    <3>2. Choices(r, legacy) \in Seq(Key) /\ req[r].old \in MaybeKey
      BY <1>1, ChoicesAreKeys DEF Active
    <3> QED
      BY <3>1, <3>2
  <2>2. CASE req[r].user = None
    <3> DEFINE tp == tokenKey[req[r].tok].key
    <3>1. (IF tp # None THEN <<tp>> ELSE <<>>) \in Seq(Key)
      BY <1>2 DEF MaybeKey
    <3>2. req' = [req EXCEPT ![r] = [req[r] EXCEPT
                    !.todo = IF tp # None THEN <<tp>> ELSE <<>>, !.old = tp,
                    !.pc = IF tp # None THEN "keep" ELSE "first"]]
      BY <1>1, <2>2 DEF ReadTokenPrimary, Active, TypeOK
    <3> QED
      BY <1>2, <3>1, <3>2
  <2> QED
    BY <2>1, <2>2
<1>5. RequestOK' /\ req' \in Reqs
  <2>1. PICK todo \in Seq(Key), old \in MaybeKey, pc \in {"keep", "first"} :
           req' = [req EXCEPT ![r] =
                     [req[r] EXCEPT !.todo = todo, !.old = old, !.pc = pc]]
    BY <1>4
  <2> DEFINE q == [req[r] EXCEPT !.todo = todo, !.old = old, !.pc = pc]
  <2>2. q \in Active /\ q.sess = 0 /\ q.pc \in {"keep", "first"}
    BY <1>1 DEF Active, Label
  <2>3. req' = [req EXCEPT ![r] = q]
    BY <2>1
  <2> HIDE DEF q
  <2> QED
    BY <1>3, <2>2, <2>3, ChoosingRequest DEF WithKey
<1> QED
  BY <1>3, <1>5, Whole DEF RequestInv

Leasing == {"pinned", "keep", "first"}

LEMMA WantedKeys ==
    ASSUME TypeOK, RequestOK, NEW r \in Slot, req[r].pc \in Leasing
    PROVE  req[r] \in Active /\ Wanted(r) \in SUBSET Key
<1>1. req[r] \in Active
  BY ActiveAt DEF Leasing
<1>2. CASE At(r, "pinned")
  BY <1>1, <1>2 DEF RequestOK, Fits, WithKey, Wanted
<1>3. CASE req[r].todo # <<>>
  <2>1. req[r].todo \in Seq(Key)
    BY <1>1 DEF Active
  <2>2. Head(req[r].todo) \in Key
    BY <1>3, <2>1
  <2> QED
    BY <1>1, <1>2, <1>3, <2>2 DEF Wanted
<1>4. CASE ~At(r, "pinned") /\ req[r].todo = <<>>
  BY <1>1, <1>4 DEF Wanted
<1> QED
  BY <1>1, <1>2, <1>3, <1>4

\* The lease of a wanted key: a pinned request gets the key it has.
LEMMA LeasedRequest ==
    ASSUME TypeOK, RequestOK, NEW r \in Slot, req[r].pc \in Leasing,
           NEW k \in Wanted(r), Leased(r, k), SessionsKept
    PROVE  RequestOK' /\ req' \in Reqs
<1> DEFINE pc == IF At(r, "pinned") THEN "upstream"
                 ELSE IF At(r, "keep") /\ req[r].todo = <<>>
                 THEN "rebind" ELSE "sync"
           q == [req[r] EXCEPT !.key = k, !.old = None, !.todo = <<>>,
                               !.missed = FALSE, !.pc = pc]
<1>1. req[r] \in Active /\ k \in Key
  BY WantedKeys
<1>2. req' = [req EXCEPT ![r] = q]
  BY DEF Leased, TypeOK
<1>3. /\ q \in Active /\ q.pc = pc /\ q.key = k
      /\ q.sess = req[r].sess /\ q.tok = req[r].tok /\ q.opens = req[r].opens
  <2>1. pc \in Label /\ k \in MaybeKey /\ None \in MaybeKey /\ <<>> \in Seq(Key)
    BY <1>1 DEF Label, MaybeKey
  <2> HIDE DEF pc
  <2> QED
    BY <1>1, <2>1 DEF Active
<1> HIDE DEF q
<1>4. CASE At(r, "pinned")
  <2>1. k = req[r].key /\ pc = "upstream"
    BY <1>4 DEF Wanted
  <2>2. Fits(q, session)
    BY <1>1, <1>3, <1>4, <2>1 DEF RequestOK, Fits, OfSession
  <2> QED
    BY <1>2, <2>2, StillFits, OneRequest
<1>5. CASE ~At(r, "pinned")
  <2>1. req[r].sess = 0
    BY <1>5, NoSession DEF Leasing
  <2>2. pc \in {"rebind", "sync"}
    BY <1>5
  <2> HIDE DEF pc
  <2> QED
    BY <1>1, <1>2, <1>3, <2>1, <2>2, ChoosingRequest
<1> QED
  BY <1>4, <1>5

\* The local variables of a request that goes on looking for a key.
LEMMA LookingRequest ==
    ASSUME TypeOK, RequestOK, NEW r \in Slot, req[r].pc \in Leasing,
           SessionsKept, NEW todo \in Seq(Key), NEW missed \in BOOLEAN,
           req' = [req EXCEPT ![r] =
                     [req[r] EXCEPT !.todo = todo, !.missed = missed]]
    PROVE  RequestOK' /\ req' \in Reqs
<1> DEFINE q == [req[r] EXCEPT !.todo = todo, !.missed = missed]
<1>1. req[r] \in Active
  BY WantedKeys
<1>2. /\ q \in Active /\ q.pc = req[r].pc /\ q.key = req[r].key
      /\ q.sess = req[r].sess /\ q.tok = req[r].tok /\ q.user = req[r].user
      /\ q.opens = req[r].opens
  BY <1>1 DEF Active
<1> HIDE DEF q
<1>3. Fits(q, session)
  BY <1>1, <1>2 DEF RequestOK, Fits
<1> QED
  BY <1>3, StillFits, OneRequest DEF q

LEMMA NotLeasedRequest ==
    ASSUME TypeOK, RequestOK, NEW r \in Slot, req[r].pc \in Leasing,
           NotLeased(r), SessionsKept
    PROVE  RequestOK' /\ req' \in Reqs
<1>1. req[r] \in Active
  BY WantedKeys
<1>2. ASSUME At(r, "pinned"),
             req' = [req EXCEPT ![r].pc = "unpin", ![r].missed = FALSE]
      PROVE  RequestOK' /\ req' \in Reqs
  <2> DEFINE q == [req[r] EXCEPT !.pc = "unpin", !.missed = FALSE]
  <2>1. req' = [req EXCEPT ![r] = q]
    BY <1>2 DEF TypeOK
  <2>2. /\ q \in Active /\ q.pc = "unpin" /\ q.key = req[r].key
        /\ q.sess = req[r].sess /\ q.tok = req[r].tok /\ q.opens = req[r].opens
    BY <1>1 DEF Active, Label
  <2> HIDE DEF q
  <2>3. req[r].sess # 0
    BY <1>1, <1>2 DEF RequestOK, Fits
  <2>4. Fits(q, session)
    BY <1>1, <1>2, <2>2, <2>3 DEF RequestOK, Fits, OfSession, WithKey
  <2> QED
    BY <2>1, <2>4, StillFits, OneRequest
<1>3. ASSUME req[r].todo # <<>>,
             req' = [req EXCEPT ![r].todo = Tail(@), ![r].missed = FALSE]
      PROVE  RequestOK' /\ req' \in Reqs
  <2>1. Tail(req[r].todo) \in Seq(Key)
    BY <1>1, <1>3 DEF Active
  <2>2. req' = [req EXCEPT ![r] =
                  [req[r] EXCEPT !.todo = Tail(req[r].todo), !.missed = FALSE]]
    BY <1>3 DEF TypeOK
  <2> QED
    BY <2>1, <2>2, LookingRequest
<1> QED
  BY <1>2, <1>3, FinishRequest DEF NotLeased

LEMMA LeaseInv ==
    ASSUME AffinityInv, NEW r \in Slot, LeaseActive(r) \/ LeaseExhausted(r)
    PROVE  AffinityInv'
<1> USE RequestTypes, Parts
<1>1. req[r].pc \in Leasing
  BY DEF LeaseActive, LeaseExhausted, Leasing
<1>2. RowsInv' /\ CacheOK' /\ SessionsKept /\ session' \in Sessions
  BY SameRows, SameCache, SameSessions DEF LeaseActive, LeaseExhausted, affinityVars
<1>3. PoolInv'
  BY ResetMonthlyPool, SamePool DEF LeaseActive, LeaseExhausted
<1>4. RequestOK' /\ req' \in Reqs
  <2>1. ASSUME NEW k \in Wanted(r), Leased(r, k) PROVE RequestOK' /\ req' \in Reqs
    BY <1>1, <1>2, <2>1, LeasedRequest
  <2>2. CASE LeaseActive(r)
    <3>1. ASSUME req' = [req EXCEPT ![r].missed = TRUE]
          PROVE  RequestOK' /\ req' \in Reqs
      <4>1. req[r] \in Active /\ req[r].todo \in Seq(Key)
        BY <1>1, WantedKeys DEF Active
      <4>2. req' = [req EXCEPT ![r] =
                      [req[r] EXCEPT !.todo = req[r].todo, !.missed = TRUE]]
        BY <3>1, <4>1 DEF TypeOK, Active
      <4> QED
        BY <1>1, <1>2, <4>1, <4>2, LookingRequest
    <3>2. ActiveKeys(Wanted(r)) \subseteq Wanted(r)
      BY DEF ActiveKeys
    <3> QED
      BY <2>1, <2>2, <3>1, <3>2 DEF LeaseActive
  <2>3. CASE LeaseExhausted(r)
    <3>1. ExhaustedKeys(Wanted(r)) \subseteq Wanted(r)
      BY DEF ExhaustedKeys
    <3> QED
      BY <1>1, <1>2, <2>1, <2>3, <3>1, NotLeasedRequest DEF LeaseExhausted
  <2> QED
    BY <2>2, <2>3
<1> QED
  BY <1>2, <1>3, <1>4, Whole DEF RequestInv

LEMMA SyncInv ==
    ASSUME AffinityInv, NEW r \in Slot, Sync(r)
    PROVE  AffinityInv'
<1> USE RequestTypes, Parts
<1>1. req[r] \in Active /\ req[r].sess = 0 /\ req[r].pc \in WithKey
  BY NoSession DEF Sync, WithKey
<1>2. req[r].key \in Key /\ req[r].tok \in Token /\ req[r].user \in MaybeUser
  BY <1>1 DEF RequestOK, Fits, Active
<1>3. PoolInv' /\ CacheOK' /\ SessionsKept /\ session' \in Sessions
  BY SamePool, SameCache, SameSessions DEF Sync
<1>4. RowsInv'
  BY <1>2, SyncRows, SetTokenRows DEF Sync, MaybeUser
<1>5. RequestOK' /\ req' \in Reqs
  BY <1>1, <1>3, GoToRequest, SendRequest DEF Sync, WithKey, Label
<1> QED
  BY <1>3, <1>4, <1>5, Whole DEF RequestInv

LEMMA RevokeInv ==
    ASSUME AffinityInv, NEW r \in Slot, RevokeSessions(r) \/ RevokeOwn(r)
    PROVE  AffinityInv'
<1> USE RequestTypes, Parts
<1>1. PoolInv' /\ RowsInv' /\ CacheOK'
  BY SamePool, SameRows, SameCache DEF RevokeSessions, RevokeOwn, affinityVars
<1>2. CASE RevokeSessions(r)
  <2> DEFINE S == {s \in Opened : IF req[r].user # None
                                  THEN session[s].user = req[r].user
                                  ELSE session[s].tok = req[r].tok}
  <2>1. S \in SUBSET Opened /\ Revoke(S)
    BY <1>2 DEF RevokeSessions
  <2> HIDE DEF S
  <2>2. SessionsKept /\ session' \in Sessions
    BY <2>1, RevokeSome
  <2>3. RequestOK' /\ req' \in Reqs
    BY <1>2, <2>2, SendRequest DEF RevokeSessions, WithKey
  <2> QED
    BY <1>1, <2>2, <2>3, Whole DEF RequestInv
<1>3. CASE RevokeOwn(r)
  <2>1. req[r] \in Active /\ req[r].sess # 0
    BY <1>3, ActiveAt DEF RevokeOwn, RequestOK, Fits
  <2>2. {req[r].sess} \in SUBSET Opened
    BY <1>3, <2>1 DEF RevokeOwn, RequestOK, Fits, Active, Opened
  <2>3. SessionsKept /\ session' \in Sessions
    BY <1>3, <2>2, RevokeSome DEF RevokeOwn
  <2>4. RequestOK' /\ req' \in Reqs
    BY <1>3, <2>3, FinishRequest DEF RevokeOwn
  <2> QED
    BY <1>1, <2>3, <2>4, Whole DEF RequestInv
<1> QED
  BY <1>2, <1>3

LEMMA UpstreamInv ==
    ASSUME AffinityInv, NEW r \in Slot, NEW a \in KeyHealthAction,
           UpstreamReplies(r, a)
    PROVE  AffinityInv'
<1> USE RequestTypes, Parts
<1>1. req[r] \in Active /\ req[r].key \in Key /\ req[r].pc \in WithKey
  BY ActiveAt DEF UpstreamReplies, RequestOK, Fits, WithKey
<1>2. RowsInv' /\ CacheOK' /\ SessionsKept /\ session' \in Sessions
  BY SameRows, SameCache, SameSessions DEF UpstreamReplies, affinityVars
<1>3. PoolInv'
  BY <1>1, ReconcilePool DEF UpstreamReplies
<1>4. CASE Finish(r)
  <2>1. RequestOK' /\ req' \in Reqs
    BY <1>2, <1>4, FinishRequest
  <2> QED
    BY <1>2, <1>3, <2>1, Whole DEF RequestInv
<1>5. CASE req[r].sess # 0 /\ (GoTo(r, "touching") \/ GoTo(r, "unpin"))
  <2>1. RequestOK' /\ req' \in Reqs
    BY <1>1, <1>2, <1>5, GoToRequest DEF WithKey, OfSession, Label
  <2> QED
    BY <1>2, <1>3, <2>1, Whole DEF RequestInv
<1>6. CASE req[r].sess = 0 /\ GoTo(r, "opening")
  <2>1. RequestOK' /\ req' \in Reqs
    BY <1>1, <1>2, <1>6, GoToRequest DEF WithKey, Label
  <2> QED
    BY <1>2, <1>3, <2>1, Whole DEF RequestInv
<1>7. req[r].opens => req[r].sess = 0
  BY <1>1 DEF RequestOK, Fits, WithKey
<1> QED
  BY <1>4, <1>5, <1>6, <1>7 DEF UpstreamReplies

LEMMA SessionInv ==
    ASSUME AffinityInv, NEW r \in Slot,
           (\E s \in SessionId : CreateSession(r, s)) \/ TouchSession(r)
    PROVE  AffinityInv'
<1> USE RequestTypes, Parts
<1>1. PoolInv' /\ RowsInv' /\ CacheOK'
  BY SamePool, SameRows, SameCache DEF CreateSession, TouchSession, affinityVars
<1>2. SessionsKept /\ session' \in Sessions
  <2>1. ASSUME NEW s \in SessionId, CreateSession(r, s)
        PROVE  SessionsKept /\ session' \in Sessions
    <3>1. req[r] \in Active /\ req[r].key \in Key
      BY <2>1, ActiveAt DEF CreateSession, RequestOK, Fits, WithKey
    <3> DEFINE new == [st |-> "active", tok |-> req[r].tok,
                       user |-> req[r].owner, key |-> req[r].key]
    <3>2. new \in Session
      BY <3>1 DEF Active, Session
    <3>3. session' = [session EXCEPT ![s] = new] /\ session[s] = Absent
      BY <2>1 DEF CreateSession
    <3> HIDE DEF new
    <3> QED
      BY <3>2, <3>3 DEF TypeOK, SessionsKept, Sessions
  <2>2. CASE TouchSession(r)
    <3> DEFINE s == req[r].sess
               new == [session[s] EXCEPT !.st = IF session[s].st = "expired"
                                                THEN "active" ELSE session[s].st]
    <3>1. req[r] \in Active /\ s # 0 /\ session[s].st # "absent"
      BY <2>2, ActiveAt DEF TouchSession, RequestOK, Fits
    <3>2. s \in SessionId /\ session[s] \in Session
      BY <3>1 DEF Active, TypeOK
    <3>3. session' = [session EXCEPT ![s] = new]
      BY <2>2 DEF TouchSession, TypeOK
    <3> HIDE DEF s
    <3>4. /\ new \in Session /\ new.st # "absent"
          /\ new.key = session[s].key /\ new.tok = session[s].tok
      BY <3>2 DEF Session
    <3> HIDE DEF new
    <3> QED
      BY <3>2, <3>3, <3>4 DEF TypeOK, SessionsKept, Sessions
  <2> QED
    BY <2>1, <2>2
<1>3. Finish(r)
  BY DEF CreateSession, TouchSession
<1>4. RequestOK' /\ req' \in Reqs
  BY <1>2, <1>3, FinishRequest
<1> QED
  BY <1>1, <1>2, <1>4, Whole DEF RequestInv

LEMMA AbortInv ==
    ASSUME AffinityInv, NEW r \in Slot, Abort(r)
    PROVE  AffinityInv'
<1> USE RequestTypes, Parts
<1>1. PoolInv' /\ RowsInv' /\ CacheOK' /\ SessionsKept /\ session' \in Sessions
  BY SamePool, SameRows, SameCache, SameSessions DEF Abort, affinityVars
<1>2. RequestOK' /\ req' \in Reqs
  BY <1>1, FinishRequest DEF Abort
<1> QED
  BY <1>1, <1>2, Whole DEF RequestInv

------------------------------------------------------------------------------
(* The other steps.                                                        *)

LEMMA SameRequests ==
    ASSUME TypeOK, RequestOK, UNCHANGED req, SessionsKept, session' \in Sessions
    PROVE  RequestInv'
<1>1. \A x \in Slot : Fits(req[x], session')
  BY StillFits DEF RequestOK
<1> QED
  BY <1>1 DEF RequestInv, RequestOK, TypeOK, Reqs

CacheEntry == {Unknown} \cup {Cached(u) : u \in MaybeUser}

LEMMA CacheSet ==
    ASSUME CacheOK, NEW i \in Instance, NEW t \in Token, NEW e \in CacheEntry,
           cache' = [cache EXCEPT ![i][t] = e]
    PROVE  CacheOK'
<1>1. cache \in [Instance -> [Token -> CacheEntry]]
  BY DEF CacheOK, CacheEntry
<1>2. cache' \in [Instance -> [Token -> CacheEntry]]
  BY <1>1
<1> QED
  BY <1>2 DEF CacheOK, CacheEntry

LEMMA BindTokenInv ==
    ASSUME AffinityInv, NEW i \in Instance, NEW t \in Token, NEW u \in User,
           BindToken(i, t, u)
    PROVE  AffinityInv'
<1> USE RequestTypes, Parts
<1>1. PoolInv' /\ SessionsKept /\ session' \in Sessions
  BY SamePool, SameSessions DEF BindToken
<1>2. RowsInv'
  BY BindRows DEF BindToken
<1>3. Cached(u) \in CacheEntry
  BY DEF CacheEntry, MaybeUser
<1>4. CacheOK'
  BY <1>3, CacheSet DEF BindToken
<1>5. RequestInv'
  BY <1>1, SameRequests DEF BindToken
<1> QED
  BY <1>1, <1>2, <1>4, <1>5, Whole

LEMMA RefreshCacheInv ==
    ASSUME AffinityInv, NEW i \in Instance, NEW t \in Token, RefreshCache(i, t)
    PROVE  AffinityInv'
<1> USE RequestTypes, Parts
<1>1. PoolInv' /\ RowsInv' /\ SessionsKept /\ session' \in Sessions
  BY SamePool, SameRows, SameSessions DEF RefreshCache
<1>2. Unknown \in CacheEntry /\ Cached(binding[t]) \in CacheEntry
  BY DEF CacheEntry, TypeOK
<1>3. CacheOK'
  BY <1>2, CacheSet DEF RefreshCache
<1>4. RequestInv'
  BY <1>1, SameRequests DEF RefreshCache
<1> QED
  BY <1>1, <1>3, <1>4, Whole

LEMMA ExpireSessionInv ==
    ASSUME AffinityInv, NEW s \in SessionId, ExpireSession(s)
    PROVE  AffinityInv'
<1> USE RequestTypes, Parts
<1> DEFINE new == [session[s] EXCEPT !.st = "expired"]
<1>1. PoolInv' /\ RowsInv' /\ CacheOK'
  BY SamePool, SameRows, SameCache DEF ExpireSession, affinityVars
<1>2. session[s] \in Session /\ session' = [session EXCEPT ![s] = new]
  BY DEF ExpireSession, TypeOK
<1>3. /\ new \in Session /\ new.st # "absent"
      /\ new.key = session[s].key /\ new.tok = session[s].tok
  BY <1>2 DEF Session
<1> HIDE DEF new
<1>4. SessionsKept /\ session' \in Sessions
  BY <1>2, <1>3 DEF TypeOK, SessionsKept, Sessions
<1>5. RequestInv'
  BY <1>4, SameRequests DEF ExpireSession
<1> QED
  BY <1>1, <1>4, <1>5, Whole

LEMMA PoolStepInv ==
    ASSUME AffinityInv, PoolStep
    PROVE  /\ AffinityInv'
           /\ \A k \in Key : ~Usable(k) /\ Usable(k)' => AdminStep(k)
<1> USE RequestTypes, Parts
<1>1. RowsInv' /\ CacheOK' /\ SessionsKept /\ session' \in Sessions
  BY SameRows, SameCache, SameSessions DEF PoolStep, affinityVars
<1>2. RequestInv'
  BY <1>1, SameRequests DEF PoolStep
<1>3. PoolInv' /\ \A k \in Key : ~Usable(k) /\ Usable(k)' => AdminStep(k)
  <2>1. ASSUME NEW x \in Key, AdminStep(x)
        PROVE  PoolInv' /\ \A k \in Key : ~Usable(k) /\ Usable(k)' => AdminStep(k)
    BY <2>1, AdminPool
  <2>2. ASSUME NEW x \in Key, QuarantineKey(x)
        PROVE  PoolInv' /\ \A k \in Key : Usable(k)' => Usable(k)
    BY <2>2 DEF QuarantineKey, PoolInv, PoolTypeOK, ResetsExhausted, Usable
  <2>3. ASSUME NewMonth
        PROVE  PoolInv' /\ \A k \in Key : Usable(k)' => Usable(k)
    BY <2>3 DEF NewMonth, PoolInv, PoolTypeOK, ResetsExhausted, Usable
  <2> QED
    BY <2>1, <2>2, <2>3 DEF PoolStep
<1> QED
  BY <1>1, <1>2, <1>3, Whole

LEMMA CrashInv ==
    ASSUME AffinityInv, NEW i \in Instance, Crash(i)
    PROVE  AffinityInv'
<1> USE RequestTypes, Parts
<1>1. PoolInv' /\ RowsInv' /\ SessionsKept /\ session' \in Sessions
  BY SamePool, SameRows, SameSessions DEF Crash
<1>2. CacheOK'
  BY DEF Crash, CacheOK
<1>3. \A x \in Slot : req'[x] = Idle \/ req'[x] = req[x]
  BY DEF Crash
<1>4. \A x \in Slot : Fits(req'[x], session')
  BY <1>1, <1>3, IdleFits, StillFits DEF RequestOK
<1>5. RequestInv'
  BY <1>1, <1>4 DEF Crash, RequestInv, RequestOK, TypeOK, Reqs
<1> QED
  BY <1>1, <1>2, <1>5, Whole

------------------------------------------------------------------------------
(* The theorems.                                                           *)

LEMMA RequestStepInv ==
    ASSUME AffinityInv, NEW r \in Slot, RequestStep(r)
    PROVE  AffinityInv'
<1>1. \A k \in Key \cup {None} : k \in MaybeKey
  BY DEF MaybeKey
<1> QED
  BY <1>1, ArriveInv, ResolveInv, ReadUserPrimaryInv, ReadTokenPrimaryInv,
     LeaseInv, SyncInv, RevokeInv, UpstreamInv, SessionInv
  DEF RequestStep

LEMMA AffinityNextInv == AffinityInv /\ [Next]_vars => AffinityInv'
<1> SUFFICES ASSUME AffinityInv, [Next]_vars PROVE AffinityInv'
  OBVIOUS
<1>1. CASE UNCHANGED vars
  <2>1. PoolInv' /\ RowsInv' /\ CacheOK' /\ SessionsKept /\ session' \in Sessions
    BY <1>1, RequestTypes, Parts, SamePool, SameRows, SameCache, SameSessions
    DEF vars, affinityVars
  <2>2. RequestInv'
    BY <1>1, <2>1, RequestTypes, SameRequests DEF vars
  <2> QED
    BY <2>1, <2>2, Whole
<1>2. CASE Next
  BY <1>2, RequestStepInv, AbortInv, BindTokenInv, RefreshCacheInv,
     ExpireSessionInv, PoolStepInv, CrashInv
  DEF Next
<1> QED
  BY <1>1, <1>2

LEMMA AffinityInvariant == Spec => []AffinityInv
  BY AffinityInitInv, AffinityNextInv, PTL DEF Spec

(* Types: every statement and every local variable of a request gets the   *)
(* kind of value it needs; the loop over candidate keys never tries "no    *)
(* key".                                                                   *)
THEOREM AffinityTypeCorrect == Spec => []TypeOK
<1>1. AffinityInv => TypeOK
  BY DEF AffinityInv
<1> QED
  BY <1>1, AffinityInvariant, PTL

(* Rows of token_primary_api_key_affinity that name a user have the        *)
(* primary key of that user, whatever acquire_key_for does concurrently    *)
(* and however stale the caches of bindings are.                           *)
THEOREM PrimaryKeysAgree == Spec => []RowsAgree
<1>1. AffinityInv => RowsAgree
  BY DEF AffinityInv
<1> QED
  BY <1>1, AffinityInvariant, PTL

(* proxy_request sends a request of an MCP session with the key and on     *)
(* behalf of the token the session was created with.                       *)
THEOREM SessionsKeepKeys == Spec => []ServedByPinnedKey
<1>1. AffinityInv => ServedByPinnedKey
  BY DEF AffinityInv, RequestOK, Fits, ServedByPinnedKey
<1> QED
  BY <1>1, AffinityInvariant, PTL

\* Only PoolStep makes a key usable again.
LEMMA UsableByAdmin ==
    ASSUME AffinityInv, Next, NEW k \in Key, ~Usable(k), Usable(k)'
    PROVE  AdminStep(k) /\ UNCHANGED <<affinityVars, session, req>>
<1> USE RequestTypes, Parts
<1>1. CASE PoolStep
  BY <1>1, PoolStepInv DEF PoolStep
<1>2. ASSUME UNCHANGED poolVars PROVE FALSE
  BY <1>2, SamePool
<1>3. ASSUME ResetMonthly PROVE FALSE
  BY <1>3, ResetMonthlyPool
<1>4. ASSUME NEW r \in Slot, NEW a \in KeyHealthAction, UpstreamReplies(r, a)
      PROVE  FALSE
  <2>1. req[r].key \in Key
    BY <1>4, ActiveAt DEF UpstreamReplies, RequestOK, Fits, WithKey
  <2> QED
    BY <1>4, <2>1, ReconcilePool DEF UpstreamReplies
<1>5. ASSUME NEW r \in Slot, RequestStep(r) PROVE FALSE
  <2>1. \/ UNCHANGED poolVars
        \/ ResetMonthly
        \/ \E a \in KeyHealthAction : UpstreamReplies(r, a)
    BY <1>5 DEF RequestStep, ArriveHttp, ArriveInitialize, ArriveFollowUp,
                Resolve, ReadUserPrimary, ReadTokenPrimary, LeaseActive,
                LeaseExhausted, Sync, RevokeSessions, RevokeOwn, CreateSession,
                TouchSession
  <2> QED
    BY <1>2, <1>3, <1>4, <2>1
<1>6. PoolStep \/ UNCHANGED poolVars \/ \E r \in Slot : RequestStep(r)
  BY DEF Next, Abort, BindToken, RefreshCache, ExpireSession, Crash
<1> QED
  BY <1>1, <1>2, <1>5, <1>6

(* A key that was disabled, deleted or quarantined becomes usable only by  *)
(* an administrator's step, in which no request moves; answers still on    *)
(* their way and the monthly reset of exhausted keys cannot bring it back. *)
THEOREM UnusableStays == Spec => UnusableNeedsAdmin
<1> DEFINE A == \A k \in Key :
                   ~Usable(k) /\ Usable(k)' =>
                       AdminStep(k) /\ UNCHANGED <<affinityVars, session, req>>
<1>1. AffinityInv /\ [Next]_vars => [A]_vars
  BY UsableByAdmin DEF vars
<1> QED
  BY <1>1, AffinityInvariant, PTL DEF Spec, UnusableNeedsAdmin

LEMMA RevokedStep ==
    ASSUME AffinityInv, Next, NEW s \in SessionId, session[s].st = "revoked"
    PROVE  session'[s].st = "revoked"
<1> USE RequestTypes
<1>1. ASSUME UNCHANGED session PROVE session'[s].st = "revoked"
  BY <1>1
<1>2. ASSUME NEW S \in SUBSET Opened, Revoke(S) PROVE session'[s].st = "revoked"
  <2>1. session[s] \in Session
    BY DEF TypeOK
  <2>2. [session[s] EXCEPT !.st = "revoked"].st = "revoked"
    BY <2>1 DEF Session
  <2> QED
    BY <1>2, <2>2 DEF Revoke
<1>3. ASSUME NEW r \in Slot, RequestStep(r) PROVE session'[s].st = "revoked"
  <2>1. CASE RevokeSessions(r)
    BY <1>2, <2>1 DEF RevokeSessions
  <2>2. CASE RevokeOwn(r)
    <3>1. {req[r].sess} \in SUBSET Opened
      BY <2>2, ActiveAt DEF RevokeOwn, RequestOK, Fits, Active, Opened
    <3> QED
      BY <1>2, <2>2, <3>1 DEF RevokeOwn
  <2>3. ASSUME NEW x \in SessionId, CreateSession(r, x)
        PROVE  session'[s].st = "revoked"
    BY <2>3 DEF CreateSession, TypeOK
  <2>4. CASE TouchSession(r)
    <3> DEFINE x == req[r].sess
    <3>1. x \in SessionId /\ session[x] \in Session
      BY <2>4, ActiveAt DEF TouchSession, RequestOK, Fits, Active, TypeOK
    <3> QED
      BY <2>4, <3>1 DEF TouchSession, TypeOK, Session
  <2>5. \/ UNCHANGED session
        \/ RevokeSessions(r) \/ RevokeOwn(r) \/ TouchSession(r)
        \/ \E x \in SessionId : CreateSession(r, x)
    BY <1>3 DEF RequestStep, ArriveHttp, ArriveInitialize, ArriveFollowUp,
                Resolve, ReadUserPrimary, ReadTokenPrimary, LeaseActive,
                LeaseExhausted, Sync, UpstreamReplies
  <2> QED
    BY <1>1, <2>1, <2>2, <2>3, <2>4, <2>5
<1>4. ASSUME NEW x \in SessionId, ExpireSession(x)
      PROVE  session'[s].st = "revoked"
  BY <1>4 DEF ExpireSession, TypeOK
<1>5. \/ UNCHANGED session
      \/ \E r \in Slot : RequestStep(r)
      \/ \E x \in SessionId : ExpireSession(x)
  BY DEF Next, Abort, BindToken, RefreshCache, PoolStep, Crash
<1> QED
  BY <1>1, <1>3, <1>4, <1>5

(* A revoked row of mcp_sessions is never served again: touch_mcp_session, *)
(* running when the answer of an earlier request comes, does not undo the  *)
(* revocation.                                                             *)
THEOREM RevokedStays == Spec => RevokedForGood
<1> DEFINE A == \A s \in SessionId :
                   session[s].st = "revoked" => session'[s].st = "revoked"
<1>1. AffinityInv /\ [Next]_vars => [A]_vars
  BY RevokedStep DEF vars
<1> QED
  BY <1>1, AffinityInvariant, PTL DEF Spec, RevokedForGood

------------------------------------------------------------------------------
(* One request of a user at a time.                                                  *)

\* A cached binding is the binding.
CacheFresh ==
    \A i \in Instance, t \in Token :
        cache[i][t].known => cache[i][t].user = binding[t]

\* All tokens of a user have its primary key, or none has one.
KeysShared ==
    \A t \in Token : binding[t] # None => tokenKey[t].key = userKey[binding[t]]

\* A session belongs to the user of its token.
SessionsOwned ==
    \A s \in SessionId :
        session[s].st # "absent" => session[s].user = binding[session[s].tok]

Primary(t) == tokenKey[t].key
Alive(s) == session[s].st \in {"active", "expired"}

\* The sessions a rebinding is about to revoke.
ToRevoke(q, x) == IF q.user # None THEN x.user = q.user ELSE x.tok = q.tok
BeingRevoked(s) ==
    \E r \in Slot : At(r, "revoke") /\ ToRevoke(req[r], session[s])

\* A session that may still serve is on the primary key of its token, unless
\* it is about to be revoked.
SessionsFollow ==
    \A s \in SessionId :
        Alive(s) => session[s].key = Primary(session[s].tok) \/ BeingRevoked(s)

Bound == {"user", "token", "keep", "first", "sync", "rebind", "revoke"}

\* What request q has read of the rows is still so.
ReadsHold(q) ==
    LET p == Primary(q.tok) IN
    q.pc # "idle" =>
        /\ q.opens => q.owner = binding[q.tok]
        /\ q.pc \in Bound => q.user = binding[q.tok]
        /\ q.pc = "resolving" => q.old = None
        /\ q.pc = "token" => q.old = IF q.user # None THEN p ELSE None
        /\ q.pc = "keep" => q.todo \in {<<>>, <<p>>}
        /\ q.pc = "first" => p = None
        /\ q.pc = "sync" => p \in {None, q.key}
        /\ q.pc = "revoke" \/ (q.opens /\ q.pc \in {"upstream", "opening"}) => q.key = p
        /\ q.pc = "opening" => q.opens

OrderInv ==
    /\ CacheFresh /\ KeysShared /\ SessionsOwned /\ SessionsFollow
    /\ \A r \in Slot : ReadsHold(req[r])

LEMMA OrderInitInv ==
    ASSUME Init PROVE OrderInv
<1>1. CacheFresh /\ KeysShared /\ SessionsOwned /\ SessionsFollow
  BY DEF Init, CacheFresh, KeysShared, SessionsOwned, SessionsFollow, Alive, Unknown, NoRow
<1>2. \A r \in Slot : ReadsHold(req[r])
  BY DEF Init, ReadsHold
<1> QED
  BY <1>1, <1>2 DEF OrderInv

\* What the cache answers, and is filled with, is the binding.
LEMMA FilledCache ==
    ASSUME TypeOK, CacheFresh, NEW i \in Instance, NEW t \in Token, FillCache(i, t), UNCHANGED binding
    PROVE  UserOf(i, t) = binding[t] /\ CacheFresh'
<1>1. UserOf(i, t) = binding[t]
  BY DEF UserOf, CacheFresh
<1>2. cache' = [cache EXCEPT ![i] = [cache[i] EXCEPT ![t] = Cached(binding[t])]]
  BY <1>1 DEF FillCache
<1>3. Cached(binding[t]).user = binding[t]
  BY DEF Cached
<1> DEFINE Entry == {Unknown} \cup {Cached(u) : u \in MaybeUser}
<1>4. cache \in [Instance -> [Token -> Entry]]
  BY DEF TypeOK
<1> HIDE DEF Entry
<1> QED
  BY <1>1, <1>2, <1>3, <1>4 DEF CacheFresh

\* The request of the slot goes on to q; rows and sessions stay.
LEMMA OrderMove ==
    ASSUME TypeOK, OrderInv, NEW h \in Slot, NEW q, ReadsHold(q), CacheFresh',
           req' = [req EXCEPT ![h] = q], ~At(h, "revoke"),
           UNCHANGED <<binding, userKey, tokenKey, session>>
    PROVE  OrderInv'
<1>1. \A r \in Slot : req'[r] = IF r = h THEN q ELSE req[r]
  BY DEF TypeOK
<1>2. KeysShared' /\ SessionsOwned'
  BY DEF OrderInv, KeysShared, SessionsOwned
<1>3. \A s \in SessionId : BeingRevoked(s) => BeingRevoked(s)'
  BY <1>1 DEF BeingRevoked, ToRevoke
<1>4. SessionsFollow'
  BY <1>3 DEF OrderInv, SessionsFollow, Alive, Primary
<1>5. ASSUME NEW r \in Slot PROVE ReadsHold(req[r])'
  <2>1. CASE r = h
    BY <1>1, <2>1 DEF ReadsHold, Primary
  <2>2. CASE r # h
    BY <1>1, <2>2 DEF OrderInv, ReadsHold, Primary
  <2> QED
    BY <2>1, <2>2
<1> QED
  BY <1>2, <1>4, <1>5 DEF OrderInv

LEMMA SameCacheFresh ==
    ASSUME OrderInv, UNCHANGED <<cache, binding>> PROVE CacheFresh'
  BY DEF OrderInv, CacheFresh

LEMMA OrderFinish ==
    ASSUME TypeOK, OrderInv, NEW h \in Slot, Finish(h), ~At(h, "revoke"),
           UNCHANGED <<cache, binding, userKey, tokenKey, session>>
    PROVE  OrderInv'
<1>1. ReadsHold(Idle)
  BY DEF ReadsHold
<1> QED
  BY <1>1, SameCacheFresh, OrderMove DEF Finish

LEMMA OrderArrive ==
    ASSUME AffinityInv, OrderInv, NEW h \in Slot, NEW t \in Token,
           \/ ArriveHttp(h, t)
           \/ ArriveInitialize(h, t)
           \/ \E s \in SessionId : ArriveFollowUp(h, t, s)
    PROVE  OrderInv'
<1> USE RequestTypes
<1>0. InstanceOf[h] \in Instance /\ At(h, "idle") /\ CacheFresh
  BY SlotAssumption DEF ArriveHttp, ArriveInitialize, ArriveFollowUp, OrderInv
<1>1. UNCHANGED <<binding, userKey, tokenKey, session>>
  BY DEF ArriveHttp, ArriveInitialize, ArriveFollowUp, affinityVars
<1>2. CASE ArriveHttp(h, t)
  <2>1. ReadsHold(NewRequest(t, 0, None, None))
    BY DEF ReadsHold, NewRequest, Bound
  <2>2. CacheFresh'
    BY <1>2, SameCacheFresh DEF ArriveHttp, affinityVars
  <2> QED
    BY <1>0, <1>1, <1>2, <2>1, <2>2, OrderMove DEF ArriveHttp
<1>3. CASE ArriveInitialize(h, t)
  <2> DEFINE q == [NewRequest(t, 0, None, UserOf(InstanceOf[h], t)) EXCEPT !.opens = TRUE]
  <2>1. UserOf(InstanceOf[h], t) = binding[t] /\ CacheFresh'
    BY <1>0, <1>3, FilledCache DEF ArriveInitialize
  <2>2. q.tok = t /\ q.owner = binding[t] /\ q.pc = "resolving" /\ q.old = None
    BY <2>1 DEF NewRequest
  <2>3. req' = [req EXCEPT ![h] = q]
    BY <1>3 DEF ArriveInitialize
  <2> HIDE DEF q
  <2>4. ReadsHold(q)
    BY <2>2 DEF ReadsHold, Bound
  <2> QED
    BY <1>0, <1>1, <2>1, <2>3, <2>4, OrderMove
<1>4. ASSUME NEW s \in SessionId, ArriveFollowUp(h, t, s) PROVE OrderInv'
  <2> DEFINE q == [NewRequest(t, s, session[s].key, None) EXCEPT !.pc = "pinned"]
  <2>1. CacheFresh'
    BY <1>0, <1>4, FilledCache DEF ArriveFollowUp
  <2>2. q.opens = FALSE /\ q.pc = "pinned"
    BY DEF NewRequest
  <2>3. req' = [req EXCEPT ![h] = q]
    BY <1>4 DEF ArriveFollowUp
  <2> HIDE DEF q
  <2>4. ReadsHold(q)
    BY <2>2 DEF ReadsHold, Bound
  <2> QED
    BY <1>0, <1>1, <2>1, <2>3, <2>4, OrderMove
<1> QED
  BY <1>2, <1>3, <1>4

LEMMA OrderResolve ==
    ASSUME AffinityInv, OrderInv, NEW h \in Slot, Resolve(h)
    PROVE  OrderInv'
<1> USE RequestTypes
<1> DEFINE t == req[h].tok
           u == UserOf(InstanceOf[h], t)
           pc == IF u = None THEN "token" ELSE "user"
           q == [req[h] EXCEPT !.user = u, !.pc = pc]
<1>1. req[h] \in Active
  BY NoSession DEF Resolve
<1>2. InstanceOf[h] \in Instance /\ t \in Token
  BY <1>1, SlotAssumption DEF Active
<1>3. u = binding[t] /\ CacheFresh'
  BY <1>2, FilledCache DEF Resolve, OrderInv
<1>4. req' = [req EXCEPT ![h] = q]
  BY DEF Resolve, TypeOK
<1>5. ReadsHold(req[h]) /\ req[h].pc = "resolving"
  BY DEF Resolve, OrderInv
<1> HIDE DEF u
<1>6. /\ q.user = u /\ q.pc = pc /\ q.opens = req[h].opens /\ q.owner = req[h].owner
      /\ q.tok = t /\ q.old = req[h].old
  BY <1>1 DEF Active
<1> HIDE DEF q
<1>7. ReadsHold(q)
  <2>1. CASE u = None
    BY <1>3, <1>5, <1>6, <2>1 DEF ReadsHold
  <2>2. CASE u # None
    BY <1>3, <1>5, <1>6, <2>2 DEF ReadsHold
  <2> QED
    BY <2>1, <2>2
<1> QED
  BY <1>3, <1>4, <1>5, <1>7, OrderMove DEF Resolve

LEMMA OrderReadUser ==
    ASSUME AffinityInv, OrderInv, NEW h \in Slot, ReadUserPrimary(h)
    PROVE  OrderInv'
<1> USE RequestTypes
<1> DEFINE q == [req[h] EXCEPT !.old = userKey[req[h].user], !.pc = "token"]
<1>1. req[h] \in Active /\ req[h].user \in User
  BY NoSession DEF ReadUserPrimary, RequestOK, Fits
<1>2. ReadsHold(req[h]) /\ req[h].pc = "user"
  BY DEF ReadUserPrimary, OrderInv
<1>3. req[h].tok \in Token /\ req[h].user = binding[req[h].tok] /\ req[h].user # None
  BY <1>1, <1>2, NoneAssumption DEF Active, ReadsHold, Bound
<1>4. userKey[req[h].user] = Primary(req[h].tok)
  BY <1>3 DEF OrderInv, KeysShared, Primary
<1>5. req' = [req EXCEPT ![h] = q]
  BY DEF ReadUserPrimary, TypeOK
<1>6. /\ q.pc = "token" /\ q.opens = req[h].opens /\ q.owner = req[h].owner /\ q.tok = req[h].tok
      /\ q.user = req[h].user /\ q.old = Primary(req[h].tok)
  BY <1>1, <1>4 DEF Active
<1> HIDE DEF q
<1>7. ReadsHold(q)
  BY <1>2, <1>3, <1>6 DEF ReadsHold
<1>8. CacheFresh'
  BY SameCacheFresh DEF ReadUserPrimary, affinityVars
<1> QED
  BY <1>2, <1>5, <1>7, <1>8, OrderMove DEF ReadUserPrimary, affinityVars

\* The keys a bound token may keep: the primary key it shares with its user.
LEMMA ChoicesInOrder ==
    ASSUME NEW h, NEW legacy, req[h].user # None,
           req[h].old = Primary(req[h].tok), req[h].old # None
    PROVE  Choices(h, legacy) = <<req[h].old>>
<1> DEFINE up == req[h].old
           tp == tokenKey[req[h].tok]
<1>1. tp.key = up
  BY DEF Primary
<1>2. Choices(h, legacy) = <<up>> \o <<>> \o <<>>
  BY <1>1 DEF Choices
<1>3. <<up>> \in Seq({up}) /\ <<>> \in Seq({up})
  OBVIOUS
<1> HIDE DEF up
<1>4. <<up>> \o <<>> \o <<>> = <<up>>
  BY <1>3
<1> QED
  BY <1>2, <1>4 DEF up

LEMMA OrderReadToken ==
    ASSUME AffinityInv, OrderInv, NEW h \in Slot, NEW legacy \in MaybeKey,
           ReadTokenPrimary(h, legacy)
    PROVE  OrderInv'
<1> USE RequestTypes
<1> DEFINE p == Primary(req[h].tok)
<1>1. req[h] \in Active /\ req[h].sess = 0
  BY NoSession DEF ReadTokenPrimary
<1>2. ReadsHold(req[h]) /\ req[h].pc = "token"
  BY DEF ReadTokenPrimary, OrderInv
<1>3. \E todo, old, pc :
         /\ pc = "keep" => todo = <<p>>
         /\ pc = "first" => p = None
         /\ pc \in {"keep", "first"}
         /\ req' = [req EXCEPT ![h] = [req[h] EXCEPT !.todo = todo, !.old = old, !.pc = pc]]
  <2>1. CASE req[h].user # None
    <3> DEFINE pc == IF req[h].old # None \/ p # None THEN "keep" ELSE "first"
    <3>1. req[h].old = p
      BY <1>2, <2>1 DEF ReadsHold
    <3>2. req' = [req EXCEPT ![h] = [req[h] EXCEPT
                    !.todo = Choices(h, legacy), !.old = req[h].old, !.pc = pc]]
      BY <1>1, <2>1 DEF ReadTokenPrimary, Active, TypeOK, Primary
    <3>3. p # None => Choices(h, legacy) = <<p>>
      BY <2>1, <3>1, ChoicesInOrder
    <3> HIDE DEF p
    <3>4. pc \in {"keep", "first"} /\ (pc = "keep" => p # None) /\ (pc = "first" => p = None)
      BY <3>1
    <3> HIDE DEF pc
    <3> QED
      BY <3>2, <3>3, <3>4
  <2>2. CASE req[h].user = None
    <3> DEFINE pc == IF p # None THEN "keep" ELSE "first"
               todo == IF p # None THEN <<p>> ELSE <<>>
    <3>1. req' = [req EXCEPT ![h] = [req[h] EXCEPT !.todo = todo, !.old = p, !.pc = pc]]
      BY <1>1, <2>2 DEF ReadTokenPrimary, Active, TypeOK, Primary
    <3> HIDE DEF p
    <3>2. pc \in {"keep", "first"} /\ (pc = "keep" => todo = <<p>>) /\ (pc = "first" => p = None)
      OBVIOUS
    <3> HIDE DEF pc, todo
    <3> QED
      BY <3>1, <3>2
  <2> QED
    BY <2>1, <2>2
<1>4. PICK todo, old, pc :
         /\ pc = "keep" => todo = <<p>>
         /\ pc = "first" => p = None
         /\ pc \in {"keep", "first"}
         /\ req' = [req EXCEPT ![h] = [req[h] EXCEPT !.todo = todo, !.old = old, !.pc = pc]]
  BY <1>3
<1> DEFINE q == [req[h] EXCEPT !.todo = todo, !.old = old, !.pc = pc]
<1>5. /\ q.pc = pc /\ q.todo = todo /\ q.opens = req[h].opens /\ q.owner = req[h].owner
      /\ q.tok = req[h].tok /\ q.user = req[h].user
  BY <1>1 DEF Active
<1>6. req' = [req EXCEPT ![h] = q]
  BY <1>4
<1> HIDE DEF q
<1>7. ReadsHold(q)
  BY <1>2, <1>4, <1>5 DEF ReadsHold, Bound
<1>8. CacheFresh'
  BY SameCacheFresh DEF ReadTokenPrimary, affinityVars
<1> QED
  BY <1>2, <1>6, <1>7, <1>8, OrderMove DEF ReadTokenPrimary, affinityVars

\* The lease that answers a request is of its primary key, the first it ever
\* has, or the one it is rebound to.
LEMMA OrderLeased ==
    ASSUME AffinityInv, OrderInv, NEW h \in Slot, req[h].pc \in Leasing,
           NEW k \in Wanted(h), Leased(h, k),
           UNCHANGED <<cache, binding, userKey, tokenKey, session>>
    PROVE  OrderInv'
<1> USE RequestTypes
<1> DEFINE p == Primary(req[h].tok)
           pc == IF At(h, "pinned") THEN "upstream"
                 ELSE IF At(h, "keep") /\ req[h].todo = <<>>
                 THEN "rebind" ELSE "sync"
           q == [req[h] EXCEPT !.key = k, !.old = None, !.todo = <<>>,
                               !.missed = FALSE, !.pc = pc]
<1>1. req[h] \in Active
  BY WantedKeys
<1>2. ReadsHold(req[h]) /\ (At(h, "pinned") => req[h].opens = FALSE)
  BY <1>1 DEF OrderInv, RequestOK, Fits
<1>3. req' = [req EXCEPT ![h] = q]
  BY DEF Leased, TypeOK
<1>4. /\ q.pc = pc /\ q.key = k /\ q.opens = req[h].opens /\ q.owner = req[h].owner
      /\ q.tok = req[h].tok /\ q.user = req[h].user
  <2> HIDE DEF pc
  <2> QED
    BY <1>1 DEF Active
<1> HIDE DEF q
<1>5. CASE At(h, "pinned")
  <2>1. ReadsHold(q)
    BY <1>2, <1>4, <1>5 DEF ReadsHold, Bound
  <2> QED
    BY <1>3, <1>5, <2>1, SameCacheFresh, OrderMove
<1>6. CASE At(h, "first")
  <2>1. ReadsHold(q)
    BY <1>2, <1>4, <1>6 DEF ReadsHold, Bound
  <2> QED
    BY <1>3, <1>6, <2>1, SameCacheFresh, OrderMove
<1>7. CASE At(h, "keep")
  <2>1. CASE req[h].todo = <<>>
    <3>1. ReadsHold(q)
      BY <1>2, <1>4, <1>7, <2>1 DEF ReadsHold, Bound
    <3> QED
      BY <1>3, <1>7, <3>1, SameCacheFresh, OrderMove
  <2>2. CASE req[h].todo # <<>>
    <3>1. req[h].todo = <<p>>
      BY <1>2, <1>7, <2>2 DEF ReadsHold
    <3>2. k = p
      BY <1>7, <3>1 DEF Wanted
    <3>3. ReadsHold(q)
      BY <1>2, <1>4, <1>7, <2>2, <3>2 DEF ReadsHold, Bound
    <3> QED
      BY <1>3, <1>7, <3>3, SameCacheFresh, OrderMove
  <2> QED
    BY <2>1, <2>2
<1> QED
  BY <1>5, <1>6, <1>7 DEF Leasing

LEMMA OrderLease ==
    ASSUME AffinityInv, OrderInv, NEW h \in Slot, LeaseActive(h) \/ LeaseExhausted(h)
    PROVE  OrderInv'
<1> USE RequestTypes
<1>1. req[h].pc \in Leasing /\ UNCHANGED <<cache, binding, userKey, tokenKey, session>>
  BY DEF LeaseActive, LeaseExhausted, Leasing, affinityVars
<1>2. req[h] \in Active /\ ReadsHold(req[h])
  BY <1>1, WantedKeys DEF OrderInv
<1>3. ASSUME NEW k \in Wanted(h), Leased(h, k) PROVE OrderInv'
  BY <1>1, <1>3, OrderLeased
<1>4. ASSUME req' = [req EXCEPT ![h].missed = TRUE] PROVE OrderInv'
  <2> DEFINE q == [req[h] EXCEPT !.missed = TRUE]
  <2>1. /\ q.pc = req[h].pc /\ q.todo = req[h].todo /\ q.opens = req[h].opens /\ q.key = req[h].key
        /\ q.owner = req[h].owner /\ q.tok = req[h].tok /\ q.user = req[h].user /\ q.old = req[h].old
    BY <1>2 DEF Active
  <2>2. req' = [req EXCEPT ![h] = q]
    BY <1>4 DEF TypeOK
  <2> HIDE DEF q
  <2>3. ReadsHold(q)
    BY <1>2, <2>1 DEF ReadsHold
  <2> QED
    BY <1>1, <2>2, <2>3, SameCacheFresh, OrderMove DEF Leasing
<1>5. ASSUME NotLeased(h) PROVE OrderInv'
  <2>1. CASE Finish(h)
    BY <1>1, <2>1, OrderFinish DEF Leasing
  <2>2. ASSUME At(h, "pinned"), req' = [req EXCEPT ![h].pc = "unpin", ![h].missed = FALSE]
        PROVE  OrderInv'
    <3> DEFINE q == [req[h] EXCEPT !.pc = "unpin", !.missed = FALSE]
    <3>1. q.pc = "unpin" /\ q.opens = req[h].opens /\ q.owner = req[h].owner /\ q.tok = req[h].tok
      BY <1>2 DEF Active
    <3>2. req' = [req EXCEPT ![h] = q]
      BY <2>2 DEF TypeOK
    <3> HIDE DEF q
    <3>3. ReadsHold(q)
      BY <1>2, <2>2, <3>1 DEF ReadsHold, Bound
    <3> QED
      BY <1>1, <2>2, <3>2, <3>3, SameCacheFresh, OrderMove
  <2>3. ASSUME req[h].todo # <<>>, req' = [req EXCEPT ![h].todo = Tail(@), ![h].missed = FALSE]
        PROVE  OrderInv'
    <3> DEFINE q == [req[h] EXCEPT !.todo = Tail(req[h].todo), !.missed = FALSE]
    <3>1. /\ q.pc = req[h].pc /\ q.todo = Tail(req[h].todo) /\ q.opens = req[h].opens /\ q.key = req[h].key
          /\ q.owner = req[h].owner /\ q.tok = req[h].tok /\ q.user = req[h].user /\ q.old = req[h].old
      BY <1>2 DEF Active
    <3>2. req' = [req EXCEPT ![h] = q]
      BY <2>3 DEF TypeOK
    <3>3. At(h, "keep") => Tail(req[h].todo) = <<>>
      <4>1. At(h, "keep") => req[h].todo = <<Primary(req[h].tok)>>
        BY <1>2, <2>3 DEF ReadsHold
      <4>2. \A x : Tail(<<x>>) = <<>>
        OBVIOUS
      <4> QED
        BY <4>1, <4>2
    <3> HIDE DEF q
    <3>4. ReadsHold(q)
      BY <1>1, <1>2, <3>1, <3>3 DEF ReadsHold, Leasing
    <3> QED
      BY <1>1, <3>2, <3>4, SameCacheFresh, OrderMove DEF Leasing
  <2> QED
    BY <1>5, <2>1, <2>2, <2>3 DEF NotLeased
<1>6. ActiveKeys(Wanted(h)) \subseteq Wanted(h) /\ ExhaustedKeys(Wanted(h)) \subseteq Wanted(h)
  BY DEF ActiveKeys, ExhaustedKeys
<1> QED
  BY <1>3, <1>4, <1>5, <1>6 DEF LeaseActive, LeaseExhausted

\* A request that writes the primary key down: its user's, or its own.
LEMMA OrderSync ==
    ASSUME AffinityInv, OrderInv, OneAtATime, NEW h \in Slot, Sync(h)
    PROVE  OrderInv'
<1> USE RequestTypes
<1> DEFINE t == req[h].tok
           u == req[h].user
           k == req[h].key
<1>1. /\ req[h] \in Active /\ req[h].sess = 0 /\ k \in Key /\ t \in Token
      /\ k # None
  BY NoSession, NoneAssumption DEF Sync, WithKey, RequestOK, Fits, Active
<1>2. ReadsHold(req[h]) /\ u = binding[t] /\ u \in MaybeUser
  BY <1>1 DEF Sync, OrderInv, ReadsHold, Bound, Active
<1>3. UNCHANGED <<poolVars, binding, cache, session>> /\ CacheFresh'
  BY SameCacheFresh DEF Sync
<1>4. /\ binding \in [Token -> MaybeUser] /\ userKey \in [User -> MaybeKey]
      /\ tokenKey \in [Token -> [user : MaybeUser, key : MaybeKey]]
  BY DEF TypeOK
\* The tokens whose primary key is written, and that of the others.
<1> DEFINE Same(x) == IF u # None THEN binding[x] = u ELSE x = t
<1>5. /\ \A x \in Token : Same(x) => tokenKey'[x].key = k
      /\ \A x \in Token : ~Same(x) => tokenKey'[x].key = tokenKey[x].key
  <2>1. CASE u # None
    BY <1>2, <1>4, <2>1 DEF Sync, SyncUser
  <2>2. CASE u = None
    <3>1. tokenKey' = [tokenKey EXCEPT ![t] = [user |-> None, key |-> k]]
      BY <2>2 DEF Sync, SetToken
    <3> QED
      BY <1>1, <1>4, <2>2, <3>1
  <2> QED
    BY <2>1, <2>2
<1>6. KeysShared'
  <2>1. CASE u # None
    <3>1. userKey' = [userKey EXCEPT ![u] = k] /\ u \in User
      BY <1>2, <2>1 DEF Sync, SyncUser, MaybeUser
    <3> QED
      BY <1>3, <1>4, <1>5, <2>1, <3>1 DEF OrderInv, KeysShared, MaybeUser
  <2>2. CASE u = None
    <3>1. UNCHANGED userKey
      BY <2>2 DEF Sync, SetToken
    <3> QED
      BY <1>2, <1>3, <1>5, <2>2, <3>1 DEF OrderInv, KeysShared
  <2> QED
    BY <2>1, <2>2
<1>7. SessionsOwned'
  BY <1>3 DEF OrderInv, SessionsOwned
<1>8. ASSUME NEW s \in SessionId, Alive(s)
      PROVE  /\ session[s] \in Session /\ session[s].user = binding[session[s].tok]
             /\ session[s].tok \in Token
             /\ session[s].key = Primary(session[s].tok) \/ BeingRevoked(s)
  <2>1. session[s] \in Session
    BY <1>8 DEF Alive, TypeOK, Absent
  <2> QED
    BY <1>8, <2>1 DEF OrderInv, SessionsOwned, SessionsFollow, Session, Alive
<1>9. ASSUME NEW r \in Slot, r # h PROVE req'[r] = req[r]
  BY <1>9 DEF Sync, GoTo, Send, TypeOK
\* A request of another user or token reads and revokes nothing of what is written.
<1>10. ASSUME NEW r \in Slot, r # h PROVE ReadsHold(req[r])'
  <2>1. CASE req[r].pc = "idle"
    BY <1>9, <1>10, <2>1 DEF ReadsHold
  <2>2. CASE req[r].pc # "idle"
    <3>1. req[r].tok \in Token
      <4>1. req[r] \in Active
        BY <2>2 DEF TypeOK, Idle
      <4> QED
        BY <4>1 DEF Active
    <3>2. ~Same(req[r].tok)
      BY <1>2, <1>10, <2>2 DEF OneAtATime, Shares, Sync
    <3>3. Primary(req[r].tok)' = Primary(req[r].tok)
      BY <1>5, <1>9, <1>10, <3>1, <3>2 DEF Primary
    <3> QED
      BY <1>3, <1>9, <1>10, <3>3 DEF OrderInv, ReadsHold, Primary
  <2> QED
    BY <2>1, <2>2
<1>t. Same(t)
  BY <1>2
<1>r. ~At(h, "revoke")
  BY DEF Sync
<1>b. ASSUME NEW s \in SessionId, BeingRevoked(s) PROVE BeingRevoked(s)'
  BY <1>3, <1>9, <1>r, <1>b DEF BeingRevoked, ToRevoke
<1> HIDE DEF Same
<1>11. CASE At(h, "rebind")
  <2>0. PICK q : q = [req[h] EXCEPT !.pc = "revoke"]
    OBVIOUS
  <2>1. req' = [req EXCEPT ![h] = q]
    BY <1>11, <2>0 DEF Sync, GoTo, TypeOK
  <2>2. /\ q.pc = "revoke" /\ q.key = k /\ q.opens = req[h].opens /\ q.owner = req[h].owner
        /\ q.tok = t /\ q.user = u
    BY <1>1, <2>0 DEF Active
  <2>3. req'[h] = q
    BY <2>1 DEF TypeOK
  <2>4. ReadsHold(q)'
    BY <1>1, <1>2, <1>3, <1>5, <1>t, <1>11, <2>2 DEF ReadsHold, Primary, Bound
  <2>5. ASSUME NEW s \in SessionId, Alive(s)
        PROVE  session[s].key = tokenKey'[session[s].tok].key \/ BeingRevoked(s)'
    <3>1. CASE Same(session[s].tok)
      <4>1. ToRevoke(q, session[s])
        BY <1>8, <2>2, <2>5, <3>1 DEF ToRevoke, Same
      <4> QED
        BY <1>3, <2>2, <2>3, <4>1 DEF BeingRevoked
    <3>2. CASE ~Same(session[s].tok)
      BY <1>5, <1>8, <1>b, <2>5, <3>2 DEF Primary
    <3> QED
      BY <3>1, <3>2
  <2>6. SessionsFollow'
    BY <1>3, <2>5 DEF SessionsFollow, Primary, Alive
  <2>7. \A r \in Slot : ReadsHold(req[r])'
    BY <1>10, <2>3, <2>4
  <2> QED
    BY <1>3, <1>6, <1>7, <2>6, <2>7 DEF OrderInv
<1>12. CASE At(h, "sync")
  <2>0. PICK q : q = [req[h] EXCEPT !.pc = "upstream", !.user = None]
    OBVIOUS
  <2>1. req' = [req EXCEPT ![h] = q]
    BY <1>12, <2>0 DEF Sync, Send, TypeOK
  <2>2. /\ q.pc = "upstream" /\ q.key = k /\ q.opens = req[h].opens /\ q.owner = req[h].owner /\ q.tok = t
    BY <1>1, <2>0 DEF Active
  <2>3. req'[h] = q
    BY <2>1 DEF TypeOK
  <2>4. ReadsHold(q)'
    BY <1>1, <1>2, <1>3, <1>5, <1>t, <1>12, <2>2 DEF ReadsHold, Primary, Bound
  <2>5. Primary(t) \in {None, k}
    BY <1>2, <1>12 DEF ReadsHold
  <2>6. ASSUME NEW x \in Token, Same(x) PROVE Primary(x) = Primary(t)
    BY <1>1, <1>2, <2>6 DEF Same, OrderInv, KeysShared, Primary
  <2>7. ASSUME NEW s \in SessionId, Alive(s)
        PROVE  session[s].key = tokenKey'[session[s].tok].key \/ BeingRevoked(s)'
    <3>1. session[s].key # None
      BY <1>8, <2>7, NoneAssumption DEF Session
    <3> QED
      BY <1>5, <1>8, <1>b, <2>5, <2>6, <2>7, <3>1 DEF Primary
  <2>8. SessionsFollow'
    BY <1>3, <2>7 DEF SessionsFollow, Primary, Alive
  <2>9. \A r \in Slot : ReadsHold(req[r])'
    BY <1>10, <2>3, <2>4
  <2> QED
    BY <1>3, <1>6, <1>7, <2>8, <2>9 DEF OrderInv
<1> QED
  BY <1>11, <1>12 DEF Sync

\* Another request than h is about to revoke a session.
RevokedByOther(h, x) == \E r \in Slot : r # h /\ At(r, "revoke") /\ ToRevoke(req[r], x)

\* The rows stay, and the sessions that are still alive follow them.
LEMMA OrderSessions ==
    ASSUME TypeOK, OrderInv, NEW h \in Slot, NEW q, ReadsHold(q), q.pc # "revoke",
           req' = [req EXCEPT ![h] = q], UNCHANGED <<cache, binding, userKey, tokenKey>>,
           \A s \in SessionId : session'[s].st # "absent" => session'[s].user = binding[session'[s].tok],
           \A s \in SessionId :
               Alive(s)' => session'[s].key = Primary(session'[s].tok) \/ RevokedByOther(h, session'[s])
    PROVE  OrderInv'
<1>1. \A r \in Slot : req'[r] = IF r = h THEN q ELSE req[r]
  BY DEF TypeOK
<1>2. CacheFresh' /\ KeysShared' /\ SessionsOwned'
  BY SameCacheFresh DEF OrderInv, KeysShared, SessionsOwned
<1>3. \A s \in SessionId : RevokedByOther(h, session'[s]) => BeingRevoked(s)'
  BY <1>1 DEF RevokedByOther, BeingRevoked, ToRevoke
<1>4. SessionsFollow'
  BY <1>3 DEF SessionsFollow, Primary
<1>5. ASSUME NEW r \in Slot PROVE ReadsHold(req[r])'
  <2>1. CASE r = h
    BY <1>1, <2>1 DEF ReadsHold, Primary
  <2>2. CASE r # h
    BY <1>1, <2>2 DEF OrderInv, ReadsHold, Primary
  <2> QED
    BY <2>1, <2>2
<1> QED
  BY <1>2, <1>4, <1>5 DEF OrderInv

\* Revoking sessions that have a row keeps whose they are and their keys.
LEMMA RevokedKeep ==
    ASSUME TypeOK, NEW S \in SUBSET Opened, Revoke(S)
    PROVE  \A s \in SessionId : /\ session'[s].st # "absent" => session[s].st # "absent"
                                /\ Alive(s)' => Alive(s) /\ s \notin S
                                /\ session'[s].st # "absent" => /\ session'[s].user = session[s].user
                                                                /\ session'[s].tok = session[s].tok
                                                                /\ session'[s].key = session[s].key
<1>1. ASSUME NEW s \in SessionId, s \in S
      PROVE  /\ session[s] \in Session
             /\ session'[s] = [session[s] EXCEPT !.st = "revoked"]
  BY <1>1 DEF TypeOK, Opened, Revoke
<1>2. ASSUME NEW s \in SessionId, s \notin S PROVE session'[s] = session[s]
  BY <1>2 DEF Revoke
<1>3. ASSUME NEW s \in SessionId, s \in S
      PROVE  /\ session[s].st # "absent" /\ session'[s].st = "revoked"
             /\ session'[s].user = session[s].user /\ session'[s].tok = session[s].tok
             /\ session'[s].key = session[s].key
  BY <1>1, <1>3 DEF Session
<1> QED
  BY <1>2, <1>3 DEF Alive

LEMMA OrderRevoke ==
    ASSUME AffinityInv, OrderInv, NEW h \in Slot, RevokeSessions(h) \/ RevokeOwn(h)
    PROVE  OrderInv'
<1> USE RequestTypes
<1>1. ReadsHold(req[h]) /\ UNCHANGED <<cache, binding, userKey, tokenKey>>
  BY DEF OrderInv, RevokeSessions, RevokeOwn, affinityVars
<1>2. CASE RevokeSessions(h)
  <2> DEFINE S == {s \in Opened : IF req[h].user # None
                                  THEN session[s].user = req[h].user
                                  ELSE session[s].tok = req[h].tok}
             q == [req[h] EXCEPT !.pc = "upstream", !.user = None]
  <2>1. S \in SUBSET Opened /\ Revoke(S)
    BY <1>2 DEF RevokeSessions
  <2>2. \A s \in SessionId : BeingRevoked(s) /\ Alive(s) => s \in S \/ RevokedByOther(h, session[s])
    BY DEF BeingRevoked, RevokedByOther, ToRevoke, Alive, Opened
  <2> HIDE DEF S
  <2>3. req[h] \in Active
    BY <1>2, ActiveAt DEF RevokeSessions
  <2>4. req' = [req EXCEPT ![h] = q]
    BY <1>2 DEF RevokeSessions, Send, TypeOK
  <2>5. /\ q.pc = "upstream" /\ q.key = req[h].key /\ q.opens = req[h].opens /\ q.owner = req[h].owner
        /\ q.tok = req[h].tok
    BY <2>3 DEF Active
  <2> HIDE DEF q
  <2>6. ReadsHold(q)
    BY <1>1, <1>2, <2>5 DEF ReadsHold, RevokeSessions, Bound
  <2>7. \A s \in SessionId : Alive(s)' => session'[s].st # "absent"
    BY DEF Alive
  <2>8. ASSUME NEW s \in SessionId, Alive(s)'
        PROVE  session'[s].key = Primary(session'[s].tok) \/ RevokedByOther(h, session'[s])
    <3>1. /\ Alive(s) /\ s \notin S
          /\ session'[s].user = session[s].user /\ session'[s].tok = session[s].tok
          /\ session'[s].key = session[s].key
      BY <2>1, <2>7, <2>8, RevokedKeep
    <3>2. session[s].key = Primary(session[s].tok) \/ RevokedByOther(h, session[s])
      BY <2>2, <3>1 DEF OrderInv, SessionsFollow
    <3> QED
      BY <3>1, <3>2 DEF RevokedByOther, ToRevoke
  <2>9. \A s \in SessionId : session'[s].st # "absent" => session'[s].user = binding[session'[s].tok]
    BY <2>1, RevokedKeep DEF OrderInv, SessionsOwned
  <2> QED
    BY <1>1, <2>4, <2>5, <2>6, <2>8, <2>9, OrderSessions
<1>3. CASE RevokeOwn(h)
  <2>1. req[h] \in Active /\ req[h].sess # 0 /\ At(h, "unpin")
    BY <1>3, ActiveAt DEF RevokeOwn, RequestOK, Fits
  <2>2. {req[h].sess} \in SUBSET Opened /\ Revoke({req[h].sess})
    BY <1>3, <2>1 DEF RevokeOwn, RequestOK, Fits, Active, Opened
  <2>3. \A s \in SessionId : BeingRevoked(s) => RevokedByOther(h, session[s])
    BY <2>1 DEF BeingRevoked, RevokedByOther
  <2>4. \A s \in SessionId : Alive(s)' => session'[s].st # "absent"
    BY DEF Alive
  <2>5. ASSUME NEW s \in SessionId, Alive(s)'
        PROVE  session'[s].key = Primary(session'[s].tok) \/ RevokedByOther(h, session'[s])
    <3>1. /\ Alive(s)
          /\ session'[s].user = session[s].user /\ session'[s].tok = session[s].tok
          /\ session'[s].key = session[s].key
      BY <2>2, <2>4, <2>5, RevokedKeep
    <3>2. session[s].key = Primary(session[s].tok) \/ RevokedByOther(h, session[s])
      BY <2>3, <3>1 DEF OrderInv, SessionsFollow
    <3> QED
      BY <3>1, <3>2 DEF RevokedByOther, ToRevoke
  <2>6. \A s \in SessionId : session'[s].st # "absent" => session'[s].user = binding[session'[s].tok]
    BY <2>2, RevokedKeep DEF OrderInv, SessionsOwned
  <2>7. ReadsHold(Idle) /\ req' = [req EXCEPT ![h] = Idle]
    BY <1>3 DEF ReadsHold, RevokeOwn, Finish
  <2> QED
    BY <1>1, <2>5, <2>6, <2>7, OrderSessions
<1> QED
  BY <1>2, <1>3

LEMMA OrderUpstream ==
    ASSUME AffinityInv, OrderInv, NEW h \in Slot, NEW a \in KeyHealthAction, UpstreamReplies(h, a)
    PROVE  OrderInv'
<1> USE RequestTypes
<1>1. /\ req[h].pc = "upstream" /\ req[h] \in Active /\ ReadsHold(req[h])
      /\ UNCHANGED <<cache, binding, userKey, tokenKey, session>>
  BY ActiveAt DEF UpstreamReplies, OrderInv, affinityVars
<1>2. CASE Finish(h)
  BY <1>1, <1>2, OrderFinish
<1>3. ASSUME NEW label \in {"opening", "touching", "unpin"}, GoTo(h, label), label = "opening" => req[h].opens
      PROVE  OrderInv'
  <2> DEFINE q == [req[h] EXCEPT !.pc = label]
  <2>1. req' = [req EXCEPT ![h] = q]
    BY <1>3 DEF GoTo, TypeOK
  <2>2. /\ q.pc = label /\ q.key = req[h].key /\ q.opens = req[h].opens /\ q.owner = req[h].owner
        /\ q.tok = req[h].tok
    BY <1>1 DEF Active
  <2> HIDE DEF q
  <2>3. ReadsHold(q)
    BY <1>1, <1>3, <2>2 DEF ReadsHold, Bound
  <2> QED
    BY <1>1, <2>1, <2>3, SameCacheFresh, OrderMove
<1> QED
  BY <1>2, <1>3 DEF UpstreamReplies

LEMMA OrderSession ==
    ASSUME AffinityInv, OrderInv, NEW h \in Slot,
           (\E s \in SessionId : CreateSession(h, s)) \/ TouchSession(h)
    PROVE  OrderInv'
<1> USE RequestTypes
<1>1. /\ UNCHANGED <<cache, binding, userKey, tokenKey>> /\ req' = [req EXCEPT ![h] = Idle]
      /\ ReadsHold(Idle) /\ ReadsHold(req[h]) /\ req[h] \in Active
      /\ \A s \in SessionId : BeingRevoked(s) => RevokedByOther(h, session[s])
  BY ActiveAt DEF CreateSession, TouchSession, affinityVars, Finish, ReadsHold, OrderInv, BeingRevoked, RevokedByOther
<1>2. \A s \in SessionId : /\ session[s].st # "absent" => session[s].user = binding[session[s].tok]
                           /\ Alive(s) => session[s].key = Primary(session[s].tok) \/ RevokedByOther(h, session[s])
  BY <1>1 DEF OrderInv, SessionsOwned, SessionsFollow
<1>3. ASSUME NEW s \in SessionId, CreateSession(h, s) PROVE OrderInv'
  <2> DEFINE new == [st |-> "active", tok |-> req[h].tok, user |-> req[h].owner, key |-> req[h].key]
  <2>1. session' = [session EXCEPT ![s] = new] /\ At(h, "opening")
    BY <1>3 DEF CreateSession
  <2>2. new.user = binding[new.tok] /\ new.key = Primary(new.tok)
    BY <1>1, <2>1 DEF ReadsHold
  <2> HIDE DEF new
  <2>3. \A x \in SessionId : session'[x] = IF x = s THEN new ELSE session[x]
    BY <2>1 DEF TypeOK
  <2>4. \A x \in SessionId : /\ session'[x].st # "absent" => session'[x].user = binding[session'[x].tok]
                             /\ Alive(x)' => \/ session'[x].key = Primary(session'[x].tok)
                                             \/ RevokedByOther(h, session'[x])
    BY <1>2, <2>2, <2>3 DEF Alive
  <2> QED
    BY <1>1, <2>4, OrderSessions
<1>4. CASE TouchSession(h)
  <2> DEFINE s == req[h].sess
             new == [session[s] EXCEPT !.st = IF session[s].st = "expired" THEN "active" ELSE session[s].st]
  <2>1. s # 0 /\ session[s].st # "absent"
    BY <1>1, <1>4 DEF TouchSession, RequestOK, Fits
  <2>2. s \in SessionId /\ session[s] \in Session
    BY <1>1, <2>1 DEF Active, TypeOK
  <2>3. session' = [session EXCEPT ![s] = new]
    BY <1>4 DEF TouchSession, TypeOK
  <2> HIDE DEF s
  <2>4. /\ new.key = session[s].key /\ new.tok = session[s].tok /\ new.user = session[s].user
        /\ new.st \in {"active", "expired"} => session[s].st \in {"active", "expired"}
        /\ session[s].st # "absent"
    BY <2>2 DEF Session
  <2> HIDE DEF new
  <2>5. \A x \in SessionId : session'[x] = IF x = s THEN new ELSE session[x]
    BY <2>3 DEF TypeOK
  <2>t. RevokedByOther(h, session[s]) => RevokedByOther(h, new)
    BY <2>4 DEF RevokedByOther, ToRevoke
  <2>6. \A x \in SessionId : /\ session'[x].st # "absent" => session'[x].user = binding[session'[x].tok]
                             /\ Alive(x)' => \/ session'[x].key = Primary(session'[x].tok)
                                             \/ RevokedByOther(h, session'[x])
    BY <1>2, <2>2, <2>t, <2>4, <2>5 DEF Alive
  <2> QED
    BY <1>1, <2>6, OrderSessions
<1> QED
  BY <1>3, <1>4

LEMMA OrderExpire ==
    ASSUME AffinityInv, OrderInv, NEW s \in SessionId, ExpireSession(s)
    PROVE  OrderInv'
<1> USE RequestTypes
<1> DEFINE new == [session[s] EXCEPT !.st = "expired"]
<1>1. session[s] \in Session /\ session' = [session EXCEPT ![s] = new] /\ Alive(s)
      /\ UNCHANGED <<cache, binding, userKey, tokenKey, req>>
  BY DEF ExpireSession, TypeOK, Alive, affinityVars
<1>2. /\ new.key = session[s].key /\ new.tok = session[s].tok /\ new.user = session[s].user
      /\ session[s].st # "absent"
  BY <1>1 DEF Session
<1> HIDE DEF new
<1>3. \A x \in SessionId : session'[x] = IF x = s THEN new ELSE session[x]
  BY <1>1 DEF TypeOK
<1>4. \A x \in SessionId : (Alive(x)' => Alive(x)) /\ (BeingRevoked(x) => BeingRevoked(x)')
  BY <1>1, <1>2, <1>3 DEF Alive, BeingRevoked, ToRevoke
<1>5. SessionsFollow'
  BY <1>1, <1>2, <1>3, <1>4 DEF OrderInv, SessionsFollow, Primary
<1>6. SessionsOwned'
  BY <1>1, <1>2, <1>3 DEF OrderInv, SessionsOwned
<1>7. CacheFresh' /\ KeysShared' /\ \A r \in Slot : ReadsHold(req[r])'
  BY <1>1, SameCacheFresh DEF OrderInv, KeysShared, ReadsHold, Primary
<1> QED
  BY <1>5, <1>6, <1>7 DEF OrderInv

LEMMA OrderRefresh ==
    ASSUME AffinityInv, OrderInv, NEW i \in Instance, NEW t \in Token, RefreshCache(i, t)
    PROVE  OrderInv'
<1> USE RequestTypes
<1>1. CacheFresh'
  <2> DEFINE Entry == {Unknown} \cup {Cached(u) : u \in MaybeUser}
  <2>1. cache \in [Instance -> [Token -> Entry]]
    BY DEF TypeOK
  <2>2. \E e : (e = Unknown \/ e = Cached(binding[t])) /\ cache' = [cache EXCEPT ![i] = [cache[i] EXCEPT ![t] = e]]
    BY DEF RefreshCache
  <2>3. ~Unknown.known /\ Cached(binding[t]).user = binding[t]
    BY DEF Unknown, Cached
  <2> HIDE DEF Entry
  <2> QED
    BY <2>1, <2>2, <2>3 DEF OrderInv, CacheFresh, RefreshCache
<1> QED
  BY <1>1 DEF OrderInv, RefreshCache, KeysShared, SessionsOwned, SessionsFollow, Alive, Primary, BeingRevoked,
              ToRevoke, ReadsHold

\* A session that no request is about to revoke follows the primary key of its token.
LEMMA OrderInvImplies ==
    ASSUME AffinityInv, OrderInv PROVE SessionsFollowPrimary
<1> USE RequestTypes
<1>1. ASSUME NEW s \in SessionId, session[s].st = "active", BeingRevoked(s)
      PROVE  Busy(session[s].tok)
  <2>1. PICK r \in Slot : At(r, "revoke") /\ ToRevoke(req[r], session[s])
    BY <1>1 DEF BeingRevoked
  <2>2. session[s].user = binding[session[s].tok]
    BY <1>1 DEF OrderInv, SessionsOwned
  <2>3. req[r].user = binding[req[r].tok]
    BY <2>1 DEF OrderInv, ReadsHold, Bound
  <2>4. Shares(req[r].tok, session[s].tok)
    BY <2>1, <2>2, <2>3 DEF ToRevoke, Shares
  <2> QED
    BY <2>1, <2>4 DEF Busy
<1> QED
  BY <1>1 DEF OrderInv, SessionsFollow, SessionsFollowPrimary, Alive, Primary

LEMMA OrderNextInv ==
    ASSUME ~LateBinding, ~Interrupted, AffinityInv, OrderInv, OneAtATime, [Next]_vars
    PROVE  OrderInv'
<1>1. ASSUME NEW h \in Slot, RequestStep(h) PROVE OrderInv'
  <2>1. \A k \in Key \cup {None} : k \in MaybeKey
    BY DEF MaybeKey
  <2> QED
    BY <1>1, <2>1, OrderArrive, OrderResolve, OrderReadUser, OrderReadToken, OrderLease, OrderSync,
       OrderRevoke, OrderUpstream, OrderSession
    DEF RequestStep
<1>2. ASSUME UNCHANGED <<binding, cache, userKey, tokenKey, session, req>> PROVE OrderInv'
  BY <1>2 DEF OrderInv, CacheFresh, KeysShared, SessionsOwned, SessionsFollow, Alive, Primary, BeingRevoked,
              ToRevoke, ReadsHold
<1>3. CASE PoolStep \/ UNCHANGED vars
  BY <1>2, <1>3 DEF PoolStep, vars, affinityVars
<1>4. \/ \E h \in Slot : RequestStep(h)
      \/ PoolStep \/ UNCHANGED vars
      \/ \E i \in Instance, t \in Token : RefreshCache(i, t)
      \/ \E s \in SessionId : ExpireSession(s)
  BY DEF Next, Abort, BindToken, Crash
<1> QED
  BY <1>1, <1>3, <1>4, OrderRefresh, OrderExpire

(* While the requests of one user come one after the other, none is cut    *)
(* off, and no token is bound while the system runs, an active session is  *)
(* on the primary key of its token whenever no request of that user is     *)
(* handled: for any number of requests of others at the same time, in any  *)
(* number of processes, and whatever happens to the keys.  acquire_key_for *)
(* revokes the sessions of the key it rebinds from.  Each of the three is  *)
(* needed: two requests of a user, a request cut off between its           *)
(* statements and a late binding each leave a session on the old key.      *)
THEOREM SessionsMoveWithPrimary ==
    ASSUME ~LateBinding, ~Interrupted
    PROVE  Spec /\ []OneAtATime => []SessionsFollowPrimary
<1>1. Init => OrderInv
  BY OrderInitInv
<1>2. AffinityInv /\ OrderInv /\ OneAtATime /\ [Next]_vars => OrderInv'
  BY OrderNextInv
<1>3. AffinityInv /\ OrderInv => SessionsFollowPrimary
  BY OrderInvImplies
<1> QED
  BY <1>1, <1>2, <1>3, AffinityInvariant, PTL DEF Spec
==============================================================================
