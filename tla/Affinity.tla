------------------------------- MODULE Affinity -------------------------------
(***************************************************************************)
(* Which upstream key serves a request: the primary keys of users and      *)
(* tokens, their rebinding when a key can no longer be used, and the MCP   *)
(* sessions pinned to a key.                                               *)
(*                                                                         *)
(* A slot is one request being handled in a process; it takes another      *)
(* request when it is done.  A step is one SQL statement or transaction,   *)
(* or the await of the upstream.                                           *)
(***************************************************************************)
EXTENDS KeyPool, FiniteSets, Sequences

CONSTANTS
    Instance,      \* processes that share one SQLite file
    Slot,
    InstanceOf,    \* the process of a slot
    Token, User,
    LateBinding,   \* TRUE: tokens may be bound while the system runs
    Interrupted,   \* TRUE: requests may be cut off, processes may crash
    MaxSessions,   \* bound: sessions ever created
    None           \* no user, no key

ASSUME NoneAssumption == None \notin User \cup Key
ASSUME SlotAssumption == InstanceOf \in [Slot -> Instance]
ASSUME ParameterAssumption ==
    /\ LateBinding \in BOOLEAN
    /\ Interrupted \in BOOLEAN
    /\ MaxSessions \in Nat

VARIABLES
    binding,    \* user_token_bindings: the user of a token
    cache,      \* token_binding_cache of each process
    userKey,    \* user_primary_api_key_affinity
    tokenKey,   \* token_primary_api_key_affinity
    session,    \* mcp_sessions
    req         \* the request of each slot

affinityVars == <<binding, cache, userKey, tokenKey>>
vars == <<poolVars, affinityVars, session, req>>

SessionId == 1..MaxSessions

Idle == [pc |-> "idle"]
NoRow == [user |-> None, key |-> None]
Absent == [st |-> "absent"]
Unknown == [known |-> FALSE]
Cached(u) == [known |-> TRUE, user |-> u]

Init ==
    /\ PoolInit
    /\ binding \in [Token -> User \cup {None}]
    /\ cache = [i \in Instance |-> [t \in Token |-> Unknown]]
    /\ userKey = [u \in User |-> None]
    /\ tokenKey = [t \in Token |-> NoRow]
    /\ session = [s \in SessionId |-> Absent]
    /\ req = [r \in Slot |-> Idle]

At(r, label) == req[r].pc = label

GoTo(r, label) == req' = [req EXCEPT ![r].pc = label]

Finish(r) == req' = [req EXCEPT ![r] = Idle]

\* The request goes to the upstream with its key.
Send(r) == req' = [req EXCEPT ![r].pc = "upstream", ![r].user = None]

------------------------------------------------------------------------------
(* The arrival of a request.                                               *)

\* find_user_id_by_token: the cached user while the entry lives, or a fresh
\* read that fills the cache.
UserOf(i, t) ==
    IF cache[i][t].known THEN cache[i][t].user ELSE binding[t]

FillCache(i, t) ==
    cache' = [cache EXCEPT ![i][t] = Cached(UserOf(i, t))]

NewRequest(t, s, k, u) ==
    [pc |-> "resolving", tok |-> t, sess |-> s, key |-> k, owner |-> u,
     opens |-> FALSE, user |-> None, old |-> None, todo |-> <<>>,
     missed |-> FALSE]

\* A call of the HTTP API.
ArriveHttp(r, t) ==
    /\ At(r, "idle")
    /\ req' = [req EXCEPT ![r] = NewRequest(t, 0, None, None)]
    /\ UNCHANGED <<poolVars, affinityVars, session>>

\* initialize on /mcp: the user the session will be recorded with is read
\* before a key is chosen.
ArriveInitialize(r, t) ==
    LET i == InstanceOf[r] IN
    /\ At(r, "idle")
    /\ FillCache(i, t)
    /\ req' = [req EXCEPT ![r] =
                 [NewRequest(t, 0, None, UserOf(i, t)) EXCEPT !.opens = TRUE]]
    /\ UNCHANGED <<poolVars, binding, userKey, tokenKey, session>>

\* A request with a session id: get_active_mcp_session and the owner test.
\* Anything but an active session of this token is answered at once.
ArriveFollowUp(r, t, s) ==
    LET i == InstanceOf[r] IN
    /\ At(r, "idle")
    /\ session[s].st = "active" /\ session[s].tok = t
    /\ FillCache(i, t)
    /\ req' = [req EXCEPT ![r] =
                 [NewRequest(t, s, session[s].key, None) EXCEPT !.pc = "pinned"]]
    /\ UNCHANGED <<poolVars, binding, userKey, tokenKey, session>>

------------------------------------------------------------------------------
(* acquire_key_for.                                                        *)

Resolve(r) ==
    LET i == InstanceOf[r]
        t == req[r].tok
        u == UserOf(i, t)
    IN
    /\ At(r, "resolving")
    /\ FillCache(i, t)
    /\ req' = [req EXCEPT ![r].user = u,
                          ![r].pc = IF u = None THEN "token" ELSE "user"]
    /\ UNCHANGED <<poolVars, binding, userKey, tokenKey, session>>

ReadUserPrimary(r) ==
    /\ At(r, "user")
    /\ req' = [req EXCEPT ![r].old = userKey[req[r].user], ![r].pc = "token"]
    /\ UNCHANGED <<poolVars, affinityVars, session>>

\* Mutant: the primary key of the user is tried whether there is one or not.
ChoicesUnchecked(r, legacy) == <<req[r].old>>

\* The keys a bound token may keep, in the order they are tried.  legacy is
\* the most recent key of user_api_key_bindings, if there is one.
Choices(r, legacy) ==
    LET u == req[r].user
        up == req[r].old
        tp == tokenKey[req[r].tok]
    IN
    (IF up # None THEN <<up>> ELSE <<>>)
    \o (IF tp.key # None /\ tp.user = u /\ tp.key # up THEN <<tp.key>> ELSE <<>>)
    \o (IF up = None /\ tp.key = None /\ legacy # None THEN <<legacy>> ELSE <<>>)

\* The row of the token; whether a primary key was found at all decides what
\* happens when none of the choices can be leased.
ReadTokenPrimary(r, legacy) ==
    LET tp == tokenKey[req[r].tok].key IN
    /\ At(r, "token")
    /\ IF req[r].user # None
       THEN req' = [req EXCEPT
                      ![r].todo = Choices(r, legacy),
                      ![r].pc = IF req[r].old # None \/ tp # None
                                THEN "keep" ELSE "first"]
       ELSE req' = [req EXCEPT
                      ![r].todo = IF tp # None THEN <<tp>> ELSE <<>>,
                      ![r].old = tp,
                      ![r].pc = IF tp # None THEN "keep" ELSE "first"]
    /\ UNCHANGED <<poolVars, affinityVars, session>>

\* The keys the next lease is asked for: try_acquire_specific_key of the
\* pinned key or of a choice, acquire_key, or acquire_active_key_excluding.
Wanted(r) ==
    IF At(r, "pinned") THEN {req[r].key}
    ELSE IF req[r].todo # <<>> THEN {Head(req[r].todo)}
    ELSE Key \ {req[r].old}

\* A key is leased; what led to the choice is not needed any more.
Leased(r, k) ==
    req' = [req EXCEPT
              ![r].key = k, ![r].old = None, ![r].todo = <<>>, ![r].missed = FALSE,
              ![r].pc = IF At(r, "pinned") THEN "upstream"
                        ELSE IF At(r, "keep") /\ req[r].todo = <<>>
                        THEN "rebind" ELSE "sync"]

\* Mutant: another key serves the session when its own is not usable.
NotLeasedOrAny(r) ==
    \/ At(r, "pinned") /\ req' = [req EXCEPT ![r].pc = "resolving", ![r].missed = FALSE]
    \/ /\ req[r].todo # <<>>
       /\ req' = [req EXCEPT ![r].todo = Tail(@), ![r].missed = FALSE]
    \/ ~At(r, "pinned") /\ req[r].todo = <<>> /\ Finish(r)

\* The session is given up, the next choice is tried, or the request fails.
NotLeased(r) ==
    \/ At(r, "pinned") /\ req' = [req EXCEPT ![r].pc = "unpin", ![r].missed = FALSE]
    \/ /\ req[r].todo # <<>>
       /\ req' = [req EXCEPT ![r].todo = Tail(@), ![r].missed = FALSE]
    \/ ~At(r, "pinned") /\ req[r].todo = <<>> /\ Finish(r)

LeaseActive(r) ==
    /\ req[r].pc \in {"pinned", "keep", "first"}
    /\ ~req[r].missed
    /\ ResetMonthly
    /\ \/ \E k \in ActiveKeys(Wanted(r)) : Leased(r, k)
       \/ /\ ActiveKeys(Wanted(r)) = {}
          /\ req' = [req EXCEPT ![r].missed = TRUE]
    /\ UNCHANGED <<affinityVars, session>>

LeaseExhausted(r) ==
    /\ req[r].pc \in {"pinned", "keep", "first"}
    /\ req[r].missed
    /\ \/ \E k \in ExhaustedKeys(Wanted(r)) : Leased(r, k)
       \/ ExhaustedKeys(Wanted(r)) = {} /\ NotLeased(r)
    /\ UNCHANGED <<poolVars, affinityVars, session>>

------------------------------------------------------------------------------
(* The primary key is written down.                                        *)

\* sync_user_primary_api_key_affinity: one transaction for the user and all
\* tokens bound to it.
SyncUser(u, k) ==
    /\ userKey' = [userKey EXCEPT ![u] = k]
    /\ tokenKey' = [x \in Token |-> IF binding[x] = u
                                    THEN [user |-> u, key |-> k]
                                    ELSE tokenKey[x]]

\* Mutant: an existing row keeps its user.
SetTokenKey(t, k) ==
    /\ tokenKey' = [tokenKey EXCEPT ![t].key = k]
    /\ UNCHANGED userKey

\* set_token_primary_api_key_affinity of a token without a user.
SetToken(t, k) ==
    /\ tokenKey' = [tokenKey EXCEPT ![t] = [user |-> None, key |-> k]]
    /\ UNCHANGED userKey

\* After a rebinding the sessions follow.
Sync(r) ==
    /\ req[r].pc \in {"sync", "rebind"}
    /\ IF req[r].user # None
       THEN SyncUser(req[r].user, req[r].key)
       ELSE SetToken(req[r].tok, req[r].key)
    /\ IF At(r, "rebind") THEN GoTo(r, "revoke") ELSE Send(r)
    /\ UNCHANGED <<poolVars, binding, cache, session>>

\* The sessions that have a row.
Opened == {s \in SessionId : session[s].st # "absent"}

Revoke(S) ==
    session' = [s \in SessionId |->
                  IF s \in S
                  THEN [session[s] EXCEPT !.st = "revoked"] ELSE session[s]]

\* Mutant: only the sessions of the token that asked are revoked.
RevokeTokenSessions(r) ==
    /\ At(r, "revoke")
    /\ Revoke({s \in Opened : session[s].tok = req[r].tok})
    /\ Send(r)
    /\ UNCHANGED <<poolVars, affinityVars>>

\* revoke_mcp_sessions_for_user, or ..._for_token when the token has none.
RevokeSessions(r) ==
    /\ At(r, "revoke")
    /\ Revoke({s \in Opened : IF req[r].user # None
                               THEN session[s].user = req[r].user
                               ELSE session[s].tok = req[r].tok})
    /\ Send(r)
    /\ UNCHANGED <<poolVars, affinityVars>>

\* revoke_mcp_session: the pinned key is gone, or the upstream no longer knows
\* the session.
RevokeOwn(r) ==
    /\ At(r, "unpin")
    /\ Revoke({req[r].sess})
    /\ Finish(r)
    /\ UNCHANGED <<poolVars, affinityVars>>

------------------------------------------------------------------------------
(* The answer of the upstream.                                             *)

\* The answer arrives and its analysis acts on the key.  Then the handler
\* opens, keeps or gives up the session.
UpstreamReplies(r, a) ==
    /\ At(r, "upstream")
    /\ ReconcileKeyHealth(req[r].key, a)
    /\ \/ req[r].opens /\ (GoTo(r, "opening") \/ Finish(r))
       \/ req[r].sess # 0 /\ (GoTo(r, "touching") \/ GoTo(r, "unpin"))
       \/ ~req[r].opens /\ req[r].sess = 0 /\ Finish(r)
    /\ UNCHANGED <<affinityVars, session>>

\* create_mcp_session: the id is fresh.
CreateSession(r, s) ==
    /\ At(r, "opening")
    /\ session[s] = Absent
    /\ \A q \in 1..(s - 1) : session[q] # Absent
    /\ session' = [session EXCEPT ![s] =
                     [st |-> "active", tok |-> req[r].tok,
                      user |-> req[r].owner, key |-> req[r].key]]
    /\ Finish(r)
    /\ UNCHANGED <<poolVars, affinityVars>>

\* Mutant: whatever became of the session since the request arrived.
TouchAnySession(r) ==
    /\ At(r, "touching")
    /\ session' = [session EXCEPT ![req[r].sess].st = "active"]
    /\ Finish(r)
    /\ UNCHANGED <<poolVars, affinityVars>>

\* touch_mcp_session extends expires_at unless the session is revoked.
TouchSession(r) ==
    LET s == req[r].sess IN
    /\ At(r, "touching")
    /\ session' = [session EXCEPT ![s].st =
                     IF @ = "expired" THEN "active" ELSE @]
    /\ Finish(r)
    /\ UNCHANGED <<poolVars, affinityVars>>

\* The upstream fails, a statement fails, or the client goes away.
Abort(r) ==
    /\ Interrupted
    /\ ~At(r, "idle")
    /\ Finish(r)
    /\ UNCHANGED <<poolVars, affinityVars, session>>

------------------------------------------------------------------------------
(* What else happens.                                                      *)

\* ensure_user_token_binding: the binding process updates its own cache.
BindToken(i, t, u) ==
    /\ LateBinding
    /\ binding[t] = None
    /\ binding' = [binding EXCEPT ![t] = u]
    /\ cache' = [cache EXCEPT ![i][t] = Cached(u)]
    /\ UNCHANGED <<poolVars, userKey, tokenKey, session, req>>

\* An entry times out, or a fresh read for billing replaces it.
RefreshCache(i, t) ==
    /\ \/ cache' = [cache EXCEPT ![i][t] = Unknown]
       \/ cache' = [cache EXCEPT ![i][t] = Cached(binding[t])]
    /\ UNCHANGED <<poolVars, binding, userKey, tokenKey, session, req>>

ExpireSession(s) ==
    /\ session[s].st = "active"
    /\ session' = [session EXCEPT ![s].st = "expired"]
    /\ UNCHANGED <<poolVars, affinityVars, req>>

\* The administrator, the job that asks every key for its usage, the month.
PoolStep ==
    /\ \/ \E k \in Key : AdminStep(k)
       \/ \E k \in Key : "quarantine" \in KeyHealthAction /\ QuarantineKey(k)
       \/ NewMonth
    /\ UNCHANGED <<affinityVars, session, req>>

Crash(i) ==
    /\ Interrupted
    /\ cache' = [cache EXCEPT ![i] = [t \in Token |-> Unknown]]
    /\ req' = [r \in Slot |-> IF InstanceOf[r] = i THEN Idle ELSE req[r]]
    /\ UNCHANGED <<poolVars, binding, userKey, tokenKey, session>>

RequestStep(r) ==
    \/ \E t \in Token :
          \/ ArriveHttp(r, t) \/ ArriveInitialize(r, t)
          \/ \E s \in SessionId : ArriveFollowUp(r, t, s)
    \/ Resolve(r) \/ ReadUserPrimary(r)
    \/ \E k \in Key \cup {None} : ReadTokenPrimary(r, k)
    \/ LeaseActive(r) \/ LeaseExhausted(r)
    \/ Sync(r) \/ RevokeSessions(r) \/ RevokeOwn(r)
    \/ \E a \in KeyHealthAction : UpstreamReplies(r, a)
    \/ \E s \in SessionId : CreateSession(r, s)
    \/ TouchSession(r)

Next ==
    \/ \E r \in Slot : RequestStep(r) \/ Abort(r)
    \/ \E i \in Instance, t \in Token, u \in User : BindToken(i, t, u)
    \/ \E i \in Instance, t \in Token : RefreshCache(i, t)
    \/ \E s \in SessionId : ExpireSession(s)
    \/ PoolStep
    \/ \E i \in Instance : Crash(i)

Spec == Init /\ [][Next]_vars

------------------------------------------------------------------------------
(* Types.                                                                  *)

Label == {"resolving", "user", "token", "keep", "first", "sync", "rebind",
          "revoke", "pinned", "unpin", "upstream", "opening", "touching"}

MaybeUser == User \cup {None}
MaybeKey  == Key \cup {None}

Active == [pc : Label, tok : Token, sess : SessionId \cup {0}, key : MaybeKey,
           owner : MaybeUser, opens : BOOLEAN, user : MaybeUser,
           old : MaybeKey, todo : Seq(Key), missed : BOOLEAN]

Session == [st : {"active", "expired", "revoked"}, tok : Token,
            user : MaybeUser, key : Key]

TypeOK ==
    /\ PoolTypeOK
    /\ binding \in [Token -> MaybeUser]
    /\ cache \in [Instance -> [Token -> {Unknown} \cup {Cached(u) : u \in MaybeUser}]]
    /\ userKey \in [User -> MaybeKey]
    /\ tokenKey \in [Token -> [user : MaybeUser, key : MaybeKey]]
    /\ session \in [SessionId -> Session \cup {Absent}]
    /\ req \in [Slot -> Active \cup {Idle}]

------------------------------------------------------------------------------
(* Properties.                                                             *)

(* A token's row that names a user has the key of that user: whatever      *)
(* requests, rebindings and stale caches do at the same time, all tokens   *)
(* of a user that were synchronized share one primary key.                 *)
RowsAgree ==
    \A t \in Token, u \in User :
        tokenKey[t].user = u => tokenKey[t].key = userKey[u]

(* A request of a session goes to the upstream with the key the session    *)
(* was opened with, and comes from the token that opened it: a session     *)
(* never drifts to another key, however often primary keys are rebound.    *)
ServedByPinnedKey ==
    \A r \in Slot :
        At(r, "upstream") /\ req[r].sess # 0 =>
            /\ req[r].key = session[req[r].sess].key
            /\ req[r].tok = session[req[r].sess].tok

(* A session that was revoked stays revoked: a request that was on its way *)
(* when its session was revoked does not revive it when its answer comes.  *)
RevokedForGood ==
    [][\A s \in SessionId :
          session[s].st = "revoked" => session'[s].st = "revoked"]_vars

(* A key that was disabled, deleted or quarantined is usable again only by *)
(* a step of the administrator.  Such a step moves no request: no answer   *)
(* that is still on its way, however it is classified, and no monthly      *)
(* reset at the start of a lease brings the key back.                      *)
UnusableNeedsAdmin ==
    [][\A k \in Key :
          ~Usable(k) /\ Usable(k)' =>
              AdminStep(k) /\ UNCHANGED <<affinityVars, session, req>>]_vars

(* The tokens that share a primary key are those of one user.              *)
Shares(t, x) == t = x \/ (binding[t] # None /\ binding[t] = binding[x])

Busy(t) == \E r \in Slot : ~At(r, "idle") /\ Shares(req[r].tok, t)

(* Requests of one user, or of one token without a user, are handled one   *)
(* after the other; those of others at the same time.                      *)
OneAtATime ==
    \A q, r \in Slot :
        q # r /\ ~At(q, "idle") /\ ~At(r, "idle") => ~Shares(req[q].tok, req[r].tok)

(* While no request of its token or of the token's user is handled, an     *)
(* active session whose key can be used is on the primary key of its token: *)
(* rebinding a primary key invalidates the sessions of the old one.        *)
SessionsFollowPrimary ==
    \A s \in SessionId :
        session[s].st = "active" /\ Usable(session[s].key) /\ ~Busy(session[s].tok) =>
            session[s].key = tokenKey[session[s].tok].key
==============================================================================
