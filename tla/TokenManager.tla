----------------------------- MODULE TokenManager -----------------------------
(***************************************************************************)
(* One access token for the whole fleet: ZohoTokenManager and its          *)
(* CredentialStore (zoho/core/auth.py), the 401 branch of transport.py     *)
(* that calls invalidate(), and the operator who connects and disconnects  *)
(* the integration (zoho/auth/service.py).  Every Redis command, database  *)
(* transaction and HTTP exchange is an action.  Each worker is a process   *)
(* with its own five-minute copy of the refresh token and the access token *)
(* it has cached last, which stands in while Redis does not answer.        *)
(* Workers die, locks lapse, Redis commands and the token endpoint fail,   *)
(* and Zoho drops tokens when it likes.                                    *)
(***************************************************************************)
EXTENDS Naturals

CONSTANTS
  Workers,     \* processes that call Zoho
  MaxTokens,   \* bound: access tokens minted
  MaxCreds,    \* bound: refresh tokens granted
  MaxErrors,   \* bound: Redis commands that raise a RedisError
  Limit,       \* _THROTTLE_LIMIT
  nobody       \* no holder of the refresh lock

ASSUME TokenManagerAssumption ==
  /\ MaxTokens \in Nat \ {0} /\ MaxCreds \in Nat \ {0}
  /\ MaxErrors \in Nat /\ Limit \in Nat \ {0}
  /\ nobody \notin Workers

VARIABLES
  cached,    \* zoho:oauth:{org}:access (0: absent)
  lock,      \* zoho:oauth:{org}:refresh_lock
  count,     \* zoho:oauth:{org}:refresh_count (0: absent)
  mortal,    \* the counter has a TTL
  paused,    \* zoho:switches:auth_paused
  stored,    \* the refresh token in zoho_oauth_credentials (0: none, or revoked)
  local,     \* local[w]: the copy in w's process (0: none, or older than cache_ttl)
  pc,        \* where each worker stands in request() and get_token()
  memory,    \* memory[w]: _memory_token of w's process (0: none)
  token,     \* token[w]: the access token w holds
  retried,   \* the workers on their second attempt after a 401
  admin,     \* what the operator is doing
  minted,    \* Zoho: access tokens issued so far
  good,      \* Zoho: those it accepts
  granted,   \* Zoho: refresh tokens granted so far
  alive,     \* Zoho: those it accepts
  errors,    \* RedisErrors so far
  lost,      \* history: the workers that refresh without the lock they took
  blind,     \* history: the holders whose second look Redis did not answer
  orderly    \* history: the cached token comes from a refresh under the lock

keys == <<cached, lock, count, mortal, paused, stored>>
zoho == <<minted, good, granted, alive>>
mine == <<token, retried, local, memory, lost, blind>>
vars == <<keys, mine, pc, admin, zoho, errors, orderly>>

None == 0
Tokens == 1 .. MaxTokens
Creds == 1 .. MaxCreds
InRefresh == {"recheck", "load", "count", "expire", "post", "cache", "pause", "unlock"}

TypeOK ==
  /\ cached \in Tokens \union {None} /\ lock \in Workers \union {nobody}
  /\ count \in 0 .. Limit + 1 /\ mortal \in BOOLEAN /\ paused \in BOOLEAN
  /\ stored \in Creds \union {None} /\ local \in [Workers -> Creds \union {None}]
  /\ pc \in [Workers -> InRefresh \union {"idle", "look", "lock", "wait", "use", "drop"}]
  /\ token \in [Workers -> Tokens \union {None}] /\ memory \in [Workers -> Tokens \union {None}]
  /\ retried \in SUBSET Workers
  /\ admin \in {"idle", "granted", "kept", "stored", "revoked", "forgotten"}
  /\ minted \in 0 .. MaxTokens /\ good \in SUBSET Tokens
  /\ granted \in 0 .. MaxCreds /\ alive \in SUBSET Creds
  /\ errors \in 0 .. MaxErrors
  /\ lost \in SUBSET Workers /\ blind \in SUBSET Workers /\ orderly \in BOOLEAN

\* A deployment nobody has connected yet.
Init ==
  /\ cached = None /\ lock = nobody /\ count = 0 /\ mortal = FALSE /\ paused = FALSE
  /\ stored = None /\ local = [w \in Workers |-> None]
  /\ pc = [w \in Workers |-> "idle"] /\ token = [w \in Workers |-> None]
  /\ memory = [w \in Workers |-> None] /\ retried = {} /\ admin = "idle"
  /\ minted = 0 /\ good = {} /\ granted = 0 /\ alive = {}
  /\ errors = 0 /\ lost = {} /\ blind = {} /\ orderly = FALSE

Goto(w, label) == pc' = [pc EXCEPT ![w] = label]

\* request() ends, with an answer or an exception.
Leave(w) ==
  /\ Goto(w, "idle")
  /\ token' = [token EXCEPT ![w] = None]
  /\ retried' = retried \ {w} /\ lost' = lost \ {w} /\ blind' = blind \ {w}
  /\ UNCHANGED <<local, memory>>

\* _cached_token(): without an answer of Redis, what the process has cached itself,
\* if its TTL is not over.
CachedToken(w, answered) == IF answered THEN {cached} ELSE {memory[w], None}

Take(w, t) == token' = [token EXCEPT ![w] = t] /\ UNCHANGED <<retried, local, memory, lost, blind>>

-----------------------------------------------------------------------------
(* get_token(), up to the lock.  answered: Redis answers the step's command; a
   RedisError is caught, and the request goes on without the answer.         *)

\* The switches are the first gate of request(); a pause nobody can read stops nobody.
Begin(w, answered) ==
  /\ pc[w] = "idle" /\ (answered => ~paused)
  /\ Goto(w, "look")
  /\ UNCHANGED <<keys, mine, admin, zoho, orderly>>

FindToken(w, answered) == \E t \in CachedToken(w, answered) \ {None} :
  /\ pc[w] \in {"look", "wait"}
  /\ Goto(w, "use") /\ Take(w, t)
  /\ UNCHANGED <<keys, admin, zoho, orderly>>

MissToken(w, answered) ==
  /\ pc[w] = "look" /\ None \in CachedToken(w, answered)
  /\ Goto(w, "lock")
  /\ UNCHANGED <<keys, mine, admin, zoho, orderly>>

\* SET NX PX with an owner of its own.
TakeLock(w) ==
  /\ pc[w] = "lock" /\ lock = nobody
  /\ lock' = w /\ Goto(w, "recheck")
  /\ UNCHANGED <<cached, count, mortal, paused, stored, mine, admin, zoho, orderly>>

\* Another worker refreshes: poll the cache, up to _WAIT_MAX.
AwaitRefresh(w) ==
  /\ pc[w] = "lock" /\ lock /= nobody
  /\ Goto(w, "wait")
  /\ UNCHANGED <<keys, mine, admin, zoho, orderly>>

WaitTimesOut(w) ==
  /\ pc[w] = "wait"
  /\ Leave(w) /\ UNCHANGED <<keys, admin, zoho, orderly>>

\* RedisError on SET, done or not: refresh without coordination.
LockUnavailable(w) ==
  /\ pc[w] = "lock"
  /\ lock' \in {lock, IF lock = nobody THEN w ELSE lock}
  /\ Goto(w, "load") /\ lost' = lost \union {w}
  /\ UNCHANGED <<cached, count, mortal, paused, stored, token, retried, local, memory, blind,
                 admin, zoho, orderly>>

\* Mutant: the holder does not look again.
RecheckMisses(w, answered) ==
  /\ pc[w] = "recheck"
  /\ Goto(w, "load") /\ UNCHANGED mine
  /\ UNCHANGED <<keys, admin, zoho, orderly>>

\* The previous holder may have just refreshed.
Recheck(w, answered) == \E t \in CachedToken(w, answered) :
  /\ pc[w] = "recheck"
  /\ IF t /= None
     THEN Goto(w, "unlock") /\ Take(w, t)
     ELSE /\ Goto(w, "load") /\ blind' = IF answered THEN blind ELSE blind \union {w}
          /\ UNCHANGED <<token, retried, local, memory, lost>>
  /\ UNCHANGED <<keys, admin, zoho, orderly>>

-----------------------------------------------------------------------------
(* _refresh() *)

\* CredentialStore.load(): the process's copy, else the database.
Load(w) ==
  /\ pc[w] = "load"
  /\ LET credential == IF local[w] /= None THEN local[w] ELSE stored IN
     /\ local' = [local EXCEPT ![w] = credential]
     /\ Goto(w, IF credential = None THEN "unlock" ELSE "count")
  /\ UNCHANGED <<keys, token, retried, memory, lost, blind, admin, zoho, orderly>>

\* Mutant: the counter is kept but not compared with the limit.
CountUnchecked(w, answered) ==
  /\ pc[w] = "count"
  /\ count' = count + 1
  /\ Goto(w, IF count' = 1 THEN "expire" ELSE "post")
  /\ UNCHANGED <<cached, lock, mortal, paused, stored, mine, admin, zoho, orderly>>

Counted == IF count > Limit THEN count ELSE count + 1   \* beyond the limit all counts are alike

\* _check_throttle(), INCR: the first count of a window goes on to EXPIRE.  After a
\* RedisError the refresh goes on, whether it has been counted or not.
Count(w, answered) ==
  /\ pc[w] = "count"
  /\ count' \in IF answered THEN {Counted} ELSE {Counted, count}
  /\ Goto(w, IF ~answered THEN "post" ELSE IF Counted > Limit THEN "unlock"
             ELSE IF Counted = 1 THEN "expire" ELSE "post")
  /\ UNCHANGED <<cached, lock, mortal, paused, stored, mine, admin, zoho, orderly>>

Expire(w, answered) ==
  /\ pc[w] = "expire"
  /\ mortal' = IF answered THEN count > 0 ELSE mortal
  /\ Goto(w, "post")
  /\ UNCHANGED <<cached, lock, count, paused, stored, mine, admin, zoho, orderly>>

\* Zoho issues a token for a refresh token it accepts.
PostMints(w) ==
  /\ pc[w] = "post" /\ local[w] \in alive /\ minted < MaxTokens
  /\ minted' = minted + 1 /\ good' = good \union {minted + 1}
  /\ token' = [token EXCEPT ![w] = minted + 1]
  /\ Goto(w, "cache")
  /\ UNCHANGED <<keys, retried, local, memory, lost, blind, admin, granted, alive, orderly>>

\* invalid_code, invalid_grant: the process forgets its copy.
PostRevoked(w) ==
  /\ pc[w] = "post" /\ local[w] \notin alive
  /\ local' = [local EXCEPT ![w] = None]
  /\ Goto(w, "pause")
  /\ UNCHANGED <<keys, token, retried, memory, lost, blind, admin, zoho, orderly>>

PostFails(w) ==
  /\ pc[w] = "post"
  /\ Goto(w, "unlock")
  /\ UNCHANGED <<keys, mine, admin, zoho, orderly>>

\* _cache_token(): in the process, and in Redis if it answers.
Cache(w, answered) ==
  /\ pc[w] = "cache"
  /\ memory' = [memory EXCEPT ![w] = token[w]]
  /\ IF answered THEN cached' = token[w] /\ orderly' = (w \notin lost)
                 ELSE UNCHANGED <<cached, orderly>>
  /\ Goto(w, "unlock")
  /\ UNCHANGED <<lock, count, mortal, paused, stored, token, retried, local, lost, blind, admin, zoho>>

\* set_auth_paused(): the fleet stops until an operator reconnects.
Pause(w, answered) ==
  /\ pc[w] = "pause"
  /\ paused' = (paused \/ answered)
  /\ Goto(w, "unlock")
  /\ UNCHANGED <<cached, lock, count, mortal, stored, mine, admin, zoho, orderly>>

\* Mutant: the lock is released with DEL (the v1 token manager).
Released(w) == nobody

\* Compare-and-delete: only the owner's own lock goes.
Freed(w) == IF lock = w /\ w \notin lost THEN nobody ELSE lock

Unlock(w, answered) ==
  /\ pc[w] = "unlock"
  /\ lock' = IF answered THEN Freed(w) ELSE lock
  /\ IF token[w] = None
     THEN Leave(w)
     ELSE /\ Goto(w, "use") /\ lost' = lost \ {w} /\ blind' = blind \ {w}
          /\ UNCHANGED <<token, retried, local, memory>>
  /\ UNCHANGED <<cached, count, mortal, paused, stored, admin, zoho, orderly>>

-----------------------------------------------------------------------------
(* The call, and the 401 branch of request(). *)

Succeed(w) ==
  /\ pc[w] = "use" /\ token[w] \in good
  /\ Leave(w) /\ UNCHANGED <<keys, admin, zoho, orderly>>

Unauthorized(w) ==
  /\ pc[w] = "use" /\ token[w] \notin good
  /\ IF w \in retried THEN Leave(w) ELSE Goto(w, "drop") /\ UNCHANGED mine
  /\ UNCHANGED <<keys, admin, zoho, orderly>>

\* Mutant: a 401 drops whatever token is cached (the v1 token manager).
DropAny(t) == None

\* invalidate(): compare-and-delete on the refused token.
WithoutToken(t) == IF cached = t THEN None ELSE cached

Invalidate(w, answered) ==
  /\ pc[w] = "drop"
  /\ cached' = IF answered THEN WithoutToken(token[w]) ELSE cached
  /\ token' = [token EXCEPT ![w] = None] /\ memory' = [memory EXCEPT ![w] = None]
  /\ retried' = retried \union {w}
  /\ Goto(w, "look")
  /\ UNCHANGED <<lock, count, mortal, paused, stored, local, lost, blind, admin, zoho, orderly>>

-----------------------------------------------------------------------------
(* The operator: handle_callback() and revoke_token(). *)

\* Zoho grants a refresh token and an access token.
Consent ==
  /\ admin = "idle" /\ minted < MaxTokens /\ granted < MaxCreds
  /\ admin' = "granted"
  /\ minted' = minted + 1 /\ good' = good \union {minted + 1}
  /\ granted' = granted + 1 /\ alive' = alive \union {granted + 1}
  /\ UNCHANGED <<keys, mine, pc, orderly>>

\* store_tokens(): cache the access token, store the refresh token, lift the pause.
KeepToken(answered) ==
  /\ admin = "granted" /\ minted \in Tokens
  /\ admin' = "kept"
  /\ IF answered THEN cached' = minted /\ orderly' = FALSE ELSE UNCHANGED <<cached, orderly>>
  /\ UNCHANGED <<lock, count, mortal, paused, stored, mine, pc, zoho>>

StoreCredential ==
  /\ admin = "kept"
  /\ admin' = "stored" /\ stored' = granted
  /\ UNCHANGED <<cached, lock, count, mortal, paused, mine, pc, zoho, orderly>>

LiftPause(answered) ==
  /\ admin = "stored"
  /\ admin' = "idle" /\ paused' = (paused /\ ~answered)
  /\ UNCHANGED <<cached, lock, count, mortal, stored, mine, pc, zoho, orderly>>

\* The refresh token is revoked at Zoho, or the request for it fails; the local
\* credentials go in either case.
RevokeAtZoho ==
  /\ admin = "idle" /\ stored /= None
  /\ admin' = "revoked" /\ alive' \in {alive, alive \ {stored}}
  /\ UNCHANGED <<keys, mine, pc, minted, good, granted, orderly>>

\* clear_tokens(): one DEL of the token and of the lock, whoever holds it.
Forget(answered) ==
  /\ admin = "revoked"
  /\ admin' = "forgotten"
  /\ IF answered
     THEN /\ cached' = None /\ lock' = nobody
          /\ lost' = lost \union {w \in Workers : lock = w /\ pc[w] \in InRefresh}
     ELSE UNCHANGED <<cached, lock, lost>>
  /\ UNCHANGED <<count, mortal, paused, stored, token, retried, local, memory, blind, pc, zoho, orderly>>

RevokeStored ==
  /\ admin = "forgotten"
  /\ admin' = "idle" /\ stored' = None
  /\ UNCHANGED <<cached, lock, count, mortal, paused, mine, pc, zoho, orderly>>

-----------------------------------------------------------------------------
(* Faults and time. *)

Crash(w) ==
  /\ pc[w] /= "idle"
  /\ Goto(w, "idle")
  /\ token' = [token EXCEPT ![w] = None] /\ local' = [local EXCEPT ![w] = None]
  /\ memory' = [memory EXCEPT ![w] = None]
  /\ retried' = retried \ {w} /\ lost' = lost \ {w} /\ blind' = blind \ {w}
  /\ UNCHANGED <<keys, admin, zoho, orderly>>

LockLapses ==
  /\ lock /= nobody
  /\ lock' = nobody
  /\ lost' = lost \union {w \in Workers : lock = w /\ pc[w] \in InRefresh}
  /\ UNCHANGED <<cached, count, mortal, paused, stored, token, retried, local, memory, blind,
                 pc, admin, zoho, orderly>>

TokenLapses ==
  /\ cached /= None
  /\ cached' = None
  /\ UNCHANGED <<lock, count, mortal, paused, stored, mine, pc, admin, zoho, orderly>>

CountLapses ==
  /\ mortal
  /\ mortal' = FALSE /\ count' = 0
  /\ UNCHANGED <<cached, lock, paused, stored, mine, pc, admin, zoho, orderly>>

CopyLapses(w) ==
  /\ local[w] /= None /\ pc[w] \notin {"count", "expire", "post"}
  /\ local' = [local EXCEPT ![w] = None]
  /\ UNCHANGED <<keys, token, retried, memory, lost, blind, pc, admin, zoho, orderly>>

\* An hour passes, a sixteenth token is issued, the user's password changes.
TokenDies == \E t \in good :
  /\ good' = good \ {t}
  /\ UNCHANGED <<keys, mine, pc, admin, minted, granted, alive, orderly>>

CredentialDies == \E c \in alive :
  /\ alive' = alive \ {c}
  /\ UNCHANGED <<keys, mine, pc, admin, minted, good, granted, orderly>>

\* The steps that ask Redis.
Ask(w, answered) ==
  \/ Begin(w, answered) \/ FindToken(w, answered) \/ MissToken(w, answered) \/ Recheck(w, answered)
  \/ Count(w, answered) \/ Expire(w, answered) \/ Cache(w, answered) \/ Pause(w, answered)
  \/ Unlock(w, answered) \/ Invalidate(w, answered)

Work(w) ==
  \/ TakeLock(w) \/ AwaitRefresh(w) \/ WaitTimesOut(w)
  \/ Load(w) \/ PostMints(w) \/ PostRevoked(w) \/ PostFails(w)
  \/ Succeed(w) \/ Unauthorized(w)

\* Those of the operator.
Tell(answered) == KeepToken(answered) \/ LiftPause(answered) \/ Forget(answered)

Operate == Consent \/ StoreCredential \/ RevokeAtZoho \/ RevokeStored

Next ==
  \/ /\ UNCHANGED errors
     /\ \/ \E w \in Workers : Ask(w, TRUE) \/ Work(w) \/ Crash(w) \/ CopyLapses(w)
        \/ Tell(TRUE) \/ Operate
        \/ LockLapses \/ TokenLapses \/ CountLapses \/ TokenDies \/ CredentialDies
  \/ /\ errors < MaxErrors /\ errors' = errors + 1   \* a RedisError
     /\ Tell(FALSE) \/ \E w \in Workers : Ask(w, FALSE) \/ LockUnavailable(w)

Spec == Init /\ [][Next]_vars

-----------------------------------------------------------------------------
(* Properties *)

Refreshing == {w \in Workers : pc[w] \in InRefresh} \ lost

\* At most one worker refreshes, but for those whose lock lapsed, was deleted by
\* a disconnect or could not be taken: a late release never frees the lock of the
\* next holder (auth.py:21, 274 "refreshes it exactly once per fleet").
SingleFlight == \A v, w \in Refreshing : v = w

\* A worker that holds the lock mints no token while one that another holder
\* refreshed in good order is cached (auth.py:331), but for the one whose second
\* look Redis did not answer: _cached_token() then says "none" (auth.py:429-433).
NoSecondRefresh ==
  \A w \in Refreshing \ blind : pc[w] \in {"load", "count", "expire", "post"} => ~(cached /= None /\ orderly)

\* A token Zoho accepts leaves the cache by its TTL, by a newer one or by a
\* disconnect, never by the late 401 of an older token (auth.py:23).
GoodTokenStays ==
  [][(cached \in good /\ cached' = None) => (TokenLapses \/ Forget(TRUE))]_vars

\* switches.py:256 "the refresh token is gone. Everything stops until reconnect": the
\* fleet is not paused once an operator has reconnected it with a token Zoho accepts.
PausedMeansRevoked == paused /\ admin = "idle" => stored \notin alive
================================================================================
