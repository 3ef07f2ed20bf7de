------------------------------- MODULE SignIn -------------------------------
(***************************************************************************)
(* One user's sign-in sessions (modules/users/sessions.py) and the         *)
(* requests that open, check, rotate and end them: sign-in by password or  *)
(* one-time code, password change and reset, sign-out (users/service.py,   *)
(* login_otp.py, password_reset.py), several at once.                      *)
(*                                                                         *)
(* A request is one READ COMMITTED transaction that get_db() commits at    *)
(* its end or rolls back on any exception.  The users row carries a        *)
(* row_version: an UPDATE of it locks the row until the request is over    *)
(* and fails when the row has moved since it was read.  Session rows carry *)
(* none; the Redis key of a session is written before the commit, if Redis *)
(* answers: every failure of it is logged and the request goes on.         *)
(***************************************************************************)
EXTENDS Naturals, FiniteSets

CONSTANTS
  Clients,      \* requests in flight
  Sids,         \* session rows, by uuid
  MaxLive,      \* max_sessions of the user's SessionRule
  MaxPasswords, \* bound: passwords the user has had
  nobody        \* no request

ASSUME SignInAssumption ==
  /\ IsFiniteSet(Sids) /\ nobody \notin Clients \union Sids
  /\ MaxLive \in Nat \ {0} /\ MaxPasswords \in Nat \ {0}

VARIABLES
  row,       \* each row of auth.user_sessions
  cached,    \* the Redis key auth:session:<sid> of each
  opened,    \* history: of a live one, the password when its opener read the user
  rotated,   \* the live ones whose refresh token has a predecessor
  password,  \* which password users.password holds the hash of
  code,      \* is there a row of login_otp_tokens
  opens,     \* history: sessions the last code sent has opened
  holder,    \* the request that has updated the users row and not committed
  outdated,  \* the requests whose copy of the users row is an old version
  request,   \* what each request is doing
  crossed,   \* history: keys a check wrote after revoke(), having read before the commit
  unwritten  \* history: keys that said live when revoke() could not write them

signInVars == <<row, cached, opened, rotated, password, code, opens, holder,
                outdated, request, crossed, unwritten>>

NoRequest == [op |-> "none", at |-> "none", sid |-> nobody, proof |-> 0,
         todo |-> {}, ended |-> {}]
SignIns == {"login", "otp"}
Passwords == {"change", "reset"}
Updating == SignIns \union Passwords \union {"logout"}  \* what updates the users row
Requesting == [op : Updating \union {"check", "none"},
               at : {"none", "read", "flush", "list", "end", "commit"},
               sid : Sids \union {nobody},        \* the session of the token
               proof : 0 .. MaxPasswords,         \* the password a sign-in has read
               todo : SUBSET Sids,                \* rows listed to be revoked
               ended : SUBSET Sids]               \* rows revoked, not committed

SignInTypeOK ==
  /\ row \in [Sids -> {"absent", "live", "revoked"}]
  /\ cached \in [Sids -> {"none", "live", "revoked"}]
  /\ opened \in [Sids -> 0 .. MaxPasswords]
  /\ rotated \in SUBSET Sids /\ crossed \in SUBSET Sids /\ unwritten \in SUBSET Sids
  /\ password \in 1 .. MaxPasswords
  /\ code \in BOOLEAN /\ opens \in 0 .. Cardinality(Sids)
  /\ holder \in Clients \union {nobody} /\ outdated \in SUBSET Clients
  /\ request \in [Clients -> Requesting]

SignInInit ==
  /\ row = [s \in Sids |-> "absent"] /\ cached = [s \in Sids |-> "none"]
  /\ opened = [s \in Sids |-> 0] /\ rotated = {} /\ crossed = {} /\ unwritten = {}
  /\ password = 1 /\ code = FALSE /\ opens = 0
  /\ holder = nobody /\ outdated = {}
  /\ request = [w \in Clients |-> NoRequest]

LiveSessions == {s \in Sids : row[s] = "live"}
sessionRows == <<row, opened, rotated>>
user == <<password, code, opens>>

Begins(w, op, at, sid) ==
  /\ request[w] = NoRequest
  /\ request' = [request EXCEPT ![w] = [NoRequest EXCEPT !.op = op, !.at = at, !.sid = sid,
                                          !.proof = IF op \in SignIns THEN password ELSE 0]]
  /\ UNCHANGED <<sessionRows, cached, user, holder, outdated, crossed, unwritten>>

\* The request is over, with or without a commit; moved: the users row has a new version.
Ends(w, moved) ==
  /\ request' = [request EXCEPT ![w] = NoRequest]
  /\ holder' = IF holder = w THEN nobody ELSE holder
  /\ outdated' = (IF moved THEN {b \in Clients : request[b].op \in Updating} ELSE outdated) \ {w}

-----------------------------------------------------------------------------
(* The requests begin.  Signing in by password opens the session and then
   updates the user; by code, and a new password, the other way round.      *)

BeginSignIn(w) ==
  \/ Begins(w, "login", "list", nobody)
  \/ code /\ Begins(w, "otp", "flush", nobody)

\* change_password() of the holder of session s, reset_password() by reset code.
BeginPassword(w) ==
  /\ password < MaxPasswords
  /\ \/ \E s \in LiveSessions : Begins(w, "change", "flush", s)
     \/ Begins(w, "reset", "flush", nobody)

\* revoke_current(), one device, or revoke_all(): by the user, who updates the
\* users row if has_active_session was set, or by an administrator.
BeginLogout(w) ==
  \/ \E s \in Sids : row[s] # "absent" /\ Begins(w, "logout", "list", s)
  \/ Begins(w, "logout", "list", nobody)

\* request_login_otp(): upsert_login_otp() keeps one code, the user is not updated.
SendCode ==
  /\ code' = TRUE /\ opens' = 0
  /\ UNCHANGED <<sessionRows, cached, password, holder, outdated, request, crossed, unwritten>>

\* Mutant: the UPDATE of the users row does not compare the row_version.
UserAnyVersion(w) == TRUE
UserCurrent(w) == w \notin outdated

\* The first flush that updates the user.
FlushUser(w) ==
  /\ request[w].at = "flush" /\ holder = nobody /\ UserCurrent(w)
  /\ holder' = w
  /\ request' = [request EXCEPT ![w].at = IF request[w].op \in Passwords \union {"otp"}
                                          THEN "list" ELSE "commit"]
  /\ UNCHANGED <<sessionRows, cached, user, outdated, crossed, unwritten>>

-----------------------------------------------------------------------------
(* start(), revoke_all(), revoke(). *)

\* A sign-in displaces the oldest rows beyond the rule.
Displaced(d) ==
  Cardinality(d) = IF Cardinality(LiveSessions) < MaxLive THEN 0
                   ELSE Cardinality(LiveSessions) - MaxLive + 1

RevokeAll(w) == LiveSessions \ {request[w].sid}

\* The rows a request revokes: those displaced, all but its own, all or one.
ToRevoke(w) ==
  {d \in SUBSET LiveSessions :
     /\ request[w].op \in SignIns => Displaced(d)
     /\ request[w].op \in Passwords => d = RevokeAll(w)
     /\ request[w].op = "logout" =>
          d = IF request[w].sid = nobody THEN LiveSessions ELSE LiveSessions \intersect {request[w].sid}}

List(w) ==
  /\ request[w].at = "list"
  /\ \E d \in ToRevoke(w) :
       request' = [request EXCEPT ![w] = [@ EXCEPT !.at = "end", !.todo = d]]
  /\ UNCHANGED <<sessionRows, cached, user, holder, outdated, crossed, unwritten>>

\* Mutant: revoke() leaves the key to expire.
KeepsKey(s) == cached[s]
KeyAfterRevoke(s) == "revoked"

\* revoke(): the key - unless Redis fails, which is logged - then the flush of the row.
Revoke(w, s) ==
  /\ request[w].at = "end" /\ s \in request[w].todo
  /\ request' = [request EXCEPT ![w] = [request[w] EXCEPT !.todo = @ \ {s}, !.ended = @ \union {s}]]
  /\ \/ /\ cached' = [cached EXCEPT ![s] = KeyAfterRevoke(s)]
        /\ crossed' = crossed \ {s} /\ unwritten' = unwritten \ {s}
     \/ /\ unwritten' = unwritten \union (IF cached[s] = "live" THEN {s} ELSE {})
        /\ UNCHANGED <<cached, crossed>>
  /\ UNCHANGED <<sessionRows, user, holder, outdated>>

\* What follows the revocations: login() and logout() update the user now.
AfterRevoking(w) ==
  /\ request[w].at = "end" /\ request[w].todo = {}
  /\ \E at \in {"flush", "commit"} :
       /\ at = "flush" => request[w].op \in {"login", "logout"}
       /\ at = "commit" => request[w].op # "login"
       /\ request' = [request EXCEPT ![w].at = at]
  /\ UNCHANGED <<sessionRows, cached, user, holder, outdated, crossed, unwritten>>

\* change_password() leaves the session that asks for it, for the new password.
Kept(t) == IF t.op = "change" THEN LiveSessions \intersect {t.sid} ELSE {}

\* get_db() commits.  A sign-in's row is there, the rows it revoked are revoked.
CommitRequest(w) ==
  LET t == request[w]
  IN  /\ t.at = "commit"
      /\ \E s \in IF t.op \in SignIns THEN {x \in Sids : row[x] = "absent"} ELSE {nobody} :
           /\ row' = [x \in Sids |-> IF x = s THEN "live" ELSE IF x \in t.ended THEN "revoked" ELSE row[x]]
           /\ opened' = [x \in Sids |-> IF x = s THEN t.proof ELSE IF x \in t.ended THEN 0
                                          ELSE IF x \in Kept(t) THEN password + 1 ELSE opened[x]]
      /\ password' = IF t.op \in Passwords THEN password + 1 ELSE password
      /\ code' = (code /\ t.op # "otp")
      /\ opens' = IF t.op = "otp" THEN opens + 1 ELSE opens
      /\ rotated' = rotated \ t.ended
      /\ Ends(w, holder = w)
      /\ UNCHANGED <<cached, crossed, unwritten>>

\* A refusal (the rule "refuse", a stale users row, an error), a deadlock with
\* the rows of another request, a crash: the keys written stay written.
Abort(w) ==
  /\ request[w] # NoRequest
  /\ Ends(w, FALSE)
  /\ UNCHANGED <<sessionRows, cached, user, crossed, unwritten>>

-----------------------------------------------------------------------------
(* check() and refresh(). *)

\* Without a key, or an answer of Redis, check() reads the row and writes the key;
\* with one it judges.
BeginCheck(w, s) == row[s] = "live" /\ Begins(w, "check", "read", s)

\* revoke() has flushed the row of s, or it has been committed.
Ending(s) == row[s] = "revoked" \/ \E b \in Clients : s \in request[b].ended

\* (A write that fails is Abort.)
FinishCheck(w) ==
  LET s == request[w].sid
  IN  /\ request[w].op = "check"
      /\ cached' = [cached EXCEPT ![s] = "live"]
      /\ crossed' = IF Ending(s) THEN crossed \union {s} ELSE crossed
      /\ unwritten' = unwritten \ {s}
      /\ Ends(w, FALSE)
      /\ UNCHANGED <<sessionRows, user>>

\* A check that reads a revoked row, for want of a key or of an answer.
CheckRevoked(s) ==
  /\ row[s] = "revoked" /\ cached[s] # "revoked"
  /\ cached' = [cached EXCEPT ![s] = "revoked"]
  /\ crossed' = crossed \ {s} /\ unwritten' = unwritten \ {s}
  /\ UNCHANGED <<sessionRows, user, holder, outdated, request>>

\* SESSION_CACHE_TTL_SECONDS are over.
KeyExpires(s) ==
  /\ cached[s] # "none"
  /\ cached' = [cached EXCEPT ![s] = "none"]
  /\ crossed' = crossed \ {s} /\ unwritten' = unwritten \ {s}
  /\ UNCHANGED <<sessionRows, user, holder, outdated, request>>

\* refresh() of a live row, with the current token or, within REFRESH_REUSE_GRACE,
\* the previous one.  It writes columns nobody else does.
Rotate(s) ==
  /\ row[s] = "live"
  /\ rotated' = rotated \union {s}
  /\ UNCHANGED <<row, opened, cached, user, holder, outdated, request, crossed, unwritten>>

\* refresh() with the previous one after the grace: revoke() writes the key (if Redis
\* answers) and flushes the row, SessionRevoked is raised, get_db() rolls back.
Reuse(s) ==
  /\ row[s] = "live" /\ s \in rotated
  /\ cached' = [cached EXCEPT ![s] = "revoked"]
  /\ crossed' = crossed \ {s} /\ unwritten' = unwritten \ {s}
  /\ UNCHANGED <<sessionRows, user, holder, outdated, request>>

-----------------------------------------------------------------------------
SignInNext ==
  \/ SendCode
  \/ \E w \in Clients :
       \/ BeginSignIn(w) \/ BeginPassword(w) \/ BeginLogout(w)
       \/ FlushUser(w) \/ List(w) \/ AfterRevoking(w) \/ CommitRequest(w) \/ Abort(w)
       \/ FinishCheck(w)
       \/ \E s \in Sids : Revoke(w, s) \/ BeginCheck(w, s)
  \/ \E s \in Sids : CheckRevoked(s) \/ KeyExpires(s) \/ Rotate(s) \/ Reuse(s)

SignInSpec == SignInInit /\ [][SignInNext]_signInVars

-----------------------------------------------------------------------------
(* What the requests come to: the sessions of committed rows. *)

Resting == [s \in LiveSessions |-> opened[s]]
Used == {s \in Sids : row[s] # "absent"}

Book == INSTANCE SessionBook WITH sessions <- Resting, used <- Used

-----------------------------------------------------------------------------
(* Properties. *)

(* sessions.md, "live field sessions per user": the count of start() takes no lock,
   but every sign-in updates the users row, so two at once never leave more
   live sessions than the rule allows.                                     *)
SessionRuleHolds == Cardinality(LiveSessions) <= MaxLive

(* sessions.md, "Password change revokes every other session; password reset
   revokes all", login_otp.py:187 "single use": no live session was opened
   with a password that is no longer the user's, however the sign-in and the
   change overlap, and one code never opens two.                           *)
OldSecretsOpenNothing ==
  /\ \A s \in LiveSessions : opened[s] = password
  /\ opens <= 1

(* However requests overlap, their commits are sign-ins, new passwords and
   sign-outs one after another, each on the password, the code and the sessions
   of its moment: what start(), verify_login_otp() and change_password() decide
   long before, from reads that lock nothing, is still so when it is written. *)
OneAfterAnother == Book!Spec

(* sessions.py:324-325, "the next request must not see 'live'": the key of a
   revoked session says live only if a check read the row before the commit
   and wrote the key after revoke() was there, or if Redis failed when
   revoke() wrote the key: the row is flushed all the same.                *)
SeenLiveOnlyByCause ==
  \A s \in Sids : row[s] = "revoked" /\ cached[s] = "live" => s \in crossed \union unwritten
=============================================================================
