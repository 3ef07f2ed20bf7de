---------------------------- MODULE SessionBook ----------------------------
(***************************************************************************)
(* What the requests over a user's sessions promise (sessions.py,          *)
(* users/service.py, login_otp.py, password_reset.py), and nothing of how: *)
(* they take effect one after another, each at once and on what is so at   *)
(* that moment.  A session is opened with the password the user has now,   *)
(* or with a code that is used up by it, and only where the rule leaves    *)
(* room; a new password ends all sessions but the one that asks for it.    *)
(* SignIn.tla (transactions that overlap, row versions, no lock on the     *)
(* sessions) implements it.                                                *)
(***************************************************************************)
EXTENDS Naturals, FiniteSets

CONSTANTS Sids,      \* session ids: each is used once
          MaxLive    \* live sessions the rule allows

VARIABLES sessions,  \* the live sessions, each with the password it rests on
          used,      \* ids of sessions that were ever opened
          password,  \* the password of the user, by number
          code       \* is there a one-time code

vars == <<sessions, used, password, code>>

LiveIds == DOMAIN sessions

Init ==
  /\ sessions = [s \in {} |-> 0] /\ used = {}
  /\ password = 1 /\ code = FALSE

\* Session s is opened, in the place of those gone if there was no room.
Open(s, gone, byCode) ==
  /\ s \notin used /\ Cardinality(LiveIds \ gone) < MaxLive
  /\ byCode => code
  /\ sessions' = [x \in (LiveIds \ gone) \union {s} |-> IF x = s THEN password ELSE sessions[x]]
  /\ used' = used \union {s}
  /\ code' = (code /\ ~byCode)
  /\ UNCHANGED password

\* A new password: at most the session that asked for it goes on, and rests on it.
NewPassword(kept) ==
  /\ kept \subseteq LiveIds /\ \A x, y \in kept : x = y
  /\ sessions' = [x \in kept |-> password + 1]
  /\ password' = password + 1
  /\ UNCHANGED <<used, code>>

\* One device, or all that the request has found, is signed out.
SignOut(gone) ==
  /\ sessions' = [x \in LiveIds \ gone |-> sessions[x]]
  /\ UNCHANGED <<used, password, code>>

SendCode == code' = TRUE /\ UNCHANGED <<sessions, used, password>>

Next ==
  \/ SendCode
  \/ \E gone \in SUBSET Sids :
       \/ SignOut(gone) \/ NewPassword(gone)
       \/ \E s \in Sids, byCode \in BOOLEAN : Open(s, gone, byCode)

Spec == Init /\ [][Next]_vars
=============================================================================
