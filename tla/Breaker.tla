-------------------------------- MODULE Breaker --------------------------------
(***************************************************************************)
(* The circuit breaker of one endpoint group (zoho/core/breaker.py) as     *)
(* the request pipeline of transport.py drives it: allow() before every    *)
(* call, record_success() or record_failure() after it.  The four Redis    *)
(* keys of the group are shared by all workers; every command, or MULTI    *)
(* pipeline, is one action, so callers interleave between reading the      *)
(* state and taking the probe, between checking the probe and closing, and *)
(* between counting a trip and opening.  Redis may fail under any of them  *)
(* and workers may die; keys lapse by their TTL.                           *)
(***************************************************************************)
EXTENDS Naturals, Sequences, FiniteSets

CONSTANTS
  Workers,      \* callers of the group, in any process
  MinCalls,     \* ZOHO_CB_MIN_CALLS
  Percent,      \* ZOHO_CB_FAILURE_RATE and ZOHO_CB_SLOW_RATE, in percent
  MaxTrips,     \* trips from which ZOHO_CB_RECOVERY_MAX_SECONDS caps the cool-down
  MaxWindow,    \* bound: calls the window holds before the oldest ones leave
  none          \* no probe key

ASSUME BreakerAssumption ==
  /\ MinCalls \in Nat \ {0} /\ Percent \in 1 .. 100
  /\ MaxTrips \in Nat \ {0} /\ MaxWindow \in Nat /\ MaxWindow >= MinCalls
  /\ none \notin Workers

VARIABLES
  open,      \* zoho:cb:{group}:state exists
  trips,     \* zoho:cb:{group}:meta field trips, 0 when the field is absent
  mortal,    \* the meta hash has a TTL
  window,    \* zoho:cb:{group}:window, oldest outcome first
  probe,     \* zoho:cb:{group}:probe: the worker that put it there
  pc,        \* where each worker stands between allow() and the end of record_*()
  trial,     \* trial[w]: w's Admission carries a probe_id
  said,      \* said[w]: what came of w's call
  zoho,      \* "well" until the first outage, "ill", then "calm": Zoho and Redis behave for good
  stale      \* history: admissions older than the latest opening

redis == <<open, trips, mortal, window, probe>>
vars == <<open, trips, mortal, window, probe, pc, trial, said, zoho, stale>>

Verdicts == {"ok", "slow", "fail"}          \* what the window remembers
Outcomes == Verdicts \union {"business"}    \* 400, 404, 429, quota: never counted
AtRedis == {"owned", "record", "trip", "open", "close"}

TypeOK ==
  /\ open \in BOOLEAN /\ trips \in 0 .. MaxTrips /\ mortal \in BOOLEAN
  /\ window \in Seq(Verdicts)
  /\ probe \in Workers \union {none}
  /\ pc \in [Workers -> {"idle", "meta", "take", "call"} \union AtRedis]
  /\ trial \in [Workers -> BOOLEAN]
  /\ said \in [Workers -> Outcomes]
  /\ zoho \in {"well", "ill", "calm"}
  /\ stale \in SUBSET Workers

Init ==
  /\ open = FALSE /\ trips = 0 /\ mortal = FALSE /\ window = <<>> /\ probe = none
  /\ pc = [w \in Workers |-> "idle"] /\ trial = [w \in Workers |-> FALSE]
  /\ said = [w \in Workers |-> "ok"]
  /\ zoho = "well" /\ stale = {}

Goto(w, label) == pc' = [pc EXCEPT ![w] = label]

Keep(w) == UNCHANGED <<trial, said, zoho, stale>>

\* The call is over; its Admission and its outcome are forgotten.
Leave(w) ==
  /\ Goto(w, "idle")
  /\ trial' = [trial EXCEPT ![w] = FALSE] /\ said' = [said EXCEPT ![w] = "ok"]
  /\ stale' = stale \ {w}
  /\ UNCHANGED zoho

-----------------------------------------------------------------------------
(* allow() *)

Admit(w, isProbe) ==
  /\ Goto(w, "call")
  /\ trial' = [trial EXCEPT ![w] = isProbe]
  /\ stale' = stale \ {w}
  /\ UNCHANGED <<said, zoho>>

\* GET state: an OPEN group refuses the caller, who may ask again later.
ReadState(w) ==
  /\ pc[w] = "idle" /\ ~open
  /\ Goto(w, "meta")
  /\ Keep(w) /\ UNCHANGED redis

\* HGET trips: with no state key, a remembered trip means HALF_OPEN.
ReadClosed(w) ==
  /\ pc[w] = "meta" /\ trips = 0
  /\ Admit(w, FALSE) /\ UNCHANGED redis

ReadHalfOpen(w) ==
  /\ pc[w] = "meta" /\ trips > 0
  /\ Goto(w, "take")
  /\ Keep(w) /\ UNCHANGED redis

\* SET NX PX: exactly one caller gets the probe.
TakeProbe(w) ==
  /\ pc[w] = "take" /\ probe = none
  /\ probe' = w
  /\ Admit(w, TRUE) /\ UNCHANGED <<open, trips, mortal, window>>

Refused(w) ==
  /\ pc[w] = "take" /\ probe /= none
  /\ Leave(w) /\ UNCHANGED redis

\* RedisError: the breaker fails open.
AdmitUnread(w) ==
  /\ pc[w] \in {"idle", "meta", "take"} /\ zoho /= "calm"
  /\ Admit(w, FALSE) /\ UNCHANGED redis

\* What may come of a call.
Possible == IF zoho = "ill" THEN Outcomes ELSE {"ok", "business"}

-----------------------------------------------------------------------------
(* Mutations: bugs this code could have, each caught by a property below. *)

\* 429s recorded as failures (the v1 breaker).
DroppedAsFailure(w) ==
  /\ pc[w] = "call" /\ ~trial[w]
  /\ Goto(w, "record") /\ said' = [said EXCEPT ![w] = "fail"]
  /\ UNCHANGED <<trial, zoho, stale>> /\ UNCHANGED redis

\* Business errors go into the window too.
AnswerRecorded(w) == \E o \in Possible :
  /\ pc[w] = "call"
  /\ Goto(w, IF trial[w] THEN "owned" ELSE "record")
  /\ said' = [said EXCEPT ![w] = o]
  /\ UNCHANGED <<trial, zoho, stale>> /\ UNCHANGED redis

\* _open leaves the probe key alone.
WipedWindow == window' = <<>> /\ UNCHANGED probe

\* The probe is set without a TTL.
ProbeForever == FALSE /\ UNCHANGED vars

-----------------------------------------------------------------------------
(* The call, and record_success() or record_failure(). *)

\* A probe's outcome always goes on to the ownership check.
Answer(w) == \E o \in Possible :
  /\ pc[w] = "call" /\ (trial[w] \/ o \in Verdicts)
  /\ Goto(w, IF trial[w] THEN "owned" ELSE "record")
  /\ said' = [said EXCEPT ![w] = o]
  /\ UNCHANGED <<trial, zoho, stale>> /\ UNCHANGED redis

\* A business error of an ordinary call is not recorded.
Dropped(w) ==
  /\ pc[w] = "call" /\ ~trial[w]
  /\ Leave(w) /\ UNCHANGED redis

\* The call is never made, or its answer never recorded: the governor or the
\* token manager refuses after allow(), _parse raises, the worker dies.
GiveUp(w) ==
  /\ pc[w] = "call" /\ zoho /= "calm"
  /\ Leave(w) /\ UNCHANGED redis

\* _owns_probe(): an expired or stolen probe decides nothing.
LostProbe(w) ==
  /\ pc[w] = "owned" /\ probe /= w
  /\ Leave(w) /\ UNCHANGED redis

\* A counted failure of the probe opens the group again, any answer closes it.
OwnsProbe(w) ==
  /\ pc[w] = "owned" /\ probe = w
  /\ Goto(w, IF said[w] = "fail" THEN "trip" ELSE "close")
  /\ Keep(w) /\ UNCHANGED redis

Count(v, s) == Cardinality({i \in DOMAIN s : s[i] = v})

Reached(v, s) == 100 * Count(v, s) >= Percent * Len(s)

Judged(s) == Len(s) >= MinCalls /\ (Reached("fail", s) \/ Reached("slow", s))

\* _record(): one pipeline prunes the window, adds the outcome and returns it.
Record(w) ==
  /\ pc[w] = "record" /\ Len(window) < MaxWindow
  /\ window' = Append(window, said[w])
  /\ UNCHANGED <<open, trips, mortal, probe>>
  /\ IF Judged(window') THEN Goto(w, "trip") /\ Keep(w) ELSE Leave(w)

\* _open(), first command: HINCRBY trips.
Trip(w) ==
  /\ pc[w] = "trip"
  /\ trips' = IF trips < MaxTrips THEN trips + 1 ELSE trips
  /\ Goto(w, "open")
  /\ Keep(w) /\ UNCHANGED <<open, mortal, window, probe>>

Wiped == window' = <<>> /\ probe' = none

\* _open(), second command: the pipeline.  It rewrites recovery_s and opened_at
\* of the hash but not trips, which a close in between has deleted.
Open(w) ==
  /\ pc[w] = "open"
  /\ open' = TRUE /\ mortal' = TRUE /\ Wiped
  /\ Goto(w, "idle")
  /\ trial' = [trial EXCEPT ![w] = FALSE] /\ said' = [said EXCEPT ![w] = "ok"]
  /\ stale' = {v \in Workers : pc[v] \notin {"idle", "meta", "take"}} \ {w}
  /\ UNCHANGED <<trips, zoho>>

Closing == open' = FALSE /\ trips' = 0 /\ mortal' = FALSE /\ Wiped

\* _close(): one DEL of the four keys.
Close(w) ==
  /\ pc[w] = "close"
  /\ Closing /\ Leave(w)

\* RedisError or the death of the worker under any command of record_*().
OutcomeLost(w) ==
  /\ pc[w] \in AtRedis /\ zoho /= "calm"
  /\ Leave(w) /\ UNCHANGED redis

-----------------------------------------------------------------------------
(* Keys lapse; the operator resets the group; Zoho falls ill and recovers. *)

StateLapses ==
  /\ open /\ open' = FALSE
  /\ UNCHANGED <<trips, mortal, window, probe, pc, trial, said, zoho, stale>>

\* The meta hash outlives the state key by four windows.
MetaLapses ==
  /\ mortal /\ ~open
  /\ mortal' = FALSE /\ trips' = 0
  /\ UNCHANGED <<open, window, probe, pc, trial, said, zoho, stale>>

\* In the calm, answers come within the probe TTL.
ProbeLapses ==
  /\ probe /= none
  /\ zoho = "calm" => ~(pc[probe] \in {"call", "owned"} /\ trial[probe])
  /\ probe' = none
  /\ UNCHANGED <<open, trips, mortal, window, pc, trial, said, zoho, stale>>

\* The oldest call leaves the window, by its age.
WindowSlides ==
  /\ window /= <<>>
  /\ window' = Tail(window)
  /\ UNCHANGED <<open, trips, mortal, probe, pc, trial, said, zoho, stale>>

Reset ==
  /\ Closing
  /\ UNCHANGED <<pc, trial, said, zoho, stale>>

Sickens ==
  /\ zoho = "well" /\ zoho' = "ill"
  /\ UNCHANGED <<open, trips, mortal, window, probe, pc, trial, said, stale>>

CalmsDown ==
  /\ zoho = "ill" /\ zoho' = "calm"
  /\ UNCHANGED <<open, trips, mortal, window, probe, pc, trial, said, stale>>

Step(w) ==
  \/ ReadState(w) \/ ReadClosed(w) \/ ReadHalfOpen(w) \/ TakeProbe(w) \/ Refused(w)
  \/ Answer(w) \/ Dropped(w) \/ LostProbe(w) \/ OwnsProbe(w) \/ Record(w) \/ Trip(w) \/ Open(w) \/ Close(w)

Next ==
  \/ \E w \in Workers : Step(w) \/ AdmitUnread(w) \/ GiveUp(w) \/ OutcomeLost(w)
  \/ StateLapses \/ MetaLapses \/ ProbeLapses \/ WindowSlides \/ Reset
  \/ Sickens \/ CalmsDown

Spec == Init /\ [][Next]_vars

\* TTLs run out, and callers that live keep calling.  Nobody is obliged to
\* reset the group, to fall ill or to get well.
Fairness ==
  /\ \A w \in Workers : WF_vars(Step(w))
  /\ WF_vars(StateLapses) /\ WF_vars(ProbeLapses) /\ WF_vars(WindowSlides)

LiveSpec == Spec /\ Fairness

-----------------------------------------------------------------------------
(* Properties *)

Calls == {w \in Workers : pc[w] \in {"call", "owned"}}

\* A probe key never outlives the opening it was taken under: the call that
\* could decide the group's fate by holding it was admitted after the latest
\* opening.  (_open deletes the probe key in the same pipeline; without that an
\* answer from before the outage would end the cool-down.)
ProbesAreFresh == \A w \in Calls : (trial[w] /\ probe = w) => w \notin stale

\* Throttling, quota errors and business errors never open the circuit: until
\* Zoho has really been down nothing was counted against it, however calls
\* interleave and whatever Redis loses (breaker.py:7, errors.py:60-66).
NeverTripsOnThrottling == zoho = "well" => trips = 0 /\ ~open

\* Once Zoho and Redis behave for good the group closes and stays closed: no
\* probe that was taken and never answered, no late failure and no lost command
\* locks the callers out.
Heals == (zoho = "calm") ~> [](~open /\ trips = 0)

\* A call that was already under way when the circuit opened does not close it
\* again: only a probe sent after that opening does (breaker.py:8).
OnlyFreshProbesClose ==
  [][\A w \in Workers : (open /\ pc[w] = "close" /\ Close(w)) => w \notin stale]_vars
================================================================================
