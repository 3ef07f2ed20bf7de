------------------------------ MODULE Governor ------------------------------
(***************************************************************************)
(* The admission gate of every Zoho call (modules/zoho/core/governor.py    *)
(* and its two Lua scripts): the counters of a quota day, the lease set    *)
(* that bounds concurrency, the minute bucket, and the life of a lease in  *)
(* the transport, with workers that crash, leases that outlive their TTL   *)
(* and releases that are retried or lost.  A Lua script is one action.     *)
(***************************************************************************)
EXTENDS Integers, FiniteSets

CONSTANTS
  Calls,          \* one admission attempt each (a lease id is a fresh uuid4)
  Rank,           \* Rank[c]: 0 interactive, 1 push, 2 refresh, 3 incremental, 4 reconcile
  Daily, Hard, Essential, Soft,  \* thresholds of a day, in calls
  ReserveCalls,   \* calls above Hard that only interactive traffic may use
  ConcLimit,      \* concurrency_limit
  Burst,          \* rate_burst, the capacity of the minute bucket
  RateReserve,    \* RateReserve[r]: tokens rank r must leave in the bucket
  Carry,          \* what the pacing curve unlocks at the start of a day
  MaxDay,         \* bound: the days modelled are 0 .. MaxDay
  MaxFaults       \* bound: crashes, late or lost releases of one behaviour

Days == 0 .. MaxDay

ASSUME GovernorAssumption ==
  /\ IsFiniteSet(Calls)
  /\ Rank \in [Calls -> 0 .. 4]
  /\ Daily \in Nat /\ Hard \in Nat /\ Essential \in Nat /\ Soft \in Nat
  /\ Soft =< Essential /\ Essential =< Hard /\ Hard =< Daily
  /\ ReserveCalls \in Nat
  /\ ConcLimit \in Nat \ {0}
  /\ Burst \in Nat
  /\ RateReserve \in [0 .. 4 -> 0 .. Burst]
  /\ Carry \in 0 .. Hard
  /\ MaxDay \in Nat
  /\ MaxFaults \in Nat

VARIABLES
  day,        \* the quota day now
  allowance,  \* background calls the pacing curve has unlocked for today
  used, reserved, usedBg, exhausted,  \* the Redis hash of each day
  inflight,   \* the Redis lease set
  expired,    \* the leases of inflight whose score is in the past
  tokens,     \* the minute bucket
  phase,      \* where each call stands
  leaseDay,   \* the day key each call charges
  sent,       \* the calls whose lease is marked sent
  code45,     \* calls answered with code 45 that did not report it yet
  faults,     \* faults so far
  again,      \* history: the units a repeated run of the admission reserved
  counted,    \* history: the calls a release has moved to used
  refunded,   \* history: the calls a release has given back
  said45      \* history: the days on which Zoho answered code 45

redis == <<used, reserved, usedBg, exhausted, inflight, expired, tokens>>
history == <<again, counted, refunded, said45>>
vars == <<day, allowance, redis, phase, leaseDay, sent, code45, faults, history>>

Phases == {"idle", "waiting", "held", "sent", "releasing", "done", "refused", "dead",
           "retrying",   \* admitted, but the reply was lost: the client runs the script again
           "orphan"}     \* admitted once, refused on the repeated run
InSlot == {"held", "sent", "releasing"}       \* inside "async with governor.slot()"
Admitted == {c \in Calls : phase[c] \in InSlot \union {"done", "dead", "retrying", "orphan"}}
Background == {c \in Calls : Rank[c] >= 3}

TypeOK ==
  /\ day \in Days
  /\ allowance \in 0 .. Hard
  /\ used \in [Days -> Nat] /\ reserved \in [Days -> Nat] /\ usedBg \in [Days -> Nat]
  /\ exhausted \in [Days -> BOOLEAN]
  /\ inflight \in SUBSET Calls /\ expired \in SUBSET inflight
  /\ tokens \in 0 .. Burst
  /\ phase \in [Calls -> Phases]
  /\ leaseDay \in [Calls -> Days]
  /\ sent \in SUBSET Calls /\ code45 \in SUBSET Calls
  /\ again \in SUBSET (Calls \X (0 .. MaxFaults))
  /\ counted \in SUBSET Calls /\ refunded \in SUBSET Calls /\ said45 \in SUBSET Days
  /\ faults \in 0 .. MaxFaults

Init ==
  /\ day = 0 /\ allowance = Carry
  /\ used = [d \in Days |-> 0]
  /\ reserved = [d \in Days |-> 0]
  /\ usedBg = [d \in Days |-> 0]
  /\ exhausted = [d \in Days |-> FALSE]
  /\ inflight = {} /\ expired = {} /\ tokens = Burst
  /\ phase = [c \in Calls |-> "idle"]
  /\ leaseDay = [c \in Calls |-> 0]
  /\ sent = {} /\ code45 = {} /\ faults = 0
  /\ again = {} /\ counted = {} /\ refunded = {} /\ said45 = {}

-----------------------------------------------------------------------------
(* The admission script: five checks in order, then the reservation. *)

CommittedUsedOnly(d) == used[d]
Committed(d) == used[d] + reserved[d]

MaxRank(d) ==
  CASE exhausted[d] \/ Committed(d) >= Daily -> -1
    [] ~exhausted[d] /\ Committed(d) \in Hard .. Daily - 1 -> 0
    [] ~exhausted[d] /\ Committed(d) \in Essential .. Hard - 1 -> 2
    [] ~exhausted[d] /\ Committed(d) \in Soft .. Essential - 1 -> 3
    [] OTHER -> 4

Ceiling(c) ==
  IF Rank[c] # 0 THEN Hard
  ELSE IF Hard + ReserveCalls < Daily THEN Hard + ReserveCalls ELSE Daily

\* A call that waited across midnight still charges the day it started on,
\* whose curve is fully unlocked.
AllowanceOf(c) == IF leaseDay[c] < day THEN Hard ELSE allowance

StateAllows(c) == Rank[c] =< MaxRank(leaseDay[c])
QuotaAllows(c) == Committed(leaseDay[c]) + 1 =< Ceiling(c)

PacingSkipped(c) == TRUE
PacingAllows(c) == c \in Background => usedBg[leaseDay[c]] + 1 =< AllowanceOf(c)

BudgetAllows(c) == StateAllows(c) /\ QuotaAllows(c) /\ PacingAllows(c)
RateFreeToken(c) == tokens >= RateReserve[Rank[c]]
RateAllows(c) == tokens - 1 >= RateReserve[Rank[c]]

LooseSlot(live) == Cardinality(live) =< ConcLimit
SlotFree(live) == Cardinality(live) < ConcLimit

\* acquire(): the day is fixed once, before the retry loop.
Begin(c) ==
  /\ phase[c] = "idle"
  /\ phase' = [phase EXCEPT ![c] = "waiting"]
  /\ leaseDay' = [leaseDay EXCEPT ![c] = day]
  /\ UNCHANGED <<day, allowance, redis, sent, code45, faults, history>>

Fault == faults < MaxFaults /\ faults' = faults + 1

\* All five checks pass; the expired leases are purged on the way. When the
\* reply is lost, redis-py runs the script again under the same lease id: the
\* set holds the lease once, but a unit and a token are taken each time.
Admit(c, replyLost) ==
  /\ phase[c] \in {"waiting", "retrying"}
  /\ BudgetAllows(c) /\ RateAllows(c) /\ SlotFree(inflight \ expired)
  /\ tokens' = tokens - 1
  /\ inflight' = (inflight \ expired) \union {c}
  /\ expired' = {}
  /\ reserved' = [reserved EXCEPT ![leaseDay[c]] = @ + 1]
  /\ again' = IF phase[c] = "retrying" THEN again \union {<<c, faults>>} ELSE again
  /\ IF replyLost
     THEN Fault /\ phase' = [phase EXCEPT ![c] = "retrying"]
     ELSE UNCHANGED faults /\ phase' = [phase EXCEPT ![c] = "held"]
  /\ UNCHANGED <<day, allowance, used, usedBg, exhausted, leaseDay, sent, code45,
                 counted, refunded, said45>>

\* State, quota or pacing refuses: raised at once, nothing is spent. A refused
\* repetition leaves what the first run reserved without an owner.
Refuse(c) ==
  /\ phase[c] \in {"waiting", "retrying"}
  /\ ~BudgetAllows(c)
  /\ phase' = [phase EXCEPT ![c] = IF @ = "waiting" THEN "refused" ELSE "orphan"]
  /\ UNCHANGED <<day, allowance, redis, leaseDay, sent, code45, faults, history>>

\* No token or no slot: sleep and try again (under a new lease id), or give up
\* at the deadline. Only a call that got past the bucket has purged the leases.
Throttle(c) ==
  /\ phase[c] \in {"waiting", "retrying"}
  /\ BudgetAllows(c)
  /\ ~(RateAllows(c) /\ SlotFree(inflight \ expired))
  /\ IF RateAllows(c)
     THEN inflight' = inflight \ expired /\ expired' = {}
     ELSE UNCHANGED <<inflight, expired>>
  /\ \E outcome \in IF phase[c] = "waiting" THEN {"waiting", "refused"} ELSE {"orphan"} :
       phase' = [phase EXCEPT ![c] = outcome]
  /\ UNCHANGED <<day, allowance, used, reserved, usedBg, exhausted, tokens, leaseDay,
                 sent, code45, faults, history>>

\* redis-py is out of retries: the call goes on without Redis, or not at all.
GiveUp(c) ==
  /\ phase[c] = "retrying"
  /\ phase' = [phase EXCEPT ![c] = "orphan"]
  /\ UNCHANGED <<day, allowance, redis, leaseDay, sent, code45, faults, history>>

-----------------------------------------------------------------------------
(* The life of a lease inside the transport. *)

\* mark_sent() just before the bytes leave.
MarkSent(c) ==
  /\ phase[c] = "held"
  /\ phase' = [phase EXCEPT ![c] = "sent"]
  /\ sent' = sent \union {c}
  /\ UNCHANGED <<day, allowance, redis, leaseDay, code45, faults, history>>

\* The slot is left before anything was sent: no access token, cancellation.
Abort(c) ==
  /\ phase[c] = "held"
  /\ phase' = [phase EXCEPT ![c] = "releasing"]
  /\ UNCHANGED <<day, allowance, redis, leaseDay, sent, code45, faults, history>>

\* Zoho answers, or the request fails on the way; the slot is left either way.
Respond(c, quotaGone) ==
  /\ phase[c] = "sent"
  /\ phase' = [phase EXCEPT ![c] = "releasing"]
  /\ code45' = IF quotaGone THEN code45 \union {c} ELSE code45
  /\ said45' = IF quotaGone THEN said45 \union {day} ELSE said45
  /\ UNCHANGED <<day, allowance, redis, leaseDay, sent, faults, again, counted, refunded>>

\* governor_release.lua on a lease that is still in the set: the reservation
\* becomes spend if the call was sent, and goes back otherwise.
SettleKeepsUnsent(c) ==
  LET d == leaseDay[c]
  IN  /\ inflight' = inflight \ {c}
      /\ expired' = expired \ {c}
      /\ IF c \in sent
         THEN /\ reserved' = [reserved EXCEPT ![d] = IF @ > 0 THEN @ - 1 ELSE 0]
              /\ used' = [used EXCEPT ![d] = @ + 1]
              /\ usedBg' = [usedBg EXCEPT ![d] = IF c \in Background THEN @ + 1 ELSE @]
              /\ counted' = counted \union {c}
              /\ UNCHANGED refunded
         ELSE UNCHANGED <<reserved, used, usedBg, counted, refunded>>

SettleNeverSent(c) ==
  LET d == leaseDay[c]
  IN  /\ inflight' = inflight \ {c}
      /\ expired' = expired \ {c}
      /\ reserved' = [reserved EXCEPT ![d] = IF @ > 0 THEN @ - 1 ELSE 0]
      /\ refunded' = refunded \union {c}
      /\ UNCHANGED <<used, usedBg, counted>>

Settle(c) ==
  LET d == leaseDay[c]
  IN  /\ inflight' = inflight \ {c}
      /\ expired' = expired \ {c}
      /\ reserved' = [reserved EXCEPT ![d] = IF @ > 0 THEN @ - 1 ELSE 0]
      /\ IF c \in sent
         THEN /\ used' = [used EXCEPT ![d] = @ + 1]
              /\ usedBg' = [usedBg EXCEPT ![d] = IF c \in Background THEN @ + 1 ELSE @]
              /\ counted' = counted \union {c}
              /\ UNCHANGED refunded
         ELSE /\ refunded' = refunded \union {c}
              /\ UNCHANGED <<used, usedBg, counted>>

\* The script is idempotent by lease id: a lease already gone changes nothing.
RunReleaseBlind(c) ==
  /\ phase[c] = "releasing"
  /\ Settle(c)
  /\ \E next \in {"releasing", "done"} : phase' = [phase EXCEPT ![c] = next]
  /\ UNCHANGED <<day, allowance, exhausted, tokens, leaseDay, sent, code45, faults,
                 again, said45>>

\* The reply may be lost, and redis-py then runs the script again.
RunRelease(c) ==
  /\ phase[c] = "releasing"
  /\ IF c \in inflight
     THEN Settle(c)
     ELSE UNCHANGED <<inflight, expired, reserved, used, usedBg, counted, refunded>>
  /\ \E next \in {"releasing", "done"} : phase' = [phase EXCEPT ![c] = next]
  /\ UNCHANGED <<day, allowance, exhausted, tokens, leaseDay, sent, code45, faults,
                 again, said45>>

\* mark_quota_exhausted(), after the slot is left: the flag goes on the day
\* that is current now.
MarkExhausted(c) ==
  /\ phase[c] = "done" /\ c \in code45
  /\ exhausted' = [exhausted EXCEPT ![day] = TRUE]
  /\ code45' = code45 \ {c}
  /\ UNCHANGED <<day, allowance, used, reserved, usedBg, inflight, expired, tokens, phase,
                 leaseDay, sent, faults, history>>

-----------------------------------------------------------------------------
(* Faults: each is bounded by MaxFaults. *)

\* The worker dies holding the lease, or before it reported code 45.
Crash(c) ==
  /\ Fault
  /\ phase[c] \in InSlot \union {"retrying"} \/ c \in code45
  /\ phase' = [phase EXCEPT ![c] = "dead"]
  /\ code45' = code45 \ {c}
  /\ UNCHANGED <<day, allowance, redis, leaseDay, sent, history>>

\* release() logs a RedisError and gives up; it never tries again.
LoseRelease(c) ==
  /\ Fault
  /\ phase[c] = "releasing"
  /\ phase' = [phase EXCEPT ![c] = "done"]
  /\ UNCHANGED <<day, allowance, redis, leaseDay, sent, code45, history>>

\* A call outlives lease_ttl_seconds.
Outlive(c) ==
  /\ Fault
  /\ phase[c] \in InSlot \union {"retrying"}
  /\ c \in inflight \ expired
  /\ expired' = expired \union {c}
  /\ UNCHANGED <<day, allowance, used, reserved, usedBg, exhausted, inflight, tokens,
                 phase, leaseDay, sent, code45, history>>

\* The lease of a dead or lost holder reaches its TTL.
Expire(c) ==
  /\ phase[c] \notin InSlot \union {"retrying"}
  /\ c \in inflight \ expired
  /\ expired' = expired \union {c}
  /\ UNCHANGED <<day, allowance, used, reserved, usedBg, exhausted, inflight, tokens,
                 phase, leaseDay, sent, code45, faults, history>>

-----------------------------------------------------------------------------
(* Time: the bucket refills, the pacing curve unlocks, the day rolls over. *)

Refill ==
  /\ tokens < Burst
  /\ tokens' = tokens + 1
  /\ UNCHANGED <<day, allowance, used, reserved, usedBg, exhausted, inflight, expired,
                 phase, leaseDay, sent, code45, faults, history>>

Unlock ==
  /\ allowance < Hard
  /\ allowance' = allowance + 1
  /\ UNCHANGED <<day, redis, phase, leaseDay, sent, code45, faults, history>>

NextDay ==
  /\ day < MaxDay
  /\ day' = day + 1
  /\ allowance' = Carry
  /\ UNCHANGED <<redis, phase, leaseDay, sent, code45, faults, history>>

Step(c) ==
  \/ Begin(c) \/ Refuse(c) \/ Throttle(c) \/ GiveUp(c)
  \/ \E replyLost \in BOOLEAN : Admit(c, replyLost)
  \/ MarkSent(c) \/ Abort(c) \/ RunRelease(c) \/ MarkExhausted(c)
  \/ \E quotaGone \in BOOLEAN : Respond(c, quotaGone)
  \/ Crash(c) \/ LoseRelease(c) \/ Outlive(c) \/ Expire(c)

Next ==
  \/ \E c \in Calls : Step(c)
  \/ Refill \/ Unlock \/ NextDay

Spec == Init /\ [][Next]_vars

-----------------------------------------------------------------------------
(* Properties. *)

SentOn(d) == {c \in sent : leaseDay[c] = d}
InSlotOn(d) == {c \in Calls : phase[c] \in InSlot /\ leaseDay[c] = d}
HeldOn(d) == {c \in Admitted \ refunded : leaseDay[c] = d}
HeldByDay == [d \in Days |-> HeldOn(d)]
CeilingOf == [c \in Calls |-> Ceiling(c)]

Ledger == INSTANCE QuotaLedger
            WITH held <- HeldByDay, spent <- sent, LimitOf <- CeilingOf

(* The governor implements the ledger: no admission without room in the day
   for its class, no refund of a call that was sent, however releases are
   retried, late or lost.                                                  *)
LedgerSpec == Ledger!Spec

(* governor.py:18 "concurrent workers cannot overshoot the ceiling": the calls
   that left for Zoho on a day's budget never exceed the contract limit, and
   those that are not interactive never touch the reserve above Hard.      *)
CeilingHolds ==
  \A d \in Days :
    /\ Cardinality(SentOn(d)) =< Daily
    /\ Cardinality({c \in SentOn(d) : Rank[c] # 0}) =< Hard

(* The counters are the calls: `used` is exactly the calls a release has moved
   there, `reserved` exactly the admitted calls no release has settled, and
   one unit for each time an admission was run again. No repeated release
   counts twice and no refund is given twice.                              *)
CountersExact ==
  \A d \in Days :
    /\ used[d] = Cardinality({c \in counted : leaseDay[c] = d})
    /\ usedBg[d] = Cardinality({c \in counted \cap Background : leaseDay[c] = d})
    /\ reserved[d] = Cardinality({c \in Admitted \ (counted \union refunded) : leaseDay[c] = d})
                       + Cardinality({u \in again : leaseDay[u[1]] = d})

(* A reservation only outlives its call through a fault, one per fault: with
   nothing in the slot and no fault, nothing of the day stays reserved.    *)
LeakBounded == \A d \in Days : reserved[d] =< Cardinality(InSlotOn(d)) + faults

(* Calls on the wire, over the whole fleet, are at most concurrency_limit,
   plus one for every lease that outlived its TTL while its call ran on.   *)
WireBound == Cardinality({c \in Calls : phase[c] \in {"held", "sent"}}) =< ConcLimit + faults

(* Background traffic may run ahead of the pacing curve by the calls that were
   in flight together, because only settled calls are compared with the
   allowance, and by the spend a late or lost release never counted.       *)
PacingOvershootBounded ==
  \A d \in Days :
    Cardinality(SentOn(d) \cap Background)
      =< (IF d < day THEN Hard ELSE IF d = day THEN allowance ELSE 0)
           + (ConcLimit - 1) + faults

(* governor.py:102 "exhausted: nothing -- resumes at the next quota day": only
   a day on which Zoho answered code 45 is stopped by that answer.         *)
StopsOnlyTheRefusedDay == \A d \in Days : exhausted[d] => d \in said45
=============================================================================
