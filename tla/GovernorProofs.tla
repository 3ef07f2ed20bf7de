--------------------------- MODULE GovernorProofs ---------------------------
(***************************************************************************)
(* For any number of calls, days and thresholds: the counters of a quota   *)
(* day are exact, the governor implements the ledger, and therefore the    *)
(* contract limit holds; a leaked reservation, a call beyond the           *)
(* concurrency limit and an overshoot of the pacing curve are paid for by  *)
(* one fault each.                                                         *)
(***************************************************************************)
EXTENDS Governor, FiniteSetTheorems, TLAPS

Settled == counted \union refunded
Open == Admitted \ Settled
On(d) == {c \in Calls : leaseDay[c] = d}

(* Where the sets of a lease's life stand to one another; a unit reserved by a
   repeated admission carries the number of the fault that caused it.      *)
Life ==
  /\ \A u \in again : u[1] \in Admitted /\ u[2] =< faults
  /\ \A c \in Calls : phase[c] = "retrying" => \A u \in again : u[1] = c => u[2] < faults
  /\ inflight \subseteq Open
  /\ counted \subseteq sent
  /\ sent \subseteq Admitted
  /\ refunded \subseteq Admitted \ sent
  /\ code45 \subseteq Admitted
  /\ \A c \in Calls : phase[c] \in {"held", "sent", "retrying"} => c \notin Settled
  /\ \A c \in Calls : leaseDay[c] =< day

(* A reservation whose call cannot settle it any more, or that no longer
   occupies a slot: its worker died, its release was lost, or it outlived its
   TTL.                                                                    *)
Strays == {c \in Open : phase[c] \notin InSlot \/ c \notin inflight \ expired}

StraysBounded == Cardinality(Strays) + Cardinality(again) =< faults
SlotsBounded == Cardinality(inflight \ expired) =< ConcLimit

(* What the curve has unlocked for a day, seen from any time. *)
Unlocked(d) == IF d < day THEN Hard ELSE IF d = day THEN allowance ELSE 0
BgOn(d) == (HeldOn(d) \cap Background)
PacedOn(d) == Cardinality(BgOn(d)) =< Unlocked(d) + (ConcLimit - 1) + faults

-----------------------------------------------------------------------------
(* Sets of calls and their sizes. *)

LEMMA CallsFinite ==
  ASSUME NEW S \in SUBSET Calls
  PROVE  IsFiniteSet(S) /\ Cardinality(S) \in Nat
BY GovernorAssumption, FS_Subset, FS_CardinalityType DEF GovernorAssumption

LEMMA AddCall ==
  ASSUME NEW S \in SUBSET Calls, NEW c \in Calls, c \notin S
  PROVE  Cardinality(S \union {c}) = Cardinality(S) + 1
BY CallsFinite, FS_AddElement

LEMMA RemoveCall ==
  ASSUME NEW S \in SUBSET Calls, NEW c \in S
  PROVE  Cardinality(S) >= 1 /\ Cardinality(S \ {c}) = Cardinality(S) - 1
<1>1. IsFiniteSet(S) /\ Cardinality(S) \in Nat
  BY CallsFinite
<1>2. Cardinality(S \ {c}) = Cardinality(S) - 1
  BY <1>1, FS_RemoveElement
<1>3. Cardinality(S \ {c}) \in Nat
  BY CallsFinite
<1>. QED
  BY <1>1, <1>2, <1>3

LEMMA FewerCalls ==
  ASSUME NEW S \in SUBSET Calls, NEW T \in SUBSET S
  PROVE  Cardinality(T) =< Cardinality(S)
BY CallsFinite, FS_Subset

LEMMA UnionOfCalls ==
  ASSUME NEW S \in SUBSET Calls, NEW T \in SUBSET Calls
  PROVE  /\ Cardinality(S \union T) =< Cardinality(S) + Cardinality(T)
         /\ S \cap T = {} => Cardinality(S \union T) = Cardinality(S) + Cardinality(T)
<1>1. /\ IsFiniteSet(S) /\ Cardinality(S) \in Nat
      /\ IsFiniteSet(T) /\ Cardinality(T) \in Nat
      /\ Cardinality(S \cap T) \in Nat
  BY CallsFinite
<1>2. Cardinality(S \union T) = Cardinality(S) + Cardinality(T) - Cardinality(S \cap T)
  BY <1>1, FS_Union
<1>3. S \cap T = {} => Cardinality(S \cap T) = 0
  BY FS_EmptySet
<1>. QED
  BY <1>1, <1>2, <1>3

(* The units of repeated admissions are finitely many, and one more unit is
   one more.                                                               *)
LEMMA UnitsFinite ==
  ASSUME NEW S \in SUBSET (Calls \X (0 .. MaxFaults))
  PROVE  IsFiniteSet(S) /\ Cardinality(S) \in Nat
<1>1. IsFiniteSet(0 .. MaxFaults)
  BY GovernorAssumption, FS_Interval DEF GovernorAssumption
<1>2. IsFiniteSet(Calls \X (0 .. MaxFaults))
  BY <1>1, GovernorAssumption, FS_Product DEF GovernorAssumption
<1>. QED
  BY <1>2, FS_Subset, FS_CardinalityType

LEMMA AddUnit ==
  ASSUME NEW S \in SUBSET (Calls \X (0 .. MaxFaults)), NEW u, u \notin S
  PROVE  Cardinality(S \union {u}) = Cardinality(S) + 1
BY UnitsFinite, FS_AddElement

-----------------------------------------------------------------------------
(* Every variable keeps its type. *)

LEMMA TypeInit == ASSUME Init PROVE TypeOK
BY GovernorAssumption DEF GovernorAssumption, Init, TypeOK, Days, Phases

LEMMA TypeStep == ASSUME TypeOK, [Next]_vars PROVE TypeOK'
<1>. USE DEF TypeOK, Phases
<1>1. ASSUME NEW c \in Calls, Begin(c) PROVE TypeOK'
  BY <1>1 DEF Begin, redis, history
<1>2. ASSUME NEW c \in Calls, NEW replyLost \in BOOLEAN, Admit(c, replyLost) PROVE TypeOK'
  <2>1. tokens' \in 0 .. Burst
    <3>1. Rank[c] \in 0 .. 4
      BY GovernorAssumption DEF GovernorAssumption
    <3>2. RateReserve[Rank[c]] \in 0 .. Burst /\ Burst \in Nat
      BY <3>1, GovernorAssumption DEF GovernorAssumption
    <3>3. tokens' = tokens - 1 /\ tokens - 1 >= RateReserve[Rank[c]]
      BY <1>2 DEF Admit, RateAllows
    <3>. QED
      BY <3>2, <3>3
  <2>2. reserved' \in [Days -> Nat]
    BY <1>2 DEF Admit
  <2>3. faults' \in 0 .. MaxFaults /\ phase' \in [Calls -> Phases]
    BY <1>2, GovernorAssumption DEF Admit, Fault, GovernorAssumption
  <2>4. again' \in SUBSET (Calls \X (0 .. MaxFaults))
    BY <1>2 DEF Admit
  <2>. QED
    BY <1>2, <2>1, <2>2, <2>3, <2>4 DEF Admit
<1>3. ASSUME NEW c \in Calls, Refuse(c) PROVE TypeOK'
  BY <1>3 DEF Refuse, redis, history
<1>4. ASSUME NEW c \in Calls, Throttle(c) PROVE TypeOK'
  <2>1. inflight' \in SUBSET Calls /\ expired' \in SUBSET inflight'
    BY <1>4 DEF Throttle
  <2>2. phase' \in [Calls -> Phases]
    BY <1>4 DEF Throttle
  <2>. QED
    BY <1>4, <2>1, <2>2 DEF Throttle, history
<1>5. ASSUME NEW c \in Calls, MarkSent(c) PROVE TypeOK'
  BY <1>5 DEF MarkSent, redis, history
<1>6. ASSUME NEW c \in Calls, Abort(c) PROVE TypeOK'
  BY <1>6 DEF Abort, redis, history
<1>7. ASSUME NEW c \in Calls, NEW quotaGone \in BOOLEAN, Respond(c, quotaGone) PROVE TypeOK'
  BY <1>7 DEF Respond, redis
<1>8. ASSUME NEW c \in Calls, RunRelease(c) PROVE TypeOK'
  <2>1. phase' \in [Calls -> Phases]
    BY <1>8 DEF RunRelease
  <2>2. CASE c \notin inflight
    BY <1>8, <2>1, <2>2 DEF RunRelease
  <2>3. CASE c \in inflight
    <3>1. Settle(c)
      BY <1>8, <2>3 DEF RunRelease
    <3>2. /\ reserved' \in [Days -> Nat] /\ used' \in [Days -> Nat]
          /\ usedBg' \in [Days -> Nat]
      BY <3>1 DEF Settle
    <3>3. inflight' \in SUBSET Calls /\ expired' \in SUBSET inflight'
      BY <3>1 DEF Settle
    <3>4. counted' \in SUBSET Calls /\ refunded' \in SUBSET Calls
      BY <3>1 DEF Settle
    <3>. QED
      BY <1>8, <2>1, <3>2, <3>3, <3>4 DEF RunRelease
  <2>. QED
    BY <2>2, <2>3
<1>9. ASSUME NEW c \in Calls, MarkExhausted(c) PROVE TypeOK'
  BY <1>9 DEF MarkExhausted, history
<1>10. ASSUME NEW c \in Calls, Crash(c) PROVE TypeOK'
  BY <1>10, GovernorAssumption DEF GovernorAssumption, Crash, Fault, redis, history
<1>11. ASSUME NEW c \in Calls, LoseRelease(c) PROVE TypeOK'
  BY <1>11, GovernorAssumption DEF GovernorAssumption, LoseRelease, Fault, redis, history
<1>12. ASSUME NEW c \in Calls, Outlive(c) PROVE TypeOK'
  BY <1>12, GovernorAssumption DEF GovernorAssumption, Outlive, Fault, history
<1>13. ASSUME NEW c \in Calls, Expire(c) PROVE TypeOK'
  BY <1>13 DEF Expire, history
<1>14. ASSUME Refill PROVE TypeOK'
  BY <1>14, GovernorAssumption DEF GovernorAssumption, Refill, history
<1>15. ASSUME Unlock PROVE TypeOK'
  BY <1>15, GovernorAssumption DEF GovernorAssumption, Unlock, redis, history
<1>16. ASSUME NextDay PROVE TypeOK'
  <2>1. day' \in Days
    BY <1>16, GovernorAssumption DEF GovernorAssumption, NextDay, Days
  <2>2. allowance' \in 0 .. Hard
    BY <1>16, GovernorAssumption DEF GovernorAssumption, NextDay
  <2>. QED
    BY <1>16, <2>1, <2>2 DEF NextDay, redis, history
<1>17. ASSUME NEW c \in Calls, GiveUp(c) PROVE TypeOK'
  BY <1>17 DEF GiveUp, redis, history
<1>18. CASE UNCHANGED vars
  BY <1>18 DEF vars, redis, history
<1>. QED
  BY <1>1, <1>2, <1>3, <1>4, <1>5, <1>6, <1>7, <1>8, <1>9, <1>10, <1>11, <1>12, <1>13,
     <1>14, <1>15, <1>16, <1>17, <1>18 DEF Next, Step

(* Every reachable state of the governor is well typed. *)
THEOREM GovernorTypeOK == Spec => []TypeOK
BY TypeInit, TypeStep, PTL DEF Spec

-----------------------------------------------------------------------------
(* Where a lease can be in its life. *)

LEMMA ThrottlePhase ==
  ASSUME NEW c \in Calls, Throttle(c)
  PROVE  \E o \in {"waiting", "refused", "orphan"} :
           /\ phase' = [phase EXCEPT ![c] = o]
           /\ \/ phase[c] = "waiting" /\ o # "orphan"
              \/ phase[c] = "retrying" /\ o = "orphan"
BY DEF Throttle

LEMMA LifeInit == ASSUME Init PROVE Life
BY GovernorAssumption
   DEF GovernorAssumption, Init, Life, Open, Settled, Admitted, InSlot, Days

LEMMA LifeStep == ASSUME TypeOK, Life, [Next]_vars PROVE Life'
<1>. USE DEF TypeOK, Life, Open, Settled, Admitted, InSlot
<1>1. ASSUME NEW c \in Calls, Begin(c) PROVE Life'
  <2>1. \A b \in Calls : leaseDay'[b] =< day'
    BY <1>1, GovernorAssumption DEF GovernorAssumption, Begin, Days
  <2>. QED
    BY <1>1, <2>1 DEF Begin, redis, history
<1>2. ASSUME NEW c \in Calls, NEW replyLost \in BOOLEAN, Admit(c, replyLost) PROVE Life'
  <2>1. /\ Admitted' = Admitted \union {c} /\ c \notin Settled
        /\ inflight' \subseteq inflight \union {c}
        /\ UNCHANGED <<day, leaseDay, sent, code45, counted, refunded>>
    BY <1>2 DEF Admit
  <2>2. \A u \in again' : u[1] \in Admitted' /\ u[2] =< faults'
    BY <1>2, GovernorAssumption DEF Admit, Fault, GovernorAssumption
  <2>3. \A b \in Calls : phase'[b] = "retrying" => \A u \in again' : u[1] = b => u[2] < faults'
    BY <1>2, GovernorAssumption DEF Admit, Fault, GovernorAssumption
  <2>4. \A b \in Calls : phase'[b] \in {"held", "sent", "retrying"} => b \notin Settled'
    BY <1>2, <2>1 DEF Admit
  <2>. QED
    BY <2>1, <2>2, <2>3, <2>4
<1>3. ASSUME NEW c \in Calls, Refuse(c) PROVE Life'
  BY <1>3 DEF Refuse, redis, history
<1>4. ASSUME NEW c \in Calls, Throttle(c) PROVE Life'
  <2>1. inflight' \subseteq inflight
    BY <1>4 DEF Throttle
  <2>2. UNCHANGED <<day, leaseDay, sent, code45, faults, again, counted, refunded>>
    BY <1>4 DEF Throttle, history
  <2>. QED
    BY <1>4, <2>1, <2>2, ThrottlePhase
<1>5. ASSUME NEW c \in Calls, MarkSent(c) PROVE Life'
  BY <1>5 DEF MarkSent, redis, history
<1>6. ASSUME NEW c \in Calls, Abort(c) PROVE Life'
  BY <1>6 DEF Abort, redis, history
<1>7. ASSUME NEW c \in Calls, NEW quotaGone \in BOOLEAN, Respond(c, quotaGone) PROVE Life'
  BY <1>7 DEF Respond, redis
<1>8. ASSUME NEW c \in Calls, RunRelease(c) PROVE Life'
  <2>1. phase[c] = "releasing" /\ \E o \in {"releasing", "done"} : phase' = [phase EXCEPT ![c] = o]
    BY <1>8 DEF RunRelease
  <2>2. UNCHANGED <<day, leaseDay, sent, code45, faults, again>>
    BY <1>8 DEF RunRelease
  <2>3. CASE c \notin inflight
    <3>1. UNCHANGED <<inflight, counted, refunded>>
      BY <1>8, <2>3 DEF RunRelease
    <3>. QED
      BY <2>1, <2>2, <3>1
  <2>4. CASE c \in inflight
    <3>1. /\ inflight' = inflight \ {c}
          /\ \/ c \in sent /\ counted' = counted \union {c} /\ refunded' = refunded
             \/ c \notin sent /\ refunded' = refunded \union {c} /\ counted' = counted
      BY <1>8, <2>4 DEF RunRelease, Settle
    <3>. QED
      BY <2>1, <2>2, <2>4, <3>1
  <2>. QED
    BY <2>3, <2>4
<1>9. ASSUME NEW c \in Calls, MarkExhausted(c) PROVE Life'
  BY <1>9 DEF MarkExhausted, history
<1>10. ASSUME NEW c \in Calls, Crash(c) PROVE Life'
  BY <1>10, GovernorAssumption DEF GovernorAssumption, Crash, Fault, redis, history
<1>11. ASSUME NEW c \in Calls, LoseRelease(c) PROVE Life'
  BY <1>11, GovernorAssumption DEF GovernorAssumption, LoseRelease, Fault, redis, history
<1>12. ASSUME NEW c \in Calls, Outlive(c) PROVE Life'
  BY <1>12, GovernorAssumption DEF GovernorAssumption, Outlive, Fault, history
<1>13. ASSUME NEW c \in Calls, Expire(c) PROVE Life'
  BY <1>13 DEF Expire, history
<1>14. ASSUME Refill PROVE Life'
  BY <1>14 DEF Refill, history
<1>15. ASSUME Unlock PROVE Life'
  BY <1>15 DEF Unlock, redis, history
<1>16. ASSUME NextDay PROVE Life'
  <2>1. \A b \in Calls : leaseDay'[b] =< day'
    <3>1. leaseDay' = leaseDay /\ day' = day + 1
      BY <1>16 DEF NextDay
    <3>. QED
      BY <3>1, GovernorAssumption DEF GovernorAssumption, Days
  <2>. QED
    BY <1>16, <2>1 DEF NextDay, redis, history
<1>17. ASSUME NEW c \in Calls, GiveUp(c) PROVE Life'
  BY <1>17 DEF GiveUp, redis, history
<1>18. CASE UNCHANGED vars
  BY <1>18 DEF vars, redis, history
<1>. QED
  BY <1>1, <1>2, <1>3, <1>4, <1>5, <1>6, <1>7, <1>8, <1>9, <1>10, <1>11, <1>12, <1>13,
     <1>14, <1>15, <1>16, <1>17, <1>18 DEF Next, Step

-----------------------------------------------------------------------------
(* Only an admission and a release that finds its lease move the counters. *)

Quiet ==
  /\ UNCHANGED <<used, reserved, usedBg, again, counted, refunded>>
  /\ Admitted' = Admitted
  /\ \A c \in Admitted : leaseDay'[c] = leaseDay[c]

LEMMA StepKinds ==
  ASSUME TypeOK, Life, [Next]_vars
  PROVE  \/ Quiet
         \/ \E c \in Calls, replyLost \in BOOLEAN : Admit(c, replyLost)
         \/ \E c \in inflight : RunRelease(c)
<1>. USE DEF TypeOK, Quiet, Admitted, InSlot
<1>1. ASSUME NEW c \in Calls, Begin(c) PROVE Quiet
  BY <1>1 DEF Begin, redis, history
<1>2. ASSUME NEW c \in Calls, Refuse(c) PROVE Quiet
  BY <1>2 DEF Refuse, redis, history
<1>3. ASSUME NEW c \in Calls, Throttle(c) PROVE Quiet
  <2>1. UNCHANGED <<used, reserved, usedBg, again, counted, refunded, leaseDay>>
    BY <1>3 DEF Throttle, history
  <2>. QED
    BY <1>3, <2>1, ThrottlePhase
<1>4. ASSUME NEW c \in Calls, MarkSent(c) PROVE Quiet
  BY <1>4 DEF MarkSent, redis, history
<1>5. ASSUME NEW c \in Calls, Abort(c) PROVE Quiet
  BY <1>5 DEF Abort, redis, history
<1>6. ASSUME NEW c \in Calls, NEW quotaGone \in BOOLEAN, Respond(c, quotaGone) PROVE Quiet
  BY <1>6 DEF Respond, redis
<1>7. ASSUME NEW c \in Calls \ inflight, RunRelease(c) PROVE Quiet
  <2>1. phase[c] = "releasing" /\ \E o \in {"releasing", "done"} : phase' = [phase EXCEPT ![c] = o]
    BY <1>7 DEF RunRelease
  <2>2. UNCHANGED <<used, reserved, usedBg, again, counted, refunded, leaseDay>>
    BY <1>7 DEF RunRelease
  <2>. QED
    BY <2>1, <2>2
<1>8. ASSUME NEW c \in Calls, MarkExhausted(c) PROVE Quiet
  BY <1>8 DEF MarkExhausted, history
<1>9. ASSUME NEW c \in Calls, Crash(c) PROVE Quiet
  BY <1>9 DEF Crash, Life, redis, history
<1>10. ASSUME NEW c \in Calls, LoseRelease(c) PROVE Quiet
  BY <1>10 DEF LoseRelease, redis, history
<1>11. ASSUME NEW c \in Calls, Outlive(c) \/ Expire(c) PROVE Quiet
  BY <1>11 DEF Outlive, Expire, history
<1>12. ASSUME Refill \/ Unlock \/ NextDay PROVE Quiet
  BY <1>12 DEF Refill, Unlock, NextDay, redis, history
<1>13. ASSUME NEW c \in Calls, GiveUp(c) PROVE Quiet
  BY <1>13 DEF GiveUp, redis, history
<1>14. CASE UNCHANGED vars
  BY <1>14 DEF vars, redis, history
<1>. QED
  BY <1>1, <1>2, <1>3, <1>4, <1>5, <1>6, <1>7, <1>8, <1>9, <1>10, <1>11, <1>12, <1>13,
     <1>14 DEF Next, Step

(* An admission reserves for a new call, or once more for a call that holds a
   unit already.                                                           *)
FirstRun(c) == c \notin Admitted /\ Admitted' = Admitted \union {c} /\ again' = again
SecondRun(c) ==
  /\ c \in Admitted /\ Admitted' = Admitted
  /\ again' = again \union {<<c, faults>>} /\ <<c, faults>> \notin again

LEMMA AdmitKinds ==
  ASSUME TypeOK, Life, NEW c \in Calls, NEW replyLost \in BOOLEAN, Admit(c, replyLost)
  PROVE  /\ UNCHANGED <<used, usedBg, counted, refunded, leaseDay, sent, day, allowance>>
         /\ reserved' = [reserved EXCEPT ![leaseDay[c]] = @ + 1]
         /\ c \notin Settled
         /\ FirstRun(c) \/ SecondRun(c)
<1>1. CASE phase[c] = "waiting"
  BY <1>1 DEF FirstRun, Admit, Admitted, InSlot, TypeOK, Life, Settled
<1>2. CASE phase[c] = "retrying"
  <2>1. <<c, faults>> \notin again
    BY <1>2, GovernorAssumption DEF Life, TypeOK, GovernorAssumption
  <2>. QED
    BY <1>2, <2>1 DEF SecondRun, Admit, Admitted, InSlot, TypeOK, Life
<1>. QED
  BY <1>1, <1>2 DEF Admit

-----------------------------------------------------------------------------
(* The counters are the calls. *)

CountedOn(d) == {c \in counted : leaseDay[c] = d}
BgCountedOn(d) == {c \in counted \cap Background : leaseDay[c] = d}
OpenOn(d) == {c \in Open : leaseDay[c] = d}
AgainOn(d) == {u \in again : leaseDay[u[1]] = d}

LEMMA CountersInit == ASSUME Init PROVE CountersExact
<1>1. Cardinality({}) = 0
  BY FS_EmptySet
<1>2. \A d \in Days : /\ CountedOn(d) = {} /\ BgCountedOn(d) = {}
                       /\ OpenOn(d) = {} /\ AgainOn(d) = {}
  BY DEF Init, CountedOn, BgCountedOn, OpenOn, AgainOn, Open, Admitted, InSlot
<1>. QED
  BY <1>1, <1>2 DEF Init, CountersExact, CountedOn, BgCountedOn, OpenOn, AgainOn, Open, Settled

LEMMA CountersStep ==
  ASSUME TypeOK, Life, CountersExact, [Next]_vars
  PROVE  CountersExact'
<1>. DEFINE Exact(d) == /\ used[d] = Cardinality(CountedOn(d))
                        /\ usedBg[d] = Cardinality(BgCountedOn(d))
                        /\ reserved[d] = Cardinality(OpenOn(d)) + Cardinality(AgainOn(d))
<1>1. \A d \in Days : Exact(d)
  BY DEF CountersExact, CountedOn, BgCountedOn, OpenOn, AgainOn, Open, Settled
<1>2. (\A d \in Days : Exact(d)') => CountersExact'
  BY DEF CountersExact, CountedOn, BgCountedOn, OpenOn, AgainOn, Open, Settled
<1>3. \A d \in Days : /\ CountedOn(d) \in SUBSET Calls /\ BgCountedOn(d) \in SUBSET Calls
                       /\ OpenOn(d) \in SUBSET Calls
                       /\ AgainOn(d) \in SUBSET (Calls \X (0 .. MaxFaults))
  BY DEF CountedOn, BgCountedOn, OpenOn, AgainOn, Open, Admitted, TypeOK
<1>4. CASE Quiet
  <2>1. \A d \in Days : /\ CountedOn(d)' = CountedOn(d) /\ BgCountedOn(d)' = BgCountedOn(d)
                         /\ OpenOn(d)' = OpenOn(d) /\ AgainOn(d)' = AgainOn(d)
    BY <1>4 DEF Quiet, CountedOn, BgCountedOn, OpenOn, AgainOn, Open, Settled, Life, Background
  <2>. QED
    BY <1>1, <1>2, <1>4, <2>1 DEF Quiet
<1>5. ASSUME NEW c \in Calls, NEW replyLost \in BOOLEAN, Admit(c, replyLost)
      PROVE  CountersExact'
  <2>0. PICK e \in Days : e = leaseDay[c]
    BY DEF TypeOK
  <2>1. /\ UNCHANGED <<used, usedBg, counted, refunded, leaseDay>>
        /\ reserved' = [reserved EXCEPT ![e] = @ + 1] /\ c \notin Settled
        /\ FirstRun(c) \/ SecondRun(c)
    BY <1>5, <2>0, AdmitKinds
  <2>2. \A d \in Days : CountedOn(d)' = CountedOn(d) /\ BgCountedOn(d)' = BgCountedOn(d)
    BY <2>1 DEF CountedOn, BgCountedOn, Background
  <2>3. \A d \in Days \ {e} : /\ OpenOn(d)' = OpenOn(d) /\ AgainOn(d)' = AgainOn(d)
                                /\ reserved'[d] = reserved[d]
    BY <2>0, <2>1 DEF FirstRun, SecondRun, OpenOn, AgainOn, Open, Settled, TypeOK
  <2>4. reserved'[e] = reserved[e] + 1
    BY <2>1 DEF TypeOK
  <2>5. reserved'[e] = Cardinality(OpenOn(e)') + Cardinality(AgainOn(e)')
    <3>1. /\ Cardinality(OpenOn(e)) \in Nat /\ Cardinality(AgainOn(e)) \in Nat
          /\ reserved[e] = Cardinality(OpenOn(e)) + Cardinality(AgainOn(e))
      BY <1>1, <1>3, CallsFinite, UnitsFinite
    <3>2. CASE FirstRun(c)
      <4>1. OpenOn(e)' = OpenOn(e) \union {c} /\ c \notin OpenOn(e) /\ AgainOn(e)' = AgainOn(e)
        BY <2>0, <2>1, <3>2 DEF FirstRun, OpenOn, AgainOn, Open, Settled
      <4>. QED
        BY <1>3, <2>4, <3>1, <4>1, AddCall
    <3>3. CASE SecondRun(c)
      <4>1. /\ OpenOn(e)' = OpenOn(e)
            /\ AgainOn(e)' = AgainOn(e) \union {<<c, faults>>}
            /\ <<c, faults>> \notin AgainOn(e)
        BY <2>0, <2>1, <3>3 DEF SecondRun, OpenOn, AgainOn, Open, Settled
      <4>. QED
        BY <1>3, <2>4, <3>1, <4>1, AddUnit
    <3>. QED
      BY <2>1, <3>2, <3>3
  <2>6. Exact(e)'
    BY <1>1, <2>1, <2>2, <2>5
  <2>7. \A d \in Days \ {e} : Exact(d)'
    BY <1>1, <2>1, <2>2, <2>3
  <2>. HIDE DEF Exact
  <2>. QED
    BY <1>2, <2>6, <2>7
<1>6. ASSUME NEW c \in inflight, RunRelease(c) PROVE CountersExact'
  <2>0. PICK e \in Days : e = leaseDay[c]
    BY <1>6 DEF TypeOK
  <2>1. /\ Settle(c) /\ UNCHANGED <<leaseDay, again>> /\ Admitted' = Admitted
        /\ c \in Open /\ c \in Calls
    BY <1>6 DEF RunRelease, Admitted, InSlot, TypeOK, Life
  <2>2. OpenOn(e)' = OpenOn(e) \ {c} /\ c \in OpenOn(e)
    BY <2>0, <2>1 DEF Settle, OpenOn, Open, Settled
  <2>3. \A d \in Days \ {e} : /\ OpenOn(d)' = OpenOn(d) /\ CountedOn(d)' = CountedOn(d)
                                /\ BgCountedOn(d)' = BgCountedOn(d)
                                /\ AgainOn(d)' = AgainOn(d)
    BY <2>0, <2>1 DEF Settle, OpenOn, AgainOn, Open, Settled, CountedOn, BgCountedOn, Background
  <2>4. \A d \in Days \ {e} : /\ used'[d] = used[d] /\ usedBg'[d] = usedBg[d]
                                /\ reserved'[d] = reserved[d]
    BY <2>0, <2>1 DEF Settle, TypeOK
  <2>5. reserved'[e] = Cardinality(OpenOn(e)') + Cardinality(AgainOn(e)')
    <3>1. Cardinality(OpenOn(e)) >= 1 /\ Cardinality(OpenOn(e)') = Cardinality(OpenOn(e)) - 1
      BY <1>3, <2>2, RemoveCall
    <3>2. /\ reserved[e] = Cardinality(OpenOn(e)) + Cardinality(AgainOn(e))
          /\ Cardinality(AgainOn(e)) \in Nat /\ Cardinality(OpenOn(e)) \in Nat
      BY <1>1, <1>3, CallsFinite, UnitsFinite
    <3>3. reserved'[e] = IF reserved[e] > 0 THEN reserved[e] - 1 ELSE 0
      BY <2>0, <2>1 DEF Settle, TypeOK
    <3>4. AgainOn(e)' = AgainOn(e)
      BY <2>1 DEF AgainOn
    <3>. QED
      BY <3>1, <3>2, <3>3, <3>4
  <2>6. used'[e] = Cardinality(CountedOn(e)') /\ usedBg'[e] = Cardinality(BgCountedOn(e)')
    <3>1. CASE c \in sent
      <4>1. /\ CountedOn(e)' = CountedOn(e) \union {c} /\ c \notin CountedOn(e)
            /\ used'[e] = used[e] + 1
        BY <2>0, <2>1, <3>1 DEF Settle, CountedOn, Open, Settled, TypeOK
      <4>2. used'[e] = Cardinality(CountedOn(e)')
        BY <1>1, <1>3, <2>1, <4>1, AddCall
      <4>3. CASE c \in Background
        <5>1. /\ BgCountedOn(e)' = BgCountedOn(e) \union {c} /\ c \notin BgCountedOn(e)
              /\ usedBg'[e] = usedBg[e] + 1
          BY <2>0, <2>1, <3>1, <4>3 DEF Settle, BgCountedOn, Background, Open, Settled, TypeOK
        <5>. QED
          BY <1>1, <1>3, <2>1, <4>2, <5>1, AddCall
      <4>4. CASE c \notin Background
        <5>1. BgCountedOn(e)' = BgCountedOn(e) /\ usedBg'[e] = usedBg[e]
          BY <2>0, <2>1, <3>1, <4>4 DEF Settle, BgCountedOn, Background, TypeOK
        <5>. QED
          BY <1>1, <2>1, <4>2, <5>1
      <4>. QED
        BY <4>3, <4>4
    <3>2. CASE c \notin sent
      <4>1. /\ CountedOn(e)' = CountedOn(e) /\ BgCountedOn(e)' = BgCountedOn(e)
            /\ UNCHANGED <<used, usedBg>>
        BY <2>0, <2>1, <3>2 DEF Settle, CountedOn, BgCountedOn, Background
      <4>. QED
        BY <1>1, <2>1, <4>1
    <3>. QED
      BY <3>1, <3>2
  <2>7. Exact(e)'
    BY <2>5, <2>6
  <2>8. \A d \in Days \ {e} : Exact(d)'
    BY <1>1, <2>3, <2>4
  <2>. HIDE DEF Exact
  <2>. QED
    BY <1>2, <2>7, <2>8
<1>. QED
  BY <1>4, <1>5, <1>6, StepKinds

CountersInv == TypeOK /\ Life /\ CountersExact

LEMMA CountersInvariant == Spec => []CountersInv
<1>1. Init => CountersInv
  BY TypeInit, LifeInit, CountersInit DEF CountersInv
<1>2. CountersInv /\ [Next]_vars => CountersInv'
  BY TypeStep, LifeStep, CountersStep DEF CountersInv
<1>. QED
  BY <1>1, <1>2, PTL DEF Spec

(* The Redis counters of a day are exact in every reachable state: no retry of
   a release counts a call twice, no lost one gives a unit back.           *)
THEOREM GovernorCounters == Spec => []CountersExact
<1>1. CountersInv => CountersExact
  BY DEF CountersInv
<1>. QED
  BY <1>1, CountersInvariant, PTL

-----------------------------------------------------------------------------
(* A day has committed at least what the ledger holds of it, so that a first
   admission is a reservation of the ledger, a repeated one a stutter, and a
   release that was not sent a refund.                                     *)

LEMMA HeldIsCommitted ==
  ASSUME CountersInv, NEW d \in Days
  PROVE  /\ HeldOn(d) \in SUBSET Calls /\ Cardinality(HeldOn(d)) \in Nat
         /\ Committed(d) \in Nat /\ Cardinality(HeldOn(d)) =< Committed(d)
<1>1. HeldOn(d) = CountedOn(d) \union OpenOn(d) /\ CountedOn(d) \cap OpenOn(d) = {}
  BY DEF CountersInv, Life, HeldOn, CountedOn, OpenOn, Open, Settled
<1>2. /\ CountedOn(d) \in SUBSET Calls /\ OpenOn(d) \in SUBSET Calls
      /\ AgainOn(d) \in SUBSET (Calls \X (0 .. MaxFaults))
  BY DEF CountersInv, TypeOK, CountedOn, OpenOn, AgainOn, Open, Admitted
<1>3. /\ used[d] = Cardinality(CountedOn(d))
      /\ reserved[d] = Cardinality(OpenOn(d)) + Cardinality(AgainOn(d))
  BY DEF CountersInv, CountersExact, CountedOn, OpenOn, AgainOn, Open, Settled
<1>4. /\ Cardinality(CountedOn(d)) \in Nat /\ Cardinality(OpenOn(d)) \in Nat
      /\ Cardinality(AgainOn(d)) \in Nat
  BY <1>2, CallsFinite, UnitsFinite
<1>5. Cardinality(HeldOn(d)) = Cardinality(CountedOn(d)) + Cardinality(OpenOn(d))
  BY <1>1, <1>2, UnionOfCalls
<1>. QED
  BY <1>1, <1>2, <1>3, <1>4, <1>5 DEF Committed

LEMMA CeilingType == \A c \in Calls : Ceiling(c) \in 0 .. Daily
BY GovernorAssumption DEF GovernorAssumption, Ceiling

LEMMA LedgerInitially == ASSUME Init PROVE Ledger!Init
BY GovernorAssumption
   DEF Init, Ledger!Init, HeldByDay, HeldOn, Admitted, InSlot

LEMMA LedgerStep ==
  ASSUME CountersInv, [Next]_vars
  PROVE  [Ledger!Next]_(Ledger!vars)
<1>. USE DEF CountersInv
<1>1. ASSUME NEW c \in Calls, NEW replyLost \in BOOLEAN, Admit(c, replyLost)
      PROVE  (\E d \in Days : Ledger!Reserve(c, d)) \/ UNCHANGED Ledger!vars
  <2>0. PICK e \in Days : e = leaseDay[c]
    BY <1>1 DEF TypeOK
  <2>1. UNCHANGED <<leaseDay, sent, refunded>> /\ (FirstRun(c) \/ SecondRun(c))
    BY <1>1, AdmitKinds
  <2>2. CASE FirstRun(c)
    <3>1. c \notin sent /\ c \notin refunded /\ \A d \in Days : c \notin HeldByDay[d]
      BY <2>2 DEF FirstRun, Life, HeldByDay, HeldOn
    <3>2. Committed(e) + 1 =< Ceiling(c)
      BY <1>1, <2>0 DEF Admit, BudgetAllows, QuotaAllows
    <3>3. Cardinality(HeldByDay[e]) + 1 =< CeilingOf[c]
      BY <3>2, HeldIsCommitted, CeilingType DEF HeldByDay, CeilingOf
    <3>4. HeldByDay' = [HeldByDay EXCEPT ![e] = @ \union {c}]
      BY <2>0, <2>1, <2>2, <3>1 DEF FirstRun, HeldByDay, HeldOn
    <3>5. Ledger!Reserve(c, e)
      BY <2>1, <3>1, <3>3, <3>4 DEF Ledger!Reserve, Ledger!Cardinality, Cardinality
    <3>. QED
      BY <3>5
  <2>3. CASE SecondRun(c)
    BY <2>1, <2>3 DEF SecondRun, HeldByDay, HeldOn, Ledger!vars
  <2>. QED
    BY <2>1, <2>2, <2>3
<1>2. ASSUME NEW c \in inflight, RunRelease(c)
      PROVE  (\E d \in Days : Ledger!Refund(c, d)) \/ UNCHANGED Ledger!vars
  <2>0. PICK e \in Days : e = leaseDay[c]
    BY <1>2 DEF TypeOK
  <2>1. /\ Settle(c) /\ Admitted' = Admitted /\ UNCHANGED <<leaseDay, sent>>
        /\ c \in Admitted /\ c \notin refunded
    BY <1>2 DEF RunRelease, Admitted, InSlot, TypeOK, Life, Open, Settled
  <2>2. CASE c \in sent
    <3>1. HeldByDay' = HeldByDay
      BY <2>1, <2>2 DEF Settle, HeldByDay, HeldOn
    <3>. QED
      BY <2>1, <3>1 DEF Ledger!vars
  <2>3. CASE c \notin sent
    <3>1. refunded' = refunded \union {c}
      BY <2>1, <2>3 DEF Settle
    <3>2. c \in HeldByDay[e]
      BY <2>0, <2>1 DEF HeldByDay, HeldOn
    <3>3. HeldByDay' = [HeldByDay EXCEPT ![e] = @ \ {c}]
      BY <2>0, <2>1, <3>1 DEF HeldByDay, HeldOn
    <3>4. Ledger!Refund(c, e)
      BY <2>1, <2>3, <3>2, <3>3 DEF Ledger!Refund
    <3>. QED
      BY <3>4
  <2>. QED
    BY <2>2, <2>3
<1>3. CASE Quiet
  <2>1. HeldByDay' = HeldByDay
    BY <1>3 DEF Quiet, HeldByDay, HeldOn
  <2>2. CASE sent' = sent
    BY <2>1, <2>2 DEF Ledger!vars
  <2>3. ASSUME NEW c \in Calls, MarkSent(c) PROVE Ledger!Spend(c)
    <3>1. c \in HeldByDay[leaseDay[c]] /\ leaseDay[c] \in Days
      BY <2>3 DEF MarkSent, HeldByDay, HeldOn, Admitted, InSlot, TypeOK, Life, Settled
    <3>. QED
      BY <2>1, <2>3, <3>1 DEF MarkSent, Ledger!Spend
  <2>4. sent' = sent \/ \E c \in Calls : MarkSent(c)
    BY DEF Next, Step, Begin, Admit, Refuse, Throttle, GiveUp, Abort, Respond, RunRelease,
           MarkExhausted, Crash, LoseRelease, Outlive, Expire, Refill, Unlock, NextDay, vars
  <2>. QED
    BY <2>2, <2>3, <2>4 DEF Ledger!Next
<1>4. inflight \subseteq Calls
  BY DEF TypeOK
<1>. QED
  BY <1>1, <1>2, <1>3, <1>4, StepKinds DEF Ledger!Next

(* The governor implements the ledger. *)
THEOREM GovernorRefines == Spec => LedgerSpec
<1>1. Init => Ledger!Init
  BY LedgerInitially
<1>2. CountersInv /\ [Next]_vars => [Ledger!Next]_(Ledger!vars)
  BY LedgerStep
<1>. QED
  BY <1>1, <1>2, CountersInvariant, PTL DEF Spec, LedgerSpec, Ledger!Spec

(* The ledger of a governor satisfies what QuotaLedgerProofs assumes. *)
LedgerPrf == INSTANCE QuotaLedgerProofs
               WITH held <- HeldByDay, spent <- sent, LimitOf <- CeilingOf

LEMMA SameLedger ==
  /\ Ledger!Init <=> LedgerPrf!Init
  /\ [Ledger!Next]_(Ledger!vars) <=> [LedgerPrf!Next]_(LedgerPrf!vars)
BY DEF Ledger!Init, Ledger!Next, Ledger!vars, Ledger!Reserve, Ledger!Spend, Ledger!Refund,
       LedgerPrf!Init, LedgerPrf!Next, LedgerPrf!vars, LedgerPrf!Reserve, LedgerPrf!Spend,
       LedgerPrf!Refund, Ledger!Cardinality, LedgerPrf!Cardinality

LEMMA HeldWithinCeilings == Spec => [](LedgerPrf!ClassCeilings /\ LedgerPrf!SpentIsHeld)
<1>1. LedgerPrf!LedgerAssumption
  BY GovernorAssumption, CeilingType
     DEF GovernorAssumption, LedgerPrf!LedgerAssumption, CeilingOf,
         LedgerPrf!IsFiniteSet, IsFiniteSet
<1>2. LedgerPrf!Spec => [](LedgerPrf!ClassCeilings /\ LedgerPrf!SpentIsHeld)
  BY <1>1, LedgerPrf!LedgerSafe
<1>3. Ledger!Spec => LedgerPrf!Spec
  BY SameLedger, PTL DEF Ledger!Spec, LedgerPrf!Spec
<1>. QED
  BY <1>2, <1>3, GovernorRefines, PTL DEF LedgerSpec

LEMMA SentIsHeldOnItsDay ==
  ASSUME CountersInv, NEW d \in Days
  PROVE  SentOn(d) \subseteq HeldOn(d)
BY DEF CountersInv, Life, SentOn, HeldOn

(* The contract limit of a day is never exceeded on the wire, and the reserve
   above Hard stays interactive.                                           *)
THEOREM GovernorCeiling == Spec => []CeilingHolds
<1>1. ASSUME CountersInv, LedgerPrf!ClassCeilings, NEW d \in Days
      PROVE  /\ Cardinality(SentOn(d)) =< Daily
             /\ Cardinality({c \in SentOn(d) : Rank[c] # 0}) =< Hard
  <2>1. HeldOn(d) \in SUBSET Calls
    BY <1>1, HeldIsCommitted
  <2>2. Daily \in 0 .. Daily /\ Hard \in 0 .. Daily
    BY GovernorAssumption DEF GovernorAssumption
  <2>3. \A k \in 0 .. Daily : Cardinality({c \in HeldOn(d) : CeilingOf[c] =< k}) =< k
    BY <1>1 DEF LedgerPrf!ClassCeilings, LedgerPrf!OfClass, HeldByDay,
               LedgerPrf!Cardinality, Cardinality
  <2>4. Cardinality(SentOn(d)) =< Daily
    <3>1. SentOn(d) \subseteq {c \in HeldOn(d) : CeilingOf[c] =< Daily}
      BY <1>1, <2>1, SentIsHeldOnItsDay, CeilingType DEF CeilingOf
    <3>2. Cardinality(SentOn(d)) =< Cardinality({c \in HeldOn(d) : CeilingOf[c] =< Daily})
      BY <2>1, <3>1, FewerCalls
    <3>3. /\ Cardinality(SentOn(d)) \in Nat
          /\ Cardinality({c \in HeldOn(d) : CeilingOf[c] =< Daily}) \in Nat
      BY <2>1, <3>1, CallsFinite
    <3>4. Cardinality({c \in HeldOn(d) : CeilingOf[c] =< Daily}) =< Daily
      BY <2>2, <2>3
    <3>. QED
      BY <2>2, <3>2, <3>3, <3>4
  <2>5. Cardinality({c \in SentOn(d) : Rank[c] # 0}) =< Hard
    <3>. DEFINE S == {c \in SentOn(d) : Rank[c] # 0}
                T == {c \in HeldOn(d) : CeilingOf[c] =< Hard}
    <3>1. \A c \in Calls : Rank[c] # 0 => CeilingOf[c] = Hard
      BY DEF CeilingOf, Ceiling
    <3>2. S \subseteq T
      BY <1>1, <2>1, <2>2, <3>1, SentIsHeldOnItsDay
    <3>3. Cardinality(S) =< Cardinality(T)
      BY <2>1, <3>2, FewerCalls
    <3>4. Cardinality(S) \in Nat /\ Cardinality(T) \in Nat
      BY <2>1, <3>2, CallsFinite
    <3>5. Cardinality(T) =< Hard
      BY <2>2, <2>3
    <3>. QED
      BY <2>2, <3>3, <3>4, <3>5
  <2>. QED
    BY <2>4, <2>5
<1>2. CountersInv /\ LedgerPrf!ClassCeilings => CeilingHolds
  BY <1>1 DEF CeilingHolds
<1>. QED
  BY <1>2, CountersInvariant, HeldWithinCeilings, PTL

-----------------------------------------------------------------------------
(* One fault, one stray reservation: a call that settles in time returns or
   spends what it reserved.                                                *)

LEMMA StraysInit == ASSUME Init PROVE StraysBounded /\ SlotsBounded
<1>1. Strays = {} /\ again = {} /\ inflight \ expired = {} /\ faults = 0
  BY DEF Init, Strays, Open, Admitted, InSlot
<1>2. Cardinality({}) = 0
  BY FS_EmptySet
<1>3. StraysBounded
  BY <1>1, <1>2 DEF StraysBounded
<1>4. SlotsBounded
  BY <1>1, <1>2, GovernorAssumption DEF SlotsBounded, GovernorAssumption
<1>. QED
  BY <1>3, <1>4

LEMMA StraysAre ==
  ASSUME CountersInv
  PROVE  /\ Strays \in SUBSET Calls /\ Cardinality(Strays) \in Nat
         /\ again \in SUBSET (Calls \X (0 .. MaxFaults)) /\ Cardinality(again) \in Nat
         /\ faults \in Nat
<1>1. Strays \in SUBSET Calls
  BY DEF Strays, Open, Admitted
<1>2. again \in SUBSET (Calls \X (0 .. MaxFaults)) /\ faults \in Nat
  BY GovernorAssumption DEF CountersInv, TypeOK, GovernorAssumption
<1>. QED
  BY <1>1, <1>2, CallsFinite, UnitsFinite

(* A step that makes one call at most a stray pays for it with a fault. *)
LEMMA StraysPaid ==
  ASSUME CountersInv, CountersInv', StraysBounded, again' = again,
         \/ Strays' \subseteq Strays /\ faults' = faults
         \/ \E c \in Calls : Strays' \subseteq Strays \union {c} /\ faults' = faults + 1
  PROVE  StraysBounded'
<1>1. /\ Strays \in SUBSET Calls /\ Cardinality(Strays) \in Nat
      /\ Cardinality(again) \in Nat /\ faults \in Nat
  BY StraysAre
<1>2. Strays' \in SUBSET Calls /\ Cardinality(Strays') \in Nat
  <2>1. Strays' \in SUBSET Calls
    BY DEF Strays, Open, Admitted
  <2>. QED
    BY <2>1, CallsFinite
<1>3. CASE Strays' \subseteq Strays /\ faults' = faults
  <2>1. Cardinality(Strays') =< Cardinality(Strays)
    BY <1>1, <1>3, FewerCalls
  <2>. QED
    BY <1>1, <1>2, <1>3, <2>1 DEF StraysBounded
<1>4. ASSUME NEW c \in Calls, Strays' \subseteq Strays \union {c}, faults' = faults + 1
      PROVE  StraysBounded'
  <2>1. Cardinality(Strays') =< Cardinality(Strays \union {c})
    BY <1>1, <1>4, FewerCalls
  <2>2. /\ Cardinality(Strays \union {c}) =< Cardinality(Strays) + Cardinality({c})
        /\ Cardinality({c}) = 1
    BY <1>1, UnionOfCalls, FS_Singleton
  <2>3. Cardinality(Strays \union {c}) \in Nat
    BY <1>1, CallsFinite
  <2>. QED
    BY <1>1, <1>2, <1>4, <2>1, <2>2, <2>3 DEF StraysBounded
<1>. QED
  BY <1>3, <1>4

(* Only admission makes a call reserve again; every other step keeps the strays
   or pays for a new one.                                                  *)
LEMMA StraysKept ==
  ASSUME CountersInv, [Next]_vars
  PROVE  \/ \E c \in Calls, replyLost \in BOOLEAN : Admit(c, replyLost)
         \/ /\ again' = again
            /\ \/ Strays' \subseteq Strays /\ faults' = faults
               \/ \E c \in Calls : Strays' \subseteq Strays \union {c} /\ faults' = faults + 1
<1>. USE DEF CountersInv, TypeOK, Strays, Open, Settled, Admitted, InSlot
<1>. DEFINE Kept == again' = again /\ Strays' \subseteq Strays /\ faults' = faults
<1>1. ASSUME NEW c \in Calls, Crash(c) \/ LoseRelease(c) \/ Outlive(c)
      PROVE  again' = again /\ Strays' \subseteq Strays \union {c} /\ faults' = faults + 1
  BY <1>1 DEF Crash, LoseRelease, Outlive, Fault, redis, history
<1>2. ASSUME NEW c \in Calls, Begin(c) \/ Refuse(c) \/ GiveUp(c) \/ MarkSent(c) \/ Abort(c)
      PROVE  Kept
  BY <1>2 DEF Begin, Refuse, GiveUp, MarkSent, Abort, redis, history
<1>3. ASSUME NEW c \in Calls, Throttle(c) PROVE Kept
  <2>1. /\ UNCHANGED <<again, counted, refunded, faults>>
        /\ inflight' \ expired' = inflight \ expired
    BY <1>3 DEF Throttle, history
  <2>. QED
    BY <1>3, <2>1, ThrottlePhase
<1>4. ASSUME NEW c \in Calls, RunRelease(c) PROVE Kept
  <2>1. phase[c] = "releasing" /\ \E o \in {"releasing", "done"} : phase' = [phase EXCEPT ![c] = o]
    BY <1>4 DEF RunRelease
  <2>2. CASE c \in inflight
    <3>1. /\ inflight' = inflight \ {c} /\ expired' = expired \ {c}
          /\ counted' \union refunded' = counted \union refunded \union {c}
          /\ UNCHANGED <<again, faults>>
      BY <1>4, <2>2 DEF RunRelease, Settle
    <3>. QED
      BY <2>1, <2>2, <3>1
  <2>3. CASE c \notin inflight
    <3>1. UNCHANGED <<inflight, expired, again, counted, refunded, faults>>
      BY <1>4, <2>3 DEF RunRelease
    <3>. QED
      BY <2>1, <2>3, <3>1
  <2>. QED
    BY <2>2, <2>3
<1>5. ASSUME NEW c \in Calls, NEW quotaGone \in BOOLEAN, Respond(c, quotaGone) \/ MarkExhausted(c)
      PROVE  Kept
  BY <1>5 DEF Respond, MarkExhausted, redis, history
<1>6. ASSUME NEW c \in Calls, Expire(c) PROVE Kept
  BY <1>6 DEF Expire, Life, history
<1>7. ASSUME Refill \/ Unlock \/ NextDay PROVE Kept
  BY <1>7 DEF Refill, Unlock, NextDay, redis, history
<1>8. CASE UNCHANGED vars
  BY <1>8 DEF vars, redis, history
<1>. HIDE DEF CountersInv, TypeOK, Strays, Open, Settled, Admitted, InSlot
<1>. QED
  BY <1>1, <1>2, <1>3, <1>4, <1>5, <1>6, <1>7, <1>8 DEF Next, Step

LEMMA StraysStep ==
  ASSUME CountersInv, CountersInv', StraysBounded, [Next]_vars
  PROVE  StraysBounded'
<1>1. ASSUME NEW c \in Calls, NEW replyLost \in BOOLEAN, Admit(c, replyLost)
      PROVE  StraysBounded'
  <2>. USE <1>1 DEF CountersInv
  <2>1. /\ UNCHANGED <<counted, refunded>>
        /\ inflight' = (inflight \ expired) \union {c} /\ expired' = {}
        /\ \/ ~replyLost /\ faults' = faults /\ phase' = [phase EXCEPT ![c] = "held"]
           \/ replyLost /\ faults' = faults + 1 /\ phase' = [phase EXCEPT ![c] = "retrying"]
    BY DEF Admit, Fault
  <2>2. c \notin Settled
    BY AdmitKinds
  <2>. HIDE <1>1
  <2>3. CASE FirstRun(c)
    <3>1. again' = again
      BY <2>3 DEF FirstRun
    <3>2. ~replyLost => Strays' \subseteq Strays
      BY <2>1, <2>3 DEF FirstRun, Strays, Open, Settled, Admitted, InSlot, TypeOK
    <3>3. replyLost => Strays' \subseteq Strays \union {c}
      BY <2>1, <2>3 DEF FirstRun, Strays, Open, Settled, Admitted, InSlot, TypeOK
    <3>. QED
      BY <2>1, <3>1, <3>2, <3>3, StraysPaid
  <2>4. CASE SecondRun(c)
    <3>0. Strays' \in SUBSET Calls
      BY DEF Strays, Open, Admitted
    <3>1. /\ Strays \in SUBSET Calls /\ Cardinality(Strays) \in Nat
          /\ Cardinality(Strays') \in Nat
          /\ again \in SUBSET (Calls \X (0 .. MaxFaults)) /\ Cardinality(again) \in Nat
          /\ faults \in Nat
      BY <3>0, StraysAre, CallsFinite
    <3>2. Cardinality(again') = Cardinality(again) + 1
      BY <2>4, <3>1, AddUnit DEF SecondRun
    <3>3. c \in Strays
      BY <1>1, <2>2, <2>4 DEF SecondRun, Admit, Strays, Open, Settled, Admitted, InSlot
    <3>4. CASE replyLost
      <4>1. Strays' \subseteq Strays
        BY <2>1, <2>4, <3>3, <3>4 DEF SecondRun, Strays, Open, Settled, Admitted, InSlot, TypeOK
      <4>2. Cardinality(Strays') =< Cardinality(Strays)
        BY <3>1, <4>1, FewerCalls
      <4>. QED
        BY <2>1, <3>1, <3>2, <3>4, <4>2 DEF StraysBounded
    <3>5. CASE ~replyLost
      <4>1. Strays' \subseteq Strays \ {c}
        BY <2>1, <2>4, <3>5 DEF SecondRun, Strays, Open, Settled, Admitted, InSlot, TypeOK
      <4>2. Strays \ {c} \in SUBSET Calls /\ Cardinality(Strays \ {c}) \in Nat
        BY <3>1, CallsFinite
      <4>3. /\ Cardinality(Strays') =< Cardinality(Strays \ {c})
            /\ Cardinality(Strays \ {c}) = Cardinality(Strays) - 1
        BY <3>1, <3>3, <4>1, <4>2, FewerCalls, RemoveCall
      <4>. QED
        BY <2>1, <3>1, <3>2, <3>5, <4>2, <4>3 DEF StraysBounded
    <3>. QED
      BY <3>4, <3>5
  <2>. QED
    BY <1>1, <2>3, <2>4, AdmitKinds
<1>. QED
  BY <1>1, StraysKept, StraysPaid

LEMMA SlotsStep ==
  ASSUME CountersInv, SlotsBounded, [Next]_vars
  PROVE  SlotsBounded'
<1>. DEFINE Live == inflight \ expired
<1>1. Live \in SUBSET Calls /\ ConcLimit \in Nat
  BY GovernorAssumption DEF CountersInv, TypeOK, GovernorAssumption
<1>2. ASSUME Live' \subseteq Live PROVE SlotsBounded'
  <2>1. Cardinality(Live') =< Cardinality(Live)
    BY <1>1, <1>2, FewerCalls
  <2>2. Live' \in SUBSET Calls
    BY <1>1, <1>2
  <2>3. Cardinality(Live') \in Nat /\ Cardinality(Live) \in Nat
    BY <1>1, <2>2, CallsFinite
  <2>. QED
    BY <1>1, <2>1, <2>3 DEF SlotsBounded
<1>3. ASSUME NEW c \in Calls, NEW replyLost \in BOOLEAN, Admit(c, replyLost)
      PROVE  SlotsBounded'
  <2>1. Live' = Live \union {c} /\ Cardinality(Live) < ConcLimit
    BY <1>3 DEF Admit, SlotFree
  <2>2. CASE c \in Live
    BY <1>2, <2>1, <2>2
  <2>3. CASE c \notin Live
    <3>1. Cardinality(Live') = Cardinality(Live) + 1 /\ Cardinality(Live) \in Nat
      BY <1>1, <2>1, <2>3, AddCall, CallsFinite
    <3>. QED
      BY <1>1, <2>1, <3>1 DEF SlotsBounded
  <2>. QED
    BY <2>2, <2>3
<1>4. ASSUME NEW c \in Calls, RunRelease(c) PROVE Live' \subseteq Live
  BY <1>4 DEF RunRelease, Settle
<1>5. ASSUME NEW c \in Calls, Throttle(c) PROVE Live' \subseteq Live
  BY <1>5 DEF Throttle
<1>6. ASSUME NEW c \in Calls, Outlive(c) \/ Expire(c) PROVE Live' \subseteq Live
  BY <1>6 DEF Outlive, Expire
<1>7. ASSUME NEW c \in Calls, NEW quotaGone \in BOOLEAN,
             \/ Begin(c) \/ Refuse(c) \/ GiveUp(c) \/ MarkSent(c) \/ Abort(c) \/ Respond(c, quotaGone)
             \/ MarkExhausted(c) \/ Crash(c) \/ LoseRelease(c)
      PROVE  Live' \subseteq Live
  BY <1>7 DEF Begin, Refuse, GiveUp, MarkSent, Abort, Respond, MarkExhausted, Crash, LoseRelease, redis
<1>8. ASSUME Refill \/ Unlock \/ NextDay PROVE Live' \subseteq Live
  BY <1>8 DEF Refill, Unlock, NextDay, redis
<1>9. CASE UNCHANGED vars
  BY <1>2, <1>9 DEF vars, redis
<1>. HIDE DEF Live
<1>. QED
  BY <1>2, <1>3, <1>4, <1>5, <1>6, <1>7, <1>8, <1>9 DEF Next, Step

FaultsInv == CountersInv /\ StraysBounded /\ SlotsBounded

LEMMA FaultsInvariant == Spec => []FaultsInv
<1>1. Init => StraysBounded /\ SlotsBounded
  BY StraysInit
<1>2. CountersInv /\ CountersInv' /\ StraysBounded /\ SlotsBounded /\ [Next]_vars
        => StraysBounded' /\ SlotsBounded'
  BY StraysStep, SlotsStep
<1>. QED
  BY <1>1, <1>2, CountersInvariant, PTL DEF Spec, FaultsInv

LEMMA StraysFew ==
  ASSUME FaultsInv
  PROVE  Cardinality(Strays) =< faults /\ faults \in Nat
BY StraysAre DEF FaultsInv, StraysBounded

(* At most one reservation of any day outlives its call per fault. *)
THEOREM GovernorLeaks == Spec => []LeakBounded
<1>1. ASSUME FaultsInv, NEW d \in Days
      PROVE  reserved[d] =< Cardinality(InSlotOn(d)) + faults
  <2>1. OpenOn(d) \subseteq InSlotOn(d) \union Strays
    BY DEF OpenOn, InSlotOn, Strays, Open, Admitted
  <2>2. /\ InSlotOn(d) \in SUBSET Calls /\ Strays \in SUBSET Calls
        /\ OpenOn(d) \in SUBSET Calls
    BY DEF OpenOn, InSlotOn, Strays, Open, Admitted
  <2>3. Cardinality(OpenOn(d)) =< Cardinality(InSlotOn(d) \union Strays)
    BY <2>1, <2>2, FewerCalls
  <2>4. Cardinality(InSlotOn(d) \union Strays) =< Cardinality(InSlotOn(d)) + Cardinality(Strays)
    BY <2>2, UnionOfCalls
  <2>5. /\ Cardinality(OpenOn(d)) \in Nat /\ Cardinality(InSlotOn(d)) \in Nat
        /\ Cardinality(Strays) \in Nat /\ Cardinality(InSlotOn(d) \union Strays) \in Nat
    BY <2>2, CallsFinite
  <2>6. reserved[d] = Cardinality(OpenOn(d)) + Cardinality(AgainOn(d))
    BY <1>1 DEF FaultsInv, CountersInv, CountersExact, OpenOn, AgainOn, Open, Settled
  <2>7. Cardinality(AgainOn(d)) \in Nat /\ Cardinality(AgainOn(d)) =< Cardinality(again)
    BY <1>1, StraysAre, UnitsFinite, FS_Subset DEF FaultsInv, AgainOn
  <2>8. /\ Cardinality(Strays) + Cardinality(again) =< faults
        /\ Cardinality(again) \in Nat /\ faults \in Nat
    BY <1>1, StraysAre DEF FaultsInv, StraysBounded
  <2>. QED
    BY <2>3, <2>4, <2>5, <2>6, <2>7, <2>8
<1>2. FaultsInv => LeakBounded
  BY <1>1 DEF LeakBounded
<1>. QED
  BY <1>2, FaultsInvariant, PTL

(* The fleet has at most concurrency_limit calls on the wire, and one more for
   every lease that expired under a call still running.                    *)
THEOREM GovernorWire == Spec => []WireBound
<1>1. ASSUME FaultsInv PROVE WireBound
  <2>. DEFINE Wire == {c \in Calls : phase[c] \in {"held", "sent"}}
              Live == inflight \ expired
  <2>1. Wire \subseteq Live \union Strays
    BY <1>1 DEF FaultsInv, CountersInv, Life, Strays, Open, Admitted, InSlot
  <2>2. Wire \in SUBSET Calls /\ Live \in SUBSET Calls /\ Strays \in SUBSET Calls
    BY <1>1 DEF FaultsInv, CountersInv, TypeOK, Strays, Open, Admitted
  <2>3. Cardinality(Wire) =< Cardinality(Live \union Strays)
    BY <2>1, <2>2, FewerCalls
  <2>4. Cardinality(Live \union Strays) =< Cardinality(Live) + Cardinality(Strays)
    BY <2>2, UnionOfCalls
  <2>5. /\ Cardinality(Wire) \in Nat /\ Cardinality(Live) \in Nat
        /\ Cardinality(Strays) \in Nat /\ Cardinality(Live \union Strays) \in Nat
    BY <2>2, CallsFinite
  <2>6. /\ Cardinality(Live) =< ConcLimit /\ Cardinality(Strays) =< faults
        /\ faults \in Nat /\ ConcLimit \in Nat
    BY <1>1, StraysFew, GovernorAssumption DEF FaultsInv, SlotsBounded, GovernorAssumption
  <2>. QED
    BY <2>3, <2>4, <2>5, <2>6 DEF WireBound
<1>. QED
  BY <1>1, FaultsInvariant, PTL

-----------------------------------------------------------------------------
(* Pacing: only settled background calls are compared with the allowance, so
   the open ones are what the curve can be overshot by.                    *)

Paced == \A d \in Days : PacedOn(d)

LEMMA PacedInit == ASSUME Init PROVE Paced
<1>1. \A d \in Days : BgOn(d) = {}
  BY DEF Init, BgOn, HeldOn, Admitted, InSlot
<1>2. /\ \A d \in Days : Unlocked(d) \in Nat
      /\ faults = 0 /\ ConcLimit - 1 \in Nat
  BY GovernorAssumption DEF Init, Unlocked, GovernorAssumption
<1>3. Cardinality({}) = 0
  BY FS_EmptySet
<1>4. ASSUME NEW d \in Days PROVE PacedOn(d)
  <2>1. Cardinality(BgOn(d)) = 0
    BY <1>1, <1>3
  <2>2. Unlocked(d) \in Nat /\ ConcLimit - 1 \in Nat /\ faults = 0
    BY <1>2
  <2>3. Unlocked(d) + (ConcLimit - 1) + faults >= 0
    BY <2>2
  <2>. QED
    BY <2>1, <2>3 DEF PacedOn
<1>. QED
  BY <1>4 DEF Paced

\* Neither what the curve has unlocked nor the number of faults ever shrinks.
LEMMA RoomGrows ==
  ASSUME TypeOK, [Next]_vars, NEW d \in Days
  PROVE  /\ Unlocked(d) \in Nat /\ Unlocked(d)' \in Nat /\ Unlocked(d) =< Unlocked(d)'
         /\ faults \in Nat /\ faults' \in Nat /\ faults =< faults'
<1>1. /\ allowance \in 0 .. Hard /\ Hard \in Nat /\ day \in Nat /\ d \in Nat
      /\ faults \in Nat /\ Carry \in 0 .. Hard
  BY GovernorAssumption DEF TypeOK, Days, GovernorAssumption
<1>2. CASE UNCHANGED <<day, allowance>> /\ (faults' = faults \/ faults' = faults + 1)
  BY <1>1, <1>2 DEF Unlocked
<1>3. CASE Unlock
  BY <1>1, <1>3 DEF Unlock, Unlocked
<1>4. CASE NextDay
  BY <1>1, <1>4 DEF NextDay, Unlocked
<1>5. \/ Unlock \/ NextDay
      \/ UNCHANGED <<day, allowance>> /\ (faults' = faults \/ faults' = faults + 1)
  BY DEF Next, Step, Begin, Admit, Refuse, Throttle, GiveUp, MarkSent, Abort, Respond, RunRelease,
         MarkExhausted, Crash, LoseRelease, Outlive, Expire, Fault, Refill, vars
<1>. QED
  BY <1>2, <1>3, <1>4, <1>5

\* At an admission, the background calls of a day are those already counted
\* and those still open, and the open ones fit in the slots.
LEMMA OpenFitTheSlots ==
  ASSUME FaultsInv, NEW d \in Days
  PROVE  Cardinality(BgOn(d)) =< usedBg[d] + Cardinality(inflight \ expired) + faults
<1>. DEFINE Live == inflight \ expired
<1>1. BgOn(d) \subseteq BgCountedOn(d) \union (Live \union Strays)
  BY DEF BgOn, HeldOn, BgCountedOn, Strays, Open, Settled, Admitted, FaultsInv, CountersInv, Life
<1>2. /\ BgOn(d) \in SUBSET Calls /\ BgCountedOn(d) \in SUBSET Calls
      /\ Live \in SUBSET Calls /\ Strays \in SUBSET Calls
  BY DEF BgOn, HeldOn, BgCountedOn, Strays, Open, Admitted, FaultsInv, CountersInv, TypeOK
<1>3. Cardinality(BgOn(d)) =< Cardinality(BgCountedOn(d) \union (Live \union Strays))
  BY <1>1, <1>2, FewerCalls
<1>4. Cardinality(BgCountedOn(d) \union (Live \union Strays))
        =< Cardinality(BgCountedOn(d)) + Cardinality(Live \union Strays)
  BY <1>2, UnionOfCalls
<1>5. Cardinality(Live \union Strays) =< Cardinality(Live) + Cardinality(Strays)
  BY <1>2, UnionOfCalls
<1>6. usedBg[d] = Cardinality(BgCountedOn(d))
  BY DEF FaultsInv, CountersInv, CountersExact, BgCountedOn
<1>7. Cardinality(Strays) =< faults /\ faults \in Nat
  BY StraysFew
<1>8. /\ Cardinality(BgOn(d)) \in Nat /\ Cardinality(BgCountedOn(d)) \in Nat
      /\ Cardinality(Live) \in Nat /\ Cardinality(Strays) \in Nat
      /\ Cardinality(Live \union Strays) \in Nat
      /\ Cardinality(BgCountedOn(d) \union (Live \union Strays)) \in Nat
  BY <1>2, CallsFinite
<1>. QED
  BY <1>3, <1>4, <1>5, <1>6, <1>7, <1>8

LEMMA PacedStep ==
  ASSUME FaultsInv, Paced, [Next]_vars, NEW d \in Days
  PROVE  PacedOn(d)'
<1>1. TypeOK /\ Life
  BY DEF FaultsInv, CountersInv
<1>2. BgOn(d) \in SUBSET Calls /\ ConcLimit \in Nat \ {0}
  BY GovernorAssumption DEF BgOn, HeldOn, Admitted, GovernorAssumption
<1>3. CASE BgOn(d)' \subseteq BgOn(d)
  <2>1. Cardinality(BgOn(d)') =< Cardinality(BgOn(d))
    BY <1>2, <1>3, FewerCalls
  <2>2. BgOn(d)' \in SUBSET Calls
    BY <1>2, <1>3
  <2>3. Cardinality(BgOn(d)') \in Nat /\ Cardinality(BgOn(d)) \in Nat
    BY <1>2, <2>2, CallsFinite
  <2>4. Cardinality(BgOn(d)) =< Unlocked(d) + (ConcLimit - 1) + faults
    BY DEF Paced, PacedOn
  <2>. QED
    BY <1>1, <1>2, <2>1, <2>3, <2>4, RoomGrows DEF PacedOn
<1>4. CASE Quiet
  BY <1>3, <1>4 DEF Quiet, BgOn, HeldOn, Background
<1>5. ASSUME NEW c \in Calls, NEW replyLost \in BOOLEAN, Admit(c, replyLost)
      PROVE  PacedOn(d)'
  <2>1. /\ UNCHANGED <<leaseDay, refunded, usedBg, day, allowance>>
        /\ FirstRun(c) \/ SecondRun(c)
    BY <1>1, <1>5, AdmitKinds
  <2>2. CASE leaseDay[c] # d \/ c \notin Background \/ SecondRun(c)
    BY <1>3, <2>1, <2>2 DEF FirstRun, SecondRun, BgOn, HeldOn, Background
  <2>3. CASE leaseDay[c] = d /\ c \in Background /\ FirstRun(c)
    <3>1. BgOn(d)' = BgOn(d) \union {c} /\ c \notin BgOn(d)
      BY <1>1, <2>1, <2>3 DEF FirstRun, BgOn, HeldOn, Background, Life
    <3>2. Cardinality(BgOn(d)') = Cardinality(BgOn(d)) + 1 /\ Cardinality(BgOn(d)) \in Nat
      BY <1>2, <3>1, AddCall, CallsFinite
    <3>3. usedBg[d] + 1 =< Unlocked(d)
      <4>1. usedBg[d] + 1 =< AllowanceOf(c)
        BY <1>5, <2>3 DEF Admit, BudgetAllows, PacingAllows
      <4>2. AllowanceOf(c) = Unlocked(d)
        BY <1>1, <2>3, GovernorAssumption
           DEF AllowanceOf, Unlocked, Life, TypeOK, Days, GovernorAssumption
      <4>. QED
        BY <4>1, <4>2
    <3>4. Cardinality(inflight \ expired) < ConcLimit
      BY <1>5 DEF Admit, SlotFree
    <3>5. Unlocked(d)' = Unlocked(d)
      BY <2>1 DEF Unlocked
    <3>6. /\ usedBg[d] \in Nat /\ Cardinality(inflight \ expired) \in Nat
          /\ Unlocked(d) \in Nat /\ faults \in Nat /\ faults' \in Nat /\ faults =< faults'
      BY <1>1, CallsFinite, RoomGrows DEF TypeOK
    <3>7. Cardinality(BgOn(d)) =< usedBg[d] + Cardinality(inflight \ expired) + faults
      BY OpenFitTheSlots
    <3>. QED
      BY <1>2, <2>1, <3>2, <3>3, <3>4, <3>5, <3>6, <3>7 DEF PacedOn
  <2>. QED
    BY <2>1, <2>2, <2>3
<1>6. ASSUME NEW c \in inflight, RunRelease(c) PROVE PacedOn(d)'
  <2>1. Admitted' = Admitted /\ leaseDay' = leaseDay /\ refunded \subseteq refunded'
    BY <1>1, <1>6 DEF RunRelease, Settle, Admitted, InSlot, TypeOK
  <2>. QED
    BY <1>3, <2>1 DEF BgOn, HeldOn, Background
<1>. QED
  BY <1>1, <1>4, <1>5, <1>6, StepKinds

(* Background traffic overshoots the pacing curve by at most the calls that
   were in flight together and one more per fault.                         *)
THEOREM GovernorPacing == Spec => []PacingOvershootBounded
<1>1. Init => Paced
  BY PacedInit
<1>2. FaultsInv /\ Paced /\ [Next]_vars => Paced'
  BY PacedStep DEF Paced
<1>3. ASSUME FaultsInv, Paced, NEW d \in Days
      PROVE  Cardinality(SentOn(d) \cap Background) =< Unlocked(d) + (ConcLimit - 1) + faults
  <2>1. SentOn(d) \cap Background \subseteq BgOn(d) /\ BgOn(d) \in SUBSET Calls
    BY <1>3, SentIsHeldOnItsDay DEF BgOn, HeldOn, Admitted, FaultsInv
  <2>2. Cardinality(SentOn(d) \cap Background) =< Cardinality(BgOn(d))
    BY <2>1, FewerCalls
  <2>3. Cardinality(SentOn(d) \cap Background) \in Nat /\ Cardinality(BgOn(d)) \in Nat
    BY <2>1, CallsFinite
  <2>4. Cardinality(BgOn(d)) =< Unlocked(d) + (ConcLimit - 1) + faults
    BY <1>3 DEF Paced, PacedOn
  <2>5. Unlocked(d) \in Nat /\ faults \in Nat /\ ConcLimit \in Nat
    BY <1>3, GovernorAssumption
       DEF FaultsInv, CountersInv, TypeOK, Unlocked, GovernorAssumption
  <2>. QED
    BY <2>2, <2>3, <2>4, <2>5
<1>4. FaultsInv /\ Paced => PacingOvershootBounded
  BY <1>3 DEF PacingOvershootBounded, Unlocked
<1>. QED
  BY <1>1, <1>2, <1>4, FaultsInvariant, PTL DEF Spec
=============================================================================
