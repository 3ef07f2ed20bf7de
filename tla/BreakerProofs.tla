----------------------------- MODULE BreakerProofs -----------------------------
(***************************************************************************)
(* Proofs about Breaker, for any number of callers, any window and any     *)
(* failure rate.  Freshness of the probe is inductive with the types: only *)
(* Open makes an admission stale, and it wipes the probe key in the same   *)
(* pipeline.  That throttling never trips needs what the callers carry:    *)
(* as long as Zoho is well nobody carries a failure, the window holds none *)
(* and nobody is on the way to opening the group.  A group that has healed *)
(* is in that state too, and only another outage takes it out of it.       *)
(***************************************************************************)
EXTENDS Breaker, FiniteSetTheorems, TLAPS

\* Nothing bad is held anywhere: not in a hand, not in the window, not in the keys.
Good ==
  /\ trips = 0 /\ ~open
  /\ \A i \in DOMAIN window : window[i] = "ok"
  /\ \A w \in Workers :
       /\ pc[w] \notin {"trip", "open"}
       /\ said[w] \in {"ok", "business"}
       /\ pc[w] = "record" => said[w] = "ok"

\* What a caller is about to record is an outcome the window knows.
Recordable == \A w \in Workers : pc[w] = "record" => said[w] \in Verdicts

Sound == TypeOK /\ Recordable /\ ProbesAreFresh

IInv == Sound /\ (zoho = "well" => Good)

\* Only an outage makes a good group bad.
StaysGood == zoho /= "ill" /\ Good => Good'

\* A window of good calls is never judged against the group: none of its calls failed or
\* was slow, and no share of the calls is not Percent of them (breaker.py, _record).
LEMMA GoodWindow ==
  ASSUME NEW s \in Seq(Verdicts), \A i \in DOMAIN s : s[i] = "ok"
  PROVE  ~Judged(s)
<1>1. \A v \in {"fail", "slow"} : Count(v, s) = 0
  <2> SUFFICES ASSUME NEW v \in {"fail", "slow"} PROVE Count(v, s) = 0
    OBVIOUS
  <2>1. {i \in DOMAIN s : s[i] = v} = {}
    OBVIOUS
  <2> QED BY <2>1, FS_EmptySet DEF Count
<1>2. ASSUME Len(s) >= MinCalls, NEW v \in {"fail", "slow"}
      PROVE  ~Reached(v, s)
  <2>1. Len(s) \in Nat /\ Len(s) >= 1 /\ Percent \in Nat /\ Percent >= 1
    BY <1>2, BreakerAssumption
  <2>2. Percent * Len(s) >= 1
    BY <2>1
  <2>3. 100 * Count(v, s) = 0
    BY <1>1
  <2> QED BY <2>1, <2>2, <2>3 DEF Reached
<1> QED BY <1>2 DEF Judged

\* The window stays good when a good call is added to it or its oldest call leaves.
LEMMA WindowStaysGood ==
  ASSUME NEW s \in Seq(Verdicts), \A i \in DOMAIN s : s[i] = "ok"
  PROVE  /\ \A i \in DOMAIN Append(s, "ok") : Append(s, "ok")[i] = "ok"
         /\ s /= <<>> => Tail(s) \in Seq(Verdicts) /\ \A i \in DOMAIN Tail(s) : Tail(s)[i] = "ok"
<1>1. \A i \in DOMAIN Append(s, "ok") : Append(s, "ok")[i] = "ok"
  OBVIOUS
<1>2. ASSUME s /= <<>>
      PROVE  Tail(s) \in Seq(Verdicts) /\ \A i \in DOMAIN Tail(s) : Tail(s)[i] = "ok"
  BY <1>2
<1> QED BY <1>1, <1>2

\* A closed group counts no trips, and no trips are within the cap.
LEMMA NoTrips == 0 \in 0 .. MaxTrips
BY BreakerAssumption

\* A new group is closed, with an empty window and no probe.
LEMMA Initially == Init => IInv
<1> SUFFICES ASSUME Init PROVE IInv
  OBVIOUS
<1> USE BreakerAssumption DEF Init
<1>1. TypeOK
  <2>1. window \in Seq(Verdicts)
    OBVIOUS
  <2> QED BY <2>1, NoTrips DEF TypeOK, AtRedis, Outcomes, Verdicts
<1>2. Recordable
  BY DEF Recordable
<1>3. ProbesAreFresh
  BY DEF ProbesAreFresh, Calls
<1>4. Good
  <2>1. DOMAIN window = {}
    OBVIOUS
  <2> QED BY <2>1 DEF Good
<1> QED BY <1>1, <1>2, <1>3, <1>4 DEF IInv, Sound

\* The moves of allow() put nothing bad anywhere, and a new admission is a fresh one.
LEMMA AdmissionKeeps ==
  ASSUME Sound, NEW w \in Workers,
         ReadState(w) \/ ReadClosed(w) \/ ReadHalfOpen(w) \/ TakeProbe(w) \/ Refused(w) \/ AdmitUnread(w)
  PROVE  Sound' /\ StaysGood
<1> USE DEF Sound, StaysGood, TypeOK, Recordable, ProbesAreFresh, Good, Calls, AtRedis, Verdicts, Outcomes,
        Goto, Keep, redis
<1>1. CASE ReadState(w)
  BY <1>1 DEF ReadState
<1>2. CASE ReadClosed(w)
  BY <1>2 DEF ReadClosed, Admit
<1>3. CASE ReadHalfOpen(w)
  BY <1>3 DEF ReadHalfOpen
<1>4. CASE TakeProbe(w)
  BY <1>4, BreakerAssumption DEF TakeProbe, Admit
<1>5. CASE Refused(w)
  BY <1>5 DEF Refused, Leave
<1>6. CASE AdmitUnread(w)
  BY <1>6 DEF AdmitUnread, Admit
<1> QED BY <1>1, <1>2, <1>3, <1>4, <1>5, <1>6

\* Calls that end without a word to the group, and answers on their way to it.
LEMMA AnswerKeeps ==
  ASSUME Sound, NEW w \in Workers,
         Answer(w) \/ Dropped(w) \/ GiveUp(w) \/ LostProbe(w) \/ OwnsProbe(w) \/ OutcomeLost(w)
  PROVE  Sound' /\ StaysGood
<1> USE DEF Sound, StaysGood, TypeOK, Recordable, ProbesAreFresh, Good, Calls, AtRedis, Verdicts, Outcomes,
        Goto, Keep, redis
<1>1. CASE Answer(w)
  BY <1>1 DEF Answer, Possible
<1>2. CASE Dropped(w)
  BY <1>2 DEF Dropped, Leave
<1>3. CASE GiveUp(w)
  BY <1>3 DEF GiveUp, Leave
<1>4. CASE LostProbe(w)
  BY <1>4 DEF LostProbe, Leave
<1>5. CASE OwnsProbe(w)
  BY <1>5 DEF OwnsProbe
<1>6. CASE OutcomeLost(w)
  BY <1>6 DEF OutcomeLost, Leave
<1> QED BY <1>1, <1>2, <1>3, <1>4, <1>5, <1>6

\* A recorded outcome opens the group only over a window with a bad call in it.
LEMMA RecordKeeps ==
  ASSUME Sound, NEW w \in Workers, Record(w)
  PROVE  Sound' /\ StaysGood
<1> USE DEF Sound, Record
<1>1. said[w] \in Verdicts /\ window \in Seq(Verdicts) /\ window' = Append(window, said[w])
  BY DEF TypeOK, Recordable
<1>2. window' \in Seq(Verdicts)
  BY <1>1
<1>3. /\ pc' = [pc EXCEPT ![w] = IF Judged(window') THEN "trip" ELSE "idle"]
      /\ UNCHANGED <<zoho, probe, open, trips, mortal>>
      /\ trial' \in [Workers -> BOOLEAN] /\ said' \in [Workers -> Outcomes]
      /\ \A v \in Workers \ {w} : trial'[v] = trial[v] /\ said'[v] = said[v]
      /\ said'[w] \in {said[w], "ok"}
      /\ stale' \in SUBSET stale
  <2>1. CASE Judged(window')
    BY <2>1 DEF Goto, Keep, TypeOK
  <2>2. CASE ~Judged(window')
    BY <2>2 DEF Goto, Leave, TypeOK, Outcomes, Verdicts
  <2> QED BY <2>1, <2>2
<1>4. TypeOK'
  BY <1>2, <1>3 DEF TypeOK, AtRedis
<1>5. Recordable' /\ ProbesAreFresh'
  BY <1>1, <1>3, <1>4 DEF Recordable, ProbesAreFresh, Calls, TypeOK
<1>6. StaysGood
  <2> SUFFICES ASSUME Good PROVE Good'
    BY DEF StaysGood
  <2>1. said[w] = "ok" /\ \A i \in DOMAIN window : window[i] = "ok"
    BY DEF Good
  <2>2. \A i \in DOMAIN window' : window'[i] = "ok"
    BY <1>1, <2>1, WindowStaysGood
  <2>3. ~Judged(window')
    BY <1>2, <2>2, GoodWindow
  <2> QED BY <1>3, <2>1, <2>2, <2>3 DEF Good, TypeOK
<1> QED BY <1>4, <1>5, <1>6

\* Opening makes older admissions stale and takes the probe key from them; until the first
\* outage nobody gets here.
LEMMA OpeningKeeps ==
  ASSUME Sound, NEW w \in Workers, Trip(w) \/ Open(w) \/ Close(w)
  PROVE  Sound' /\ StaysGood
<1> USE BreakerAssumption
    DEF Sound, StaysGood, TypeOK, Recordable, ProbesAreFresh, Good, Calls, AtRedis, Verdicts, Outcomes,
        Goto, Keep
<1>1. <<>> \in Seq(Verdicts) /\ DOMAIN <<>> = {} /\ 0 \in 0 .. MaxTrips
  BY NoTrips
<1>2. CASE Trip(w)
  BY <1>2 DEF Trip
<1>3. CASE Open(w)
  BY <1>1, <1>3 DEF Open, Wiped
<1>4. CASE Close(w)
  BY <1>1, <1>4 DEF Close, Closing, Wiped, Leave
<1> QED BY <1>2, <1>3, <1>4

\* Keys that lapse, an operator's reset, and Zoho's health.
LEMMA WeatherKeeps ==
  ASSUME Sound,
         \/ StateLapses \/ MetaLapses \/ ProbeLapses \/ WindowSlides \/ Reset \/ Sickens \/ CalmsDown
         \/ UNCHANGED vars
  PROVE  Sound' /\ StaysGood
<1> USE BreakerAssumption
    DEF Sound, StaysGood, TypeOK, Recordable, ProbesAreFresh, Good, Calls, AtRedis, Verdicts, Outcomes
<1>1. <<>> \in Seq(Verdicts) /\ DOMAIN <<>> = {} /\ 0 \in 0 .. MaxTrips
  BY NoTrips
<1>2. CASE StateLapses
  BY <1>2 DEF StateLapses
<1>3. CASE MetaLapses
  BY <1>1, <1>3 DEF MetaLapses
<1>4. CASE ProbeLapses
  BY <1>4 DEF ProbeLapses
<1>5. CASE WindowSlides
  <2>1. window' \in Seq(Verdicts)
    BY <1>5 DEF WindowSlides
  <2>2. (\A i \in DOMAIN window : window[i] = "ok") => (\A i \in DOMAIN window' : window'[i] = "ok")
    BY <1>5, WindowStaysGood DEF WindowSlides
  <2> QED BY <1>5, <2>1, <2>2 DEF WindowSlides
<1>6. CASE Reset
  BY <1>1, <1>6 DEF Reset, Closing, Wiped
<1>7. CASE Sickens
  BY <1>7 DEF Sickens
<1>8. CASE CalmsDown
  BY <1>8 DEF CalmsDown
<1>9. CASE UNCHANGED vars
  BY <1>9 DEF vars
<1> QED BY <1>2, <1>3, <1>4, <1>5, <1>6, <1>7, <1>8, <1>9

\* Every step keeps what holds in sickness, and what holds in health.
LEMMA StepKeeps == ASSUME Sound, [Next]_vars PROVE Sound' /\ StaysGood
BY AdmissionKeeps, AnswerKeeps, RecordKeeps, OpeningKeeps, WeatherKeeps DEF Next, Step

\* Zoho is well until its first outage, and calm for good after its last.
LEMMA OutagesBegin ==
  ASSUME [Next]_vars PROVE (zoho' = "well" => zoho = "well") /\ (zoho = "calm" => zoho' = "calm")
BY DEF Next, Step, vars, ReadState, ReadClosed, ReadHalfOpen, TakeProbe, Refused, Answer, Dropped, LostProbe,
       OwnsProbe, Record, Trip, Open, Close, AdmitUnread, GiveUp, OutcomeLost, StateLapses, MetaLapses,
       ProbeLapses, WindowSlides, Reset, Sickens, CalmsDown, Keep, Leave, Admit

\* The invariant holds in every reachable state of the group.
THEOREM BreakerInvariant == Spec => []IInv
<1>1. IInv /\ [Next]_vars => IInv'
  BY StepKeeps, OutagesBegin DEF IInv, StaysGood
<1> QED BY Initially, <1>1, PTL DEF Spec

\* Every reachable state of the group is well typed: trips stay within their cap, and only
\* counted outcomes get into the window.
THEOREM BreakerTypeOK == Spec => []TypeOK
<1>1. IInv => TypeOK
  BY DEF IInv, Sound
<1> QED BY BreakerInvariant, <1>1, PTL

\* Whoever holds the probe key was admitted after the latest opening (breaker.py, _open
\* deletes the probe with the window).
THEOREM ProbesStayFresh == Spec => []ProbesAreFresh
<1>1. IInv => ProbesAreFresh
  BY DEF IInv, Sound
<1> QED BY BreakerInvariant, <1>1, PTL

\* Whatever mix of answers, throttling and lost commands comes in before the first outage,
\* no trip is counted and the group stays closed (breaker.py: "429s recorded as
\* failures" was the defect of its first version).
THEOREM ThrottlingNeverTrips == Spec => []NeverTripsOnThrottling
<1>1. IInv => NeverTripsOnThrottling
  BY DEF IInv, Good, NeverTripsOnThrottling
<1> QED BY BreakerInvariant, <1>1, PTL

\* Half of Heals (breaker.py, record_success): a group that once holds nothing bad while
\* Zoho and Redis behave never opens again, whoever calls it and whatever keys lapse.
THEOREM HealedForGood == Spec => [](zoho = "calm" /\ Good => [](~open /\ trips = 0))
<1>1. IInv /\ zoho = "calm" /\ Good /\ [Next]_vars => (zoho = "calm" /\ Good)'
  BY StepKeeps, OutagesBegin DEF IInv, StaysGood
<1>2. Good => ~open /\ trips = 0
  BY DEF Good
<1> QED BY BreakerInvariant, <1>1, <1>2, PTL DEF Spec

==============================================================================
