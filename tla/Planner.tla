------------------------------- MODULE Planner -------------------------------
(***************************************************************************)
(* The planner of one Zoho module (modules/zoho/control/planner.py): every *)
(* tick reads the run rows and enqueues the lanes that are due, workers    *)
(* take the messages, lease the lane and close the run row as succeeded,   *)
(* failed, yielded or suspended (tasks/zoho_sync.py), or die and are       *)
(* reaped.  LeasedRun shows what happens inside a run; here a run is its   *)
(* row.                                                                    *)
(*                                                                         *)
(* Of a lane's rows _run_history() keeps the running one, the last closed  *)
(* one and the last start that counts; of time plan() only asks whether    *)
(* that start is before the weekly slot or one interval ago.               *)
(***************************************************************************)
EXTENDS Naturals, FiniteSets

CONSTANTS
  MaxRuns,    \* max_concurrent_runs
  MaxQueue,   \* bound: messages of one lane in the broker
  MaxMarks    \* bound: weekly slots, intervals and requests of one behaviour

ASSUME PlannerAssumption ==
  MaxRuns \in Nat \ {0} /\ MaxQueue \in Nat \ {0} /\ MaxMarks \in Nat

VARIABLES
  lease,      \* the running row of each lane: none, held, or held by an expired lease
  since,      \* the running rows that started after the lane's last slot or interval
  latest,     \* how the last closed run ended, as the planner reads it
  started,    \* the lanes with a start that counts after the last slot or interval
  queue,      \* messages of each lane in the broker
  weather,    \* "rough", or "calm": from now on nothing refuses a run or kills it
  marks,      \* slots, intervals and requests so far
  owed,       \* history: lanes with a slot, interval or request no run has answered
  forgotten   \* history: of these, whose last slice was stopped after a start that counts

plannerVars == <<lease, since, latest, started, queue, weather, marks, owed, forgotten>>

Lanes == {"scheduled", "weekly_full", "manual"}
LaneRank == [manual |-> 2, scheduled |-> 3, weekly_full |-> 4]   \* LANE_PRIORITY

\* "done": succeeded, partial, failed; "stopped": suspended, abandoned; "deferred":
\* yielded to a refusal, its backoff not over; "yielded": to a budget, or it is.
Endings == {"done", "yielded", "deferred", "stopped"}

PlannerTypeOK ==
  /\ lease \in [Lanes -> {"free", "held", "lapsed"}]
  /\ since \in SUBSET {l \in Lanes : lease[l] # "free"}
  /\ latest \in [Lanes -> {"none"} \union Endings]
  /\ started \in SUBSET Lanes
  /\ queue \in [Lanes -> 0 .. MaxQueue]
  /\ weather \in {"rough", "calm"} /\ marks \in 0 .. MaxMarks
  /\ owed \in SUBSET Lanes /\ forgotten \in SUBSET owed

PlannerInit ==
  /\ lease = [l \in Lanes |-> "free"] /\ since = {}
  /\ latest = [l \in Lanes |-> "none"] /\ started = Lanes
  /\ queue = [l \in Lanes |-> 0]
  /\ weather = "rough" /\ marks = 0
  /\ owed = {} /\ forgotten = {}

Taken == {l \in Lanes : lease[l] # "free"}

-----------------------------------------------------------------------------
(* Time and operators. *)

\* The weekly slot, or sync_interval_minutes after the last start.
SlotPasses(l) ==
  /\ l # "manual" /\ marks < MaxMarks
  /\ marks' = marks + 1
  /\ started' = started \ {l} /\ since' = since \ {l}
  /\ owed' = owed \union {l} /\ forgotten' = forgotten \ {l}
  /\ UNCHANGED <<lease, latest, queue, weather>>

\* sync_module(): a message for the manual lane.
Ask ==
  /\ marks < MaxMarks /\ queue["manual"] < MaxQueue
  /\ marks' = marks + 1
  /\ queue' = [queue EXCEPT !["manual"] = @ + 1]
  /\ owed' = owed \union {"manual"} /\ forgotten' = forgotten \ {"manual"}
  /\ UNCHANGED <<lease, since, latest, started, weather>>

\* ZOHO_CONTINUATION_BACKOFF_SECONDS are over.
BackoffOver(l) ==
  /\ latest[l] = "deferred"
  /\ latest' = [latest EXCEPT ![l] = "yielded"]
  /\ UNCHANGED <<lease, since, started, queue, weather, marks, owed, forgotten>>

WeatherClears ==
  /\ weather = "rough"
  /\ weather' = "calm"
  /\ UNCHANGED <<lease, since, latest, started, queue, marks, owed, forgotten>>

-----------------------------------------------------------------------------
(* tick(): reap_expired(), _run_history(), plan(), enqueue. *)

\* Row by row, what a run that ends as how leaves behind.
Ends(ls, how) ==
  /\ lease' = [l \in Lanes |-> IF l \in ls THEN "free" ELSE lease[l]]
  /\ since' = since \ ls
  /\ latest' = [l \in Lanes |-> IF l \in ls THEN how ELSE latest[l]]
  /\ started' = IF how = "stopped" THEN started ELSE started \union (ls \intersect since)
  /\ owed' = IF how = "done" THEN owed \ (ls \intersect since) ELSE owed
  /\ forgotten' = CASE how = "stopped" -> forgotten \union (ls \intersect started \intersect owed)
                    [] how = "done" -> forgotten \ (ls \intersect since)
                    [] OTHER -> forgotten

Reapable == {l \in Lanes : lease[l] = "lapsed"}

Reaping == Reapable # {} /\ Ends(Reapable, "stopped") /\ UNCHANGED <<queue, weather, marks>>

\* Mutant: a yielded run counts as a start like any other (the v1 planner).
NoContinuation(l) == FALSE
Continues(l) == latest[l] = "yielded"

\* A lane that runs is skipped; one that is free is due by its schedule, or goes on.
Due == {l \in Lanes \ Taken : (l # "manual" /\ l \notin started) \/ Continues(l)}

\* What enablement, switches, the governor's state and write pressure let through.
Admitting ==
  IF weather = "calm" THEN {Lanes}
  ELSE {{}} \union {{l \in Lanes : LaneRank[l] =< rank} : rank \in 2 .. 4}

Capacity == IF Cardinality(Taken) < MaxRuns THEN MaxRuns - Cardinality(Taken) ELSE 0

\* Freshness first, as many as there is room for.
Planned(candidates) ==
  {l \in candidates : Cardinality({k \in candidates : LaneRank[k] < LaneRank[l]}) < Capacity}

Enqueue ==
  /\ Reapable = {}
  /\ \E admitted \in Admitting :
       LET runs == Planned(Due \intersect admitted)
       IN  /\ runs # {} /\ \A l \in runs : queue[l] < MaxQueue
           /\ queue' = [l \in Lanes |-> IF l \in runs THEN queue[l] + 1 ELSE queue[l]]
  /\ UNCHANGED <<lease, since, latest, started, weather, marks, owed, forgotten>>

PlannerTick == Reaping \/ Enqueue

-----------------------------------------------------------------------------
(* sync_module_run(). *)

\* The lane is leased, from an expired lease too, which is abandoned first.
TakeMessage(l) ==
  /\ queue[l] > 0 /\ lease[l] = "free"
  /\ queue' = [queue EXCEPT ![l] = @ - 1]
  /\ lease' = [lease EXCEPT ![l] = "held"]
  /\ since' = since \union {l}
  /\ UNCHANGED <<latest, started, weather, marks, owed, forgotten>>

TakeOverLane(l) ==
  /\ queue[l] > 0 /\ lease[l] = "lapsed"
  /\ Ends({l}, "stopped")
  /\ UNCHANGED <<queue, weather, marks>>

\* lane_busy.
SkipMessage(l) ==
  /\ queue[l] > 0 /\ lease[l] = "held"
  /\ queue' = [queue EXCEPT ![l] = @ - 1]
  /\ UNCHANGED <<lease, since, latest, started, weather, marks, owed, forgotten>>

\* In the rough a run may fail (and be retried by Celery), hit its budget, be
\* refused, find the quota exhausted.
EndRun(l, how) ==
  /\ lease[l] = "held"
  /\ weather = "calm" => how = "done"
  /\ Ends({l}, how)
  /\ queue' \in {queue} \union
       (IF how = "done" /\ weather = "rough" /\ queue[l] < MaxQueue
        THEN {[queue EXCEPT ![l] = @ + 1]} ELSE {})
  /\ UNCHANGED <<weather, marks>>

\* Its worker has died and the lease has run out.
RunLapses(l) ==
  /\ lease[l] = "held" /\ weather = "rough"
  /\ lease' = [lease EXCEPT ![l] = "lapsed"]
  /\ UNCHANGED <<since, latest, started, queue, weather, marks, owed, forgotten>>

Works(l) == TakeMessage(l) \/ TakeOverLane(l) \/ SkipMessage(l) \/ \E how \in Endings : EndRun(l, how)

PlannerNext ==
  \/ Ask \/ WeatherClears \/ PlannerTick
  \/ \E l \in Lanes : SlotPasses(l) \/ BackoffOver(l) \/ Works(l) \/ RunLapses(l)

\* Beat ticks, backoffs run out, messages are taken and runs end.
PlannerFairness ==
  /\ WF_plannerVars(PlannerTick)
  /\ \A l \in Lanes : WF_plannerVars(BackoffOver(l)) /\ WF_plannerVars(Works(l))

PlannerSpec == PlannerInit /\ [][PlannerNext]_plannerVars /\ PlannerFairness

-----------------------------------------------------------------------------
(* Properties. *)

(* control-plane.md, "exactly one catch-up run happens", "a lane whose latest run
   ended yielded is resumed": once the governor and the switches admit runs and
   workers live, every slot, interval and request is answered by a run that
   ends - whatever yielded, was suspended or died before, and whatever was
   enqueued twice - unless its last slice was suspended or abandoned after one
   that counts as a start.                                                  *)
EveryLaneIsServed ==
  \A l \in Lanes : (weather = "calm" /\ l \in owed) ~> (l \notin owed \/ l \in forgotten)

(* Why that is so: a lane that is owed a run has one, or a message for one, or the
   planner finds it due - at the latest when its backoff is over (planner.py,
   _run_history and plan) - unless it is one of the forgotten.               *)
NothingOwedIsLost ==
  \A l \in owed \ forgotten :
    l \in Taken \/ queue[l] > 0 \/ l \in Due \/ latest[l] = "deferred"
=============================================================================
