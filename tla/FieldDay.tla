------------------------------ MODULE FieldDay ------------------------------
(***************************************************************************)
(* The working day of one field worker: shifts with their pauses, visits,  *)
(* and the requests that change them (modules/fieldops/service/shifts.py   *)
(* and visits.py, the mock-location rule of ingest.py), several of them at *)
(* once - a phone that retries, a second device, a manager - next to the   *)
(* closing sweep of Celery beat (tasks/fieldops.py).                       *)
(*                                                                         *)
(* A request is one READ COMMITTED transaction.  Every ORM update carries  *)
(* the row_version it read, so what a request read of the rows it writes   *)
(* is checked again when it commits, and a request that bases itself on    *)
(* nothing else is one action.  A request that also looks at rows it does  *)
(* not write (a pause looks at the visits, a visit at its shift) is two or *)
(* three: the read, what close_shift() collects, the commit.  The unique   *)
(* indexes of open shifts, open pauses and visits in progress are guards.  *)
(***************************************************************************)
EXTENDS Naturals

CONSTANTS
  Requests,    \* requests in flight of one user and the user's managers
  beat,        \* the sweep
  Shifts,      \* shift rows of the user, by uuid
  Visits,      \* visit rows of the user, by uuid
  MaxPauses,   \* bound: pauses of one shift
  none         \* no shift, no row

ASSUME FieldDayAssumption ==
  /\ beat \notin Requests
  /\ none \notin Shifts \union Visits
  /\ Shifts \intersect Visits = {}
  /\ MaxPauses \in Nat

VARIABLES
  shift,    \* status of each row of fieldops.shifts ("absent": no such row yet)
  resting,  \* the shifts with an open row in fieldops.shift_pauses
  pauses,   \* rows of fieldops.shift_pauses of each shift
  counted,  \* the pauses in the attendance numbers of each shift
  visit,    \* status of each row of fieldops.visits
  ofShift,  \* shift_id of each visit
  task,     \* what each request, and the sweep, is doing
  changed,  \* of the rows each of them has read to write: whose row_version moved
  raced     \* history: visits in progress whose start overlapped, in time, a
            \* request that stops their shift

rows == <<shift, resting, pauses, counted, visit, ofShift>>
vars == <<rows, task, changed, raced>>

Actors == Requests \union {beat}
Rows == Shifts \union Visits
Closing == {"end", "violation", "supersede", "sweep"}   \* the callers of close_shift()
Closed == {"completed", "auto_closed"}
Ended == {"completed", "cancelled", "missed"}
Idle == [op |-> "idle", at |-> "idle", shift |-> none, other |-> none,
         stuck |-> {}, paused |-> FALSE, sum |-> 0]

Open(s) == shift[s] \in {"active", "paused"}

Tasks == [op : {"idle", "pause", "visit", "plan", "cancel"} \union Closing,
          at : {"idle", "read", "collected"},
          shift : Shifts \union {none},   \* the shift the request is about
          other : Rows \union {none},     \* the visit, or the shift a start opens
          stuck : SUBSET Visits,          \* the visits collected to be cancelled
          paused : BOOLEAN,               \* an open pause collected to be ended
          sum : 0 .. MaxPauses]           \* the pauses added up

TypeOK ==
  /\ shift \in [Shifts -> {"absent", "scheduled", "active", "paused", "cancelled", "missed"} \union Closed]
  /\ resting \in SUBSET {s \in Shifts : Open(s)}
  /\ pauses \in [Shifts -> 0 .. MaxPauses] /\ counted \in [Shifts -> 0 .. MaxPauses]
  /\ visit \in [Visits -> {"absent", "planned", "in_progress"} \union Ended]
  /\ ofShift \in [Visits -> Shifts \union {none}]
  /\ task \in [Actors -> Tasks]
  /\ changed \in [Actors -> SUBSET Rows]
  /\ raced \in SUBSET Visits

\* A day that has not begun.
Init ==
  /\ shift = [s \in Shifts |-> "absent"]
  /\ resting = {}
  /\ pauses = [s \in Shifts |-> 0] /\ counted = [s \in Shifts |-> 0]
  /\ visit = [v \in Visits |-> "absent"] /\ ofShift = [v \in Visits |-> none]
  /\ task = [a \in Actors |-> Idle] /\ changed = [a \in Actors |-> {}]
  /\ raced = {}

NoOpenShift == \A s \in Shifts : ~Open(s)
InProgress == {v \in Visits : visit[v] = "in_progress"}

\* SELECT ... FOR UPDATE of the sweep: nobody writes the row, or one that refers
\* to it, until the sweep is over.
Locked(s) == task[beat].op = "sweep" /\ task[beat].shift = s

\* The rows whose row_version a task has read and will check: those it writes,
\* and the shift it looks at.
Watched(t) == ({t.shift, t.other} \union t.stuck) \ {none}
MovedFor(b, rs) == changed[b] \union (rs \intersect Watched(task[b]))

\* Actor a goes on, or ends, having written rs: the others' versions are old now.
Written(a, next, rs) ==
  /\ task' = [task EXCEPT ![a] = next]
  /\ changed' = [b \in Actors |-> IF b = a THEN {} ELSE MovedFor(b, rs)]

\* A request that is one action, because it writes all it has read.
AtOnce(rs) ==
  /\ UNCHANGED task
  /\ changed' = [b \in Actors |-> MovedFor(b, rs)]

Reads(a, todo) ==
  /\ task[a] = Idle
  /\ task' = [task EXCEPT ![a] = todo]
  /\ UNCHANGED <<rows, changed, raced>>

Todo(op, at, s, other) == [Idle EXCEPT !.op = op, !.at = at, !.shift = s, !.other = other]
Current(w, rs) == rs \intersect changed[w] = {}

-----------------------------------------------------------------------------
(* Shifts: schedule, start, pause, resume, cancel. *)

\* schedule_shift().
Schedule(s) ==
  /\ shift[s] = "absent"
  /\ shift' = [shift EXCEPT ![s] = "scheduled"]
  /\ AtOnce({s})
  /\ UNCHANGED <<resting, pauses, counted, visit, ofShift, raced>>

\* start_shift() with no shift open: a new row, or the scheduled one it adopts.
Start(s) ==
  /\ shift[s] \in {"absent", "scheduled"} /\ NoOpenShift
  /\ shift' = [shift EXCEPT ![s] = "active"]
  /\ AtOnce({s})
  /\ UNCHANGED <<resting, pauses, counted, visit, ofShift, raced>>

\* pause_shift() has seen an active shift and no visit in progress.
BeginPause(w, s) ==
  /\ shift[s] = "active" /\ InProgress = {}
  /\ Reads(w, Todo("pause", "read", s, none))

\* Mutant: the UPDATE of the shift does not compare the row_version.
PauseAnyVersion(w) == TRUE
PauseCurrent(w) == Current(w, {task[w].shift})

Pause(w) ==
  LET s == task[w].shift
  IN  /\ task[w].op = "pause"
      /\ PauseCurrent(w) /\ ~Locked(s)
      /\ s \notin resting /\ pauses[s] < MaxPauses
      /\ shift' = [shift EXCEPT ![s] = "paused"]
      /\ resting' = resting \union {s}
      /\ pauses' = [pauses EXCEPT ![s] = @ + 1]
      /\ Written(w, Idle, {s})
      /\ UNCHANGED <<counted, visit, ofShift, raced>>

\* resume_shift().
Resume(s) ==
  /\ shift[s] = "paused" /\ s \in resting /\ ~Locked(s)
  /\ shift' = [shift EXCEPT ![s] = "active"]
  /\ resting' = resting \ {s}
  /\ AtOnce({s})
  /\ UNCHANGED <<pauses, counted, visit, ofShift, raced>>

\* correct_shift(), handover(), update_scheduled(), correct_visit(): the status
\* stays, the row_version moves.
EditShift(s) == shift[s] # "absent" /\ ~Locked(s) /\ AtOnce({s}) /\ UNCHANGED <<rows, raced>>
EditVisit(v) == visit[v] # "absent" /\ AtOnce({v}) /\ UNCHANGED <<rows, raced>>

\* cancel_scheduled() cancels the stops it finds with the shift.
BeginCancel(w, s) ==
  /\ shift[s] = "scheduled"
  /\ Reads(w, [Todo("cancel", "collected", s, none)
                 EXCEPT !.stuck = {v \in Visits : visit[v] = "planned" /\ ofShift[v] = s}])

Cancel(w) ==
  LET t == task[w]
  IN  /\ t.op = "cancel" /\ Current(w, {t.shift} \union t.stuck)
      /\ shift' = [shift EXCEPT ![t.shift] = "cancelled"]
      /\ visit' = [v \in Visits |-> IF v \in t.stuck THEN "cancelled" ELSE visit[v]]
      /\ Written(w, Idle, {t.shift} \union t.stuck)
      /\ UNCHANGED <<resting, pauses, counted, ofShift, raced>>

\* mark_missed() of shifts, under FOR UPDATE SKIP LOCKED.
MissShift(s) ==
  /\ shift[s] = "scheduled"
  /\ shift' = [shift EXCEPT ![s] = "missed"]
  /\ AtOnce({s})
  /\ UNCHANGED <<resting, pauses, counted, visit, ofShift, raced>>

-----------------------------------------------------------------------------
(* close_shift() and its four callers. *)

\* end_shift() has seen an open shift and no visit in progress.
BeginEnd(w, s) ==
  /\ Open(s) /\ InProgress = {}
  /\ Reads(w, Todo("end", "read", s, none))

\* A mock fix under the policy end_shift.
BeginViolation(w, s) == Open(s) /\ Reads(w, Todo("violation", "read", s, none))

\* start_shift() on the device of an open shift that has been idle for long.
BeginSupersede(w, s, new) ==
  /\ Open(s) /\ shift[new] \in {"absent", "scheduled"}
  /\ Reads(w, Todo("supersede", "read", s, new))

\* auto_close_due() locks a shift whose auto_close_at has passed: any open one may be.
Sweep(s) == Open(s) /\ Reads(beat, Todo("sweep", "read", s, none))

\* Mutant: the visits in progress are left alone.
CollectNothing(a) == {}

\* The open pause, the visits in progress and the pauses of the shift, as
\* close_shift() finds them.
Stuck(a) == {v \in InProgress : ofShift[v] = task[a].shift}

Collect(a) ==
  /\ task[a].op \in Closing /\ task[a].at = "read"
  /\ task' = [task EXCEPT ![a].at = "collected", ![a].stuck = Stuck(a),
                         ![a].paused = task[a].shift \in resting, ![a].sum = pauses[task[a].shift]]
  /\ UNCHANGED <<rows, changed, raced>>

\* Mutant: the visits are checked, the shift is written whatever it has become.
VisitsOnly(a) == Current(a, task[a].stuck)
CloseCurrent(a) == Current(a, task[a].stuck \union {task[a].shift, task[a].other})

\* The collected pause ends, the collected visits are cancelled, the sum goes
\* into the attendance numbers, the shift closes; a superseding start opens its own.
Close(a) ==
  LET t == task[a]
  IN  /\ t.op \in Closing /\ t.at = "collected"
      /\ CloseCurrent(a) /\ (a = beat \/ ~Locked(t.shift))
      /\ shift' = [s \in Shifts |->
                     CASE s = t.shift /\ t.op = "end" -> "completed"
                       [] s = t.shift /\ t.op # "end" -> "auto_closed"
                       [] s = t.other -> "active"
                       [] OTHER -> shift[s]]
      /\ resting' = IF t.paused THEN resting \ {t.shift} ELSE resting
      /\ counted' = [counted EXCEPT ![t.shift] = t.sum]
      /\ visit' = [v \in Visits |-> IF v \in t.stuck THEN "cancelled" ELSE visit[v]]
      /\ raced' = raced \ t.stuck
      /\ Written(a, Idle, (t.stuck \union {t.shift, t.other}) \ {none})
      /\ UNCHANGED <<pauses, ofShift>>

-----------------------------------------------------------------------------
(* Visits: plan, start, end, cancel. *)

\* plan_stops() has seen a shift that is not over.
BeginPlan(w, v, s) ==
  /\ shift[s] \in {"scheduled", "active", "paused"} /\ visit[v] = "absent"
  /\ Reads(w, Todo("plan", "read", s, v))

Plan(w) ==
  LET t == task[w]
  IN  /\ t.op = "plan" /\ visit[t.other] = "absent" /\ ~Locked(t.shift)
      /\ visit' = [visit EXCEPT ![t.other] = "planned"]
      /\ ofShift' = [ofShift EXCEPT ![t.other] = t.shift]
      /\ Written(w, Idle, {t.other})
      /\ UNCHANGED <<shift, resting, pauses, counted, raced>>

\* start_visit(), start_planned() have seen that the shift is open and not
\* paused; with no shift open the policy may let a visit begin without one.
BeginVisit(w, v, s) ==
  /\ visit[v] = "absent" \/ (visit[v] = "planned" /\ ofShift[v] = s)
  /\ IF s = none THEN NoOpenShift ELSE shift[s] = "active"
  /\ Reads(w, Todo("visit", "read", s, v))

\* A request that has looked for visits in progress and will stop shift s.
Stopping(s) ==
  \E b \in Actors : /\ task[b].shift = s
                    /\ \/ task[b].op = "pause"
                       \/ task[b].op \in Closing /\ task[b].at = "collected"

\* The row, then last_activity_at of the shift by a Core UPDATE that waits for
\* the row lock but neither checks nor moves the row_version.
StartVisit(w) ==
  LET t == task[w]
  IN  /\ t.op = "visit" /\ Current(w, {t.other})
      /\ InProgress = {} /\ (t.shift # none => ~Locked(t.shift))
      /\ visit' = [visit EXCEPT ![t.other] = "in_progress"]
      /\ ofShift' = [ofShift EXCEPT ![t.other] = t.shift]
      /\ raced' = IF t.shift \in changed[w] \/ Stopping(t.shift) THEN raced \union {t.other} ELSE raced
      /\ Written(w, Idle, {t.other})
      /\ UNCHANGED <<shift, resting, pauses, counted>>

\* end_visit() updates the visit and then touches the shift.
EndVisit(v) ==
  /\ visit[v] = "in_progress"
  /\ ofShift[v] # none => ~Locked(ofShift[v])
  /\ visit' = [visit EXCEPT ![v] = "completed"]
  /\ raced' = raced \ {v}
  /\ AtOnce({v})
  /\ UNCHANGED <<shift, resting, pauses, counted, ofShift>>

\* end_visit() holds the visit and waits for the shift, the sweep holds the shift
\* and waits for the visit: PostgreSQL aborts one of them, here the sweep.
Deadlock(v) ==
  /\ task[beat].at = "collected" /\ v \in task[beat].stuck /\ Current(beat, {v})
  /\ visit' = [visit EXCEPT ![v] = "completed"]
  /\ raced' = raced \ {v}
  /\ Written(beat, Idle, {v})
  /\ UNCHANGED <<shift, resting, pauses, counted, ofShift>>

\* cancel_visit(), cancel_as_manager(): the shift is not touched.
CancelVisit(v) ==
  /\ visit[v] \in {"planned", "in_progress"}
  /\ visit' = [visit EXCEPT ![v] = "cancelled"]
  /\ raced' = raced \ {v}
  /\ AtOnce({v})
  /\ UNCHANGED <<shift, resting, pauses, counted, ofShift>>

\* mark_missed() of visits.
MissVisit(v) ==
  /\ visit[v] = "planned"
  /\ visit' = [visit EXCEPT ![v] = "missed"]
  /\ AtOnce({v})
  /\ UNCHANGED <<shift, resting, pauses, counted, ofShift, raced>>

-----------------------------------------------------------------------------
\* A refused, cancelled or crashed request, or one that finds a row changed.  One
\* such row aborts the whole sweep; the next tick starts over.
Rollback(a) ==
  /\ task[a] # Idle
  /\ Written(a, Idle, {})
  /\ UNCHANGED <<rows, raced>>

Request(w) ==
  \/ \E s \in Shifts : BeginPause(w, s) \/ BeginCancel(w, s) \/ BeginEnd(w, s) \/ BeginViolation(w, s)
  \/ \E s, new \in Shifts : BeginSupersede(w, s, new)
  \/ \E s \in Shifts, v \in Visits : BeginPlan(w, v, s)
  \/ \E s \in Shifts \union {none}, v \in Visits : BeginVisit(w, v, s)
  \/ Pause(w) \/ Cancel(w) \/ Plan(w) \/ StartVisit(w)

Next ==
  \/ \E w \in Requests : Request(w)
  \/ \E a \in Actors : Collect(a) \/ Close(a) \/ Rollback(a)
  \/ \E s \in Shifts : Schedule(s) \/ Start(s) \/ Resume(s) \/ EditShift(s) \/ MissShift(s)
  \/ \E s \in Shifts : Sweep(s)
  \/ \E v \in Visits : EditVisit(v) \/ EndVisit(v) \/ Deadlock(v) \/ CancelVisit(v) \/ MissVisit(v)

Spec == Init /\ [][Next]_vars

-----------------------------------------------------------------------------
(* Properties. *)

(* shifts.py:7-10, "status = 'paused' exactly when paused_since is set", and one open
   pause row with it: no order of pausing, resuming and closing leaves a pause
   open on a shift that goes on or is over.  And the attendance numbers of a
   closed shift contain all of its pauses: none is added behind the sum that
   close_shift() has taken.                                                *)
PausesAreKept ==
  \A s \in Shifts : /\ shift[s] = "paused" <=> s \in resting
                    /\ shift[s] \in Closed => counted[s] = pauses[s]

(* shifts.py:8-9, "no visit starts on a paused shift; no pause while a visit is in
   progress" and "closing a shift ... cancels its in-progress visits": a visit
   in progress on a shift that is paused or over started while the request
   that stopped the shift was under way, or the other way round.           *)
DanglesOnlyByOverlap ==
  \A v \in InProgress \ raced : ofShift[v] # none => shift[ofShift[v]] = "active"

(* state.py: a shift that is completed or auto-closed, a visit that is completed,
   cancelled or missed, has no way out: no pause reopens a closed shift, and no
   closing cancels a visit its worker has ended.                           *)
ClosedIsFinal ==
  [][/\ \A s \in Shifts : shift[s] \in Closed => shift'[s] = shift[s]
     /\ \A v \in Visits : visit[v] \in Ended => visit'[v] = visit[v]]_vars
=============================================================================
