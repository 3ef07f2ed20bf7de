---------------------------- MODULE RequestsProofs ----------------------------
(***************************************************************************)
(* Proofs about requests and tasks that overlap, for every number of them: *)
(* on a field worker's day (FieldDay), on the sessions of a user (SignIn), *)
(* on the images of a collection (MediaItems), on the switches of the Zoho *)
(* engine (Switches), on the tree of an organization (OrgTree), and the    *)
(* five side by side (MCRequests).                                         *)
(***************************************************************************)
EXTENDS MCRequests, FiniteSetTheorems, SequenceTheorems, WellFoundedInduction, TLAPS


-----------------------------------------------------------------------------
(* FieldDay: a request, or the sweep, goes on from what it has read of the  *)
(* rows it writes: that still holds of each as long as no new row_version   *)
(* says otherwise.  Of what it does not write, the visits that begin on a   *)
(* shift it stops, only the history variable is left.                       *)

\* What has been read of a shift, by a pause or a cancellation.
StopRead(a) ==
  LET t == task[a] IN
  /\ t.op = "pause" =>
       /\ t.shift \in Shifts /\ t.stuck = {}
       /\ (t.shift \notin changed[a] => shift[t.shift] = "active")
  /\ t.op = "cancel" =>
       /\ t.shift \in Shifts
       /\ (t.shift \notin changed[a] => shift[t.shift] = "scheduled")
       /\ \A v \in t.stuck \ changed[a] : visit[v] = "planned"

\* By close_shift(): of the shift, of the one a start opens instead, of the visits.
CloseRead(a) ==
  LET t == task[a] IN
  /\ t.at = "collected" => t.op \in Closing \union {"cancel"}
  /\ t.op \in Closing =>
       /\ t.shift \in Shifts /\ t.other \in Shifts \union {none} /\ t.other # t.shift
       /\ (t.shift \notin changed[a] =>
             /\ Open(t.shift)
             /\ (t.at = "collected" => (t.paused <=> t.shift \in resting) /\ t.sum = pauses[t.shift]))
       /\ (t.other # none /\ t.other \notin changed[a] => shift[t.other] \in {"absent", "scheduled"})
       /\ \A v \in t.stuck \ changed[a] : visit[v] = "in_progress"

\* By a visit: of its own row, of the shift it looks at.
VisitRead(a) ==
  LET t == task[a] IN
  /\ t.op = "visit" =>
       /\ t.other \in Visits
       /\ (t.other \notin changed[a] => visit[t.other] \in {"absent", "planned"})
       /\ (t.shift # none /\ t.shift \notin changed[a] => shift[t.shift] = "active")
  /\ t.op = "plan" => t.other \in Visits /\ t.shift \in Shifts

Known(a) == StopRead(a) /\ CloseRead(a) /\ VisitRead(a)

\* The visits on a shift that is about to stop: collected, or raced.
Halts(a) == task[a].op = "pause" \/ (task[a].op \in Closing /\ task[a].at = "collected")
Covers(a) ==
  Halts(a) => \A v \in InProgress \ raced : ofShift[v] = task[a].shift => v \in task[a].stuck

DayInv ==
  /\ TypeOK
  /\ \A a \in Actors : Known(a) /\ Covers(a)
  /\ PausesAreKept /\ DanglesOnlyByOverlap

-----------------------------------------------------------------------------
(* The parts of a step. *)

LEMMA TaskTypes ==
  ASSUME TypeOK, NEW a \in Actors
  PROVE  /\ task[a].op \in {"idle", "pause", "visit", "plan", "cancel"} \union Closing
         /\ task[a].at \in {"idle", "read", "collected"}
         /\ task[a].shift \in Shifts \union {none} /\ task[a].other \in Rows \union {none}
         /\ task[a].stuck \in SUBSET Visits /\ task[a].paused \in BOOLEAN /\ task[a].sum \in 0 .. MaxPauses
         /\ changed[a] \in SUBSET Rows
BY DEF TypeOK, Tasks

LEMMA IdleType == Idle \in Tasks
BY FieldDayAssumption DEF Idle, Tasks

LEMMA MovedType == ASSUME TypeOK, NEW a \in Actors, NEW rs PROVE MovedFor(a, rs) \in SUBSET Rows
BY TaskTypes DEF MovedFor, Watched, Rows

\* The rows a step writes, at most.
Touches(rs) ==
  /\ \A s \in Shifts \ rs : shift'[s] = shift[s] /\ (s \in resting' <=> s \in resting) /\ pauses'[s] = pauses[s]
  /\ \A v \in Visits \ rs : visit'[v] = visit[v]

(* Who has read a row that is written learns it from the row_version. *)
LEMMA OthersKnow ==
  ASSUME TypeOK, NEW b \in Actors, NEW rs, Known(b), Touches(rs),
         task'[b] = task[b], changed'[b] = MovedFor(b, rs)
  PROVE  Known(b)'
<1> DEFINE t == task[b]
<1>1. changed[b] \subseteq changed'[b]
  BY DEF MovedFor
<1>2. ASSUME NEW s \in Shifts, s = t.shift \/ s = t.other, s \notin changed'[b]
      PROVE  s \notin changed[b] /\ s \notin rs
  BY <1>2, FieldDayAssumption DEF MovedFor, Watched
<1>3. ASSUME NEW v \in Visits, v = t.other \/ v \in t.stuck, v \notin changed'[b]
      PROVE  v \notin changed[b] /\ v \notin rs
  BY <1>3, FieldDayAssumption DEF MovedFor, Watched
<1>4. t.shift \in Shifts \union {none} /\ t.stuck \in SUBSET Visits /\ t.other \in Rows \union {none}
  BY TaskTypes
<1> HIDE DEF t
<1>5. task'[b] = t /\ task[b] = t
  BY DEF t
<1>6. StopRead(b)'
  BY <1>2, <1>3, <1>4, <1>5 DEF Known, StopRead, Touches
<1>7. CloseRead(b)'
  BY <1>2, <1>3, <1>4, <1>5 DEF Known, CloseRead, Touches, Open
<1>8. VisitRead(b)'
  BY <1>2, <1>3, <1>4, <1>5 DEF Known, VisitRead, Touches
<1> QED
  BY <1>6, <1>7, <1>8 DEF Known

LEMMA AtOnceKnows ==
  ASSUME DayInv, NEW rs, AtOnce(rs), Touches(rs)
  PROVE  /\ task' \in [Actors -> Tasks] /\ changed' \in [Actors -> SUBSET Rows]
         /\ \A b \in Actors : Known(b)' /\ task'[b] = task[b]
<1>1. task' = task /\ changed' = [b \in Actors |-> MovedFor(b, rs)]
  BY DEF AtOnce
<1>2. \A b \in Actors : Known(b)'
  BY <1>1, OthersKnow DEF DayInv
<1>3. changed' \in [Actors -> SUBSET Rows]
  BY <1>1, MovedType DEF DayInv
<1> QED
  BY <1>1, <1>2, <1>3 DEF DayInv, TypeOK

LEMMA WrittenKnows ==
  ASSUME DayInv, NEW a \in Actors, NEW rs, Written(a, Idle, rs), Touches(rs)
  PROVE  /\ task' \in [Actors -> Tasks] /\ changed' \in [Actors -> SUBSET Rows]
         /\ \A b \in Actors : Known(b)' /\ (task'[b] = task[b] \/ task'[b] = Idle)
<1>1. /\ task \in [Actors -> Tasks] /\ task' = [task EXCEPT ![a] = Idle]
      /\ changed' = [b \in Actors |-> IF b = a THEN {} ELSE MovedFor(b, rs)]
  BY DEF Written, DayInv, TypeOK
<1>2. ASSUME NEW b \in Actors PROVE Known(b)'
  <2>1. CASE b = a
    <3>1. task'[b].op = "idle" /\ task'[b].at = "idle"
      BY <1>1, <2>1 DEF Idle
    <3> QED
      BY <3>1 DEF Known, StopRead, CloseRead, VisitRead, Closing
  <2>2. CASE b # a
    BY <1>1, <2>2, OthersKnow DEF DayInv
  <2> QED
    BY <2>1, <2>2
<1>3. changed' \in [Actors -> SUBSET Rows]
  BY <1>1, MovedType DEF DayInv
<1> QED
  BY <1>1, <1>2, <1>3, IdleType

\* No visit begins, no shift with visits in progress stops.
Calm ==
  /\ \A v \in InProgress' \ raced' : v \in InProgress \ raced /\ ofShift'[v] = ofShift[v]
  /\ \A s \in Shifts : shift[s] = "active" => shift'[s] = "active"

LEMMA CalmKeeps ==
  ASSUME DayInv, TypeOK', Calm, PausesAreKept',
         \A b \in Actors : Known(b)' /\ (task'[b] = task[b] \/ task'[b] = Idle)
  PROVE  DayInv'
<1>1. \A b \in Actors : Covers(b)'
  BY DEF DayInv, Calm, Covers, Halts, Idle, Closing
<1>2. DanglesOnlyByOverlap'
  BY DEF DayInv, Calm, DanglesOnlyByOverlap, TypeOK, InProgress
<1> QED
  BY <1>1, <1>2 DEF DayInv

LEMMA DayInitInv == Init => DayInv
<1> SUFFICES ASSUME Init PROVE DayInv
  OBVIOUS
<1>1. \A a \in Actors : task[a].op = "idle" /\ task[a].at = "idle"
  BY DEF Init, Idle
<1>2. TypeOK
  BY IdleType, FieldDayAssumption DEF Init, TypeOK, Open
<1>3. ASSUME NEW a \in Actors PROVE Known(a) /\ Covers(a)
  BY <1>1 DEF Known, StopRead, CloseRead, VisitRead, Covers, Halts, Closing
<1> QED
  BY <1>2, <1>3 DEF Init, DayInv, PausesAreKept, DanglesOnlyByOverlap, InProgress, Closed

-----------------------------------------------------------------------------
(* The requests that are one action. *)

\* Of a shift: its status and its open pause.
LEMMA ShiftKeeps ==
  ASSUME DayInv, NEW s \in Shifts, Schedule(s) \/ Start(s) \/ Resume(s) \/ EditShift(s) \/ MissShift(s)
  PROVE  DayInv'
<1>1. AtOnce({s}) /\ UNCHANGED <<pauses, counted, visit, ofShift, raced>>
  BY DEF Schedule, Start, Resume, EditShift, MissShift, rows
<1>2. /\ shift \in [Shifts -> {"absent", "scheduled", "active", "paused", "cancelled", "missed"} \union Closed]
      /\ resting \in SUBSET Shifts /\ \A x \in resting : Open(x)
      /\ (shift[s] = "paused" <=> s \in resting)
  <2>1. shift \in [Shifts -> {"absent", "scheduled", "active", "paused", "cancelled", "missed"} \union Closed]
    BY DEF DayInv, TypeOK
  <2>2. resting \in SUBSET Shifts /\ \A x \in resting : Open(x)
    BY DEF DayInv, TypeOK, Open
  <2>3. shift[s] = "paused" <=> s \in resting
    BY DEF DayInv, PausesAreKept
  <2> QED
    BY <2>1, <2>2, <2>3
<1>3. /\ shift' \in [Shifts -> {"absent", "scheduled", "active", "paused", "cancelled", "missed"} \union Closed]
      /\ \A x \in Shifts \ {s} : shift'[x] = shift[x]
      /\ shift[s] = "active" => shift'[s] = "active"
      /\ shift'[s] \in Closed => shift[s] \in Closed
  BY <1>2 DEF Schedule, Start, Resume, EditShift, MissShift, rows, Closed
<1>4. /\ \A x \in Shifts \ {s} : x \in resting' <=> x \in resting
      /\ resting' \in SUBSET Shifts
      /\ (shift'[s] = "paused" <=> s \in resting')
  BY <1>2 DEF Schedule, Start, Resume, EditShift, MissShift, rows, Open
<1>5. Touches({s})
  BY <1>1, <1>3, <1>4 DEF Touches
<1>6. \A x \in Shifts : x \in resting' => Open(x)'
  <2>1. \A x \in Shifts \ {s} : x \in resting' => shift'[x] \in {"active", "paused"}
    BY <1>2, <1>3, <1>4 DEF Open
  <2> QED
    BY <1>4, <2>1 DEF Open
<1>7. TypeOK'
  BY <1>1, <1>3, <1>4, <1>5, <1>6, AtOnceKnows DEF DayInv, TypeOK
<1>8. PausesAreKept'
  <2>1. \A x \in Shifts : (shift'[x] = "paused" <=> x \in resting') /\ (shift'[x] \in Closed => shift[x] \in Closed)
    BY <1>3, <1>4 DEF DayInv, PausesAreKept
  <2> QED
    BY <1>1, <2>1 DEF DayInv, PausesAreKept
<1>9. Calm
  BY <1>1, <1>3 DEF Calm, InProgress
<1> QED
  BY <1>1, <1>5, <1>7, <1>8, <1>9, AtOnceKnows, CalmKeeps

\* Of a visit: it ends, or its row_version moves.
LEMMA VisitKeeps ==
  ASSUME DayInv, NEW v \in Visits, EditVisit(v) \/ EndVisit(v) \/ CancelVisit(v) \/ MissVisit(v)
  PROVE  DayInv'
<1>1. AtOnce({v}) /\ UNCHANGED <<shift, resting, pauses, counted, ofShift>>
  BY DEF EditVisit, EndVisit, CancelVisit, MissVisit, rows
<1>2. /\ visit \in [Visits -> {"absent", "planned", "in_progress"} \union Ended] /\ raced \in SUBSET Visits
      /\ \A x \in Visits \ {v} : visit'[x] = visit[x] /\ (x \in raced' <=> x \in raced)
      /\ visit' \in [Visits -> {"absent", "planned", "in_progress"} \union Ended] /\ raced' \in SUBSET Visits
      /\ visit'[v] = "in_progress" => visit[v] = "in_progress" /\ (v \in raced => v \in raced')
  BY DEF EditVisit, EndVisit, CancelVisit, MissVisit, rows, DayInv, TypeOK, Ended
<1>3. Touches({v})
  BY <1>1, <1>2 DEF Touches
<1>4. TypeOK'
  BY <1>1, <1>2, <1>3, AtOnceKnows DEF DayInv, TypeOK, Open
<1>5. Calm
  <2>1. \A x \in Visits : visit'[x] = "in_progress" /\ x \notin raced' => visit[x] = "in_progress" /\ x \notin raced
    BY <1>2
  <2> QED
    BY <1>1, <2>1 DEF Calm, InProgress
<1>6. PausesAreKept'
  BY <1>1 DEF DayInv, PausesAreKept
<1> QED
  BY <1>1, <1>3, <1>4, <1>5, <1>6, AtOnceKnows, CalmKeeps

-----------------------------------------------------------------------------
(* What the others read. *)

LEMMA ReadsKeep ==
  ASSUME DayInv, NEW a \in Actors, NEW todo \in Tasks, Reads(a, todo), Known(a)', Covers(a)'
  PROVE  DayInv'
<1>1. /\ task \in [Actors -> Tasks] /\ task' = [task EXCEPT ![a] = todo]
      /\ UNCHANGED <<shift, resting, pauses, counted, visit, ofShift, changed, raced>>
  BY DEF Reads, rows, DayInv, TypeOK
<1>2. TypeOK'
  BY <1>1 DEF DayInv, TypeOK, Open
<1>3. ASSUME NEW b \in Actors \ {a} PROVE Known(b)' /\ Covers(b)'
  <2>1. task'[b] = task[b] /\ Known(b) /\ Covers(b)
    BY <1>1 DEF DayInv
  <2>2. Known(b)'
    BY <1>1, <2>1 DEF Known, StopRead, CloseRead, VisitRead, Open
  <2>3. Covers(b)'
    BY <1>1, <2>1 DEF Covers, Halts, InProgress
  <2> QED
    BY <2>2, <2>3
<1>4. PausesAreKept' /\ DanglesOnlyByOverlap'
  BY <1>1 DEF DayInv, PausesAreKept, DanglesOnlyByOverlap, InProgress
<1> QED
  BY <1>2, <1>3, <1>4 DEF DayInv

LEMMA TodoType ==
  ASSUME NEW op \in {"pause", "visit", "plan", "cancel"} \union Closing, NEW at \in {"read", "collected"},
         NEW s \in Shifts \union {none}, NEW other \in Rows \union {none}
  PROVE  /\ Todo(op, at, s, other) \in Tasks
         /\ Todo(op, at, s, other).op = op /\ Todo(op, at, s, other).at = at
         /\ Todo(op, at, s, other).shift = s /\ Todo(op, at, s, other).other = other
         /\ Todo(op, at, s, other).stuck = {}
<1>1. Todo(op, at, s, other) \in Tasks
  BY IdleType DEF Todo, Tasks
<1>2. /\ Todo(op, at, s, other).op = op /\ Todo(op, at, s, other).at = at
      /\ Todo(op, at, s, other).shift = s /\ Todo(op, at, s, other).other = other
  BY IdleType DEF Todo, Tasks
<1>3. Todo(op, at, s, other).stuck = {}
  BY DEF Todo, Idle
<1> QED
  BY <1>1, <1>2, <1>3

LEMMA BeginKeeps ==
  ASSUME DayInv, NEW a \in Actors, NEW op \in {"pause", "visit", "plan"} \union Closing,
         NEW s \in Shifts \union {none}, NEW other \in Rows \union {none},
         Reads(a, Todo(op, "read", s, other)),
         op = "pause" => s \in Shifts /\ shift[s] = "active" /\ InProgress = {},
         op \in Closing => s \in Shifts /\ Open(s) /\ other \in Shifts \union {none} /\ other # s
                             /\ (other # none => shift[other] \in {"absent", "scheduled"}),
         op \in {"visit", "plan"} => other \in Visits,
         op = "plan" => s \in Shifts,
         op = "visit" => visit[other] \in {"absent", "planned"} /\ (s # none => shift[s] = "active")
  PROVE  DayInv'
<1> DEFINE todo == Todo(op, "read", s, other)
<1>0. op \in {"pause", "visit", "plan", "cancel"} \union Closing /\ "read" \in {"read", "collected"}
  OBVIOUS
<1>1. /\ todo \in Tasks /\ todo.op = op /\ todo.at = "read" /\ todo.shift = s /\ todo.other = other
      /\ todo.stuck = {}
  BY <1>0, TodoType
<1> HIDE DEF todo
<1>2. /\ task'[a] = todo
      /\ UNCHANGED <<shift, resting, pauses, visit, ofShift, raced>>
  BY DEF Reads, rows, DayInv, TypeOK, todo
<1>3. op # "cancel"
  BY DEF Closing
<1>4. Known(a)'
  BY <1>1, <1>2, <1>3 DEF Known, StopRead, CloseRead, VisitRead, Open, Closing
<1>5. Covers(a)'
  <2>1. op = "pause" => InProgress' = {}
    BY <1>2 DEF InProgress
  <2> QED
    BY <1>1, <1>2, <2>1 DEF Covers, Halts
<1> QED
  BY <1>1, <1>4, <1>5, ReadsKeep DEF todo

LEMMA RequestsBegin ==
  ASSUME DayInv, NEW w \in Requests
  PROVE  /\ \A s \in Shifts : BeginPause(w, s) \/ BeginEnd(w, s) \/ BeginViolation(w, s) => DayInv'
         /\ \A s, new \in Shifts : BeginSupersede(w, s, new) => DayInv'
         /\ \A s \in Shifts, v \in Visits : BeginPlan(w, v, s) => DayInv'
         /\ \A s \in Shifts \union {none}, v \in Visits : BeginVisit(w, v, s) => DayInv'
<1>1. w \in Actors /\ Shifts \subseteq Rows /\ Visits \subseteq Rows /\ none \notin Shifts
  BY FieldDayAssumption DEF Actors, Rows
<1>2. ASSUME NEW s \in Shifts, BeginPause(w, s) PROVE DayInv'
  BY <1>1, <1>2, BeginKeeps DEF BeginPause, Closing
<1>3. ASSUME NEW s \in Shifts, BeginEnd(w, s) \/ BeginViolation(w, s) PROVE DayInv'
  BY <1>1, <1>3, BeginKeeps DEF BeginEnd, BeginViolation, Closing
<1>4. ASSUME NEW s \in Shifts, NEW new \in Shifts, BeginSupersede(w, s, new) PROVE DayInv'
  <2>1. new # s
    BY <1>4 DEF BeginSupersede, Open
  <2> QED
    BY <1>1, <1>4, <2>1, BeginKeeps DEF BeginSupersede, Closing
<1>5. ASSUME NEW s \in Shifts, NEW v \in Visits, BeginPlan(w, v, s) PROVE DayInv'
  BY <1>1, <1>5, BeginKeeps DEF BeginPlan, Closing
<1>6. ASSUME NEW s \in Shifts \union {none}, NEW v \in Visits, BeginVisit(w, v, s) PROVE DayInv'
  BY <1>1, <1>6, BeginKeeps DEF BeginVisit, Closing
<1> QED
  BY <1>2, <1>3, <1>4, <1>5, <1>6

LEMMA SweepKeeps == ASSUME DayInv, NEW s \in Shifts, Sweep(s) PROVE DayInv'
<1>1. beat \in Actors /\ none \notin Shifts
  BY FieldDayAssumption DEF Actors
<1> QED
  BY <1>1, BeginKeeps DEF Sweep, Closing

LEMMA BeginCancelKeeps == ASSUME DayInv, NEW w \in Requests, NEW s \in Shifts, BeginCancel(w, s) PROVE DayInv'
<1> DEFINE stops == {v \in Visits : visit[v] = "planned" /\ ofShift[v] = s}
           todo == [Todo("cancel", "collected", s, none) EXCEPT !.stuck = stops]
<1>1. w \in Actors /\ shift[s] = "scheduled" /\ Reads(w, todo)
  BY DEF BeginCancel, Actors
<1>2. todo \in Tasks /\ todo.op = "cancel" /\ todo.shift = s /\ todo.stuck = stops
  <2> DEFINE asked == Todo("cancel", "collected", s, none)
  <2>1. asked \in Tasks /\ asked.op = "cancel" /\ asked.shift = s
    BY TodoType
  <2>2. stops \in SUBSET Visits
    OBVIOUS
  <2> HIDE DEF asked, stops
  <2>3. todo = [asked EXCEPT !.stuck = stops]
    BY DEF asked
  <2> QED
    BY <2>1, <2>2, <2>3 DEF Tasks
<1>3. \A v \in stops : visit[v] = "planned"
  OBVIOUS
<1> HIDE DEF todo, stops
<1>4. task'[w] = todo /\ UNCHANGED <<shift, visit>>
  BY <1>1 DEF Reads, rows, DayInv, TypeOK
<1>5. Known(w)' /\ Covers(w)'
  BY <1>1, <1>2, <1>3, <1>4 DEF Known, StopRead, CloseRead, VisitRead, Covers, Halts, Closing
<1> QED
  BY <1>1, <1>2, <1>5, ReadsKeep

-----------------------------------------------------------------------------
(* What they write. *)

LEMMA RollbackKeeps == ASSUME DayInv, NEW a \in Actors, Rollback(a) PROVE DayInv'
<1>1. Written(a, Idle, {}) /\ UNCHANGED <<shift, resting, pauses, counted, visit, ofShift, raced>>
  BY DEF Rollback, rows
<1> DEFINE nothing == {}
<1>2. Written(a, Idle, nothing) /\ Touches(nothing)
  BY <1>1 DEF Touches
<1> HIDE DEF nothing
<1>3. TypeOK'
  BY <1>1, <1>2, WrittenKnows DEF DayInv, TypeOK, Open
<1>4. Calm /\ PausesAreKept'
  BY <1>1 DEF DayInv, Calm, InProgress, PausesAreKept
<1> QED
  BY <1>2, <1>3, <1>4, WrittenKnows, CalmKeeps

LEMMA PauseKeeps == ASSUME DayInv, NEW w \in Requests, Pause(w) PROVE DayInv'
<1> DEFINE s == task[w].shift
<1>1. /\ w \in Actors /\ task[w].op = "pause" /\ s \notin changed[w]
      /\ shift' = [shift EXCEPT ![s] = "paused"] /\ resting' = resting \union {s}
      /\ pauses' = [pauses EXCEPT ![s] = pauses[s] + 1] /\ pauses[s] < MaxPauses
      /\ Written(w, Idle, {s}) /\ UNCHANGED <<counted, visit, ofShift, raced>>
  BY DEF Pause, PauseCurrent, Current, Actors
<1>2. s \in Shifts /\ shift[s] = "active" /\ task[w].stuck = {}
  BY <1>1 DEF DayInv, Known, StopRead
<1>3. /\ shift \in [Shifts -> {"absent", "scheduled", "active", "paused", "cancelled", "missed"} \union Closed]
      /\ resting \in SUBSET Shifts /\ (\A x \in resting : Open(x)) /\ pauses \in [Shifts -> 0 .. MaxPauses]
  BY DEF DayInv, TypeOK
<1>4. Touches({s})
  BY <1>1, <1>2, <1>3 DEF Touches
<1>5. TypeOK'
  <2>1. pauses' \in [Shifts -> 0 .. MaxPauses]
    <3>1. pauses[s] \in 0 .. MaxPauses /\ MaxPauses \in Nat
      BY <1>2, <1>3, FieldDayAssumption
    <3>2. pauses[s] + 1 \in 0 .. MaxPauses
      BY <1>1, <3>1
    <3> QED
      BY <1>1, <1>3, <3>2
  <2>2. shift' \in [Shifts -> {"absent", "scheduled", "active", "paused", "cancelled", "missed"} \union Closed]
    BY <1>1, <1>3
  <2>3. resting' \in SUBSET Shifts /\ \A x \in resting' : Open(x)'
    BY <1>1, <1>2, <1>3 DEF Open
  <2> QED
    BY <1>1, <1>4, <2>1, <2>2, <2>3, WrittenKnows DEF DayInv, TypeOK
<1>6. \A b \in Actors : Known(b)' /\ (task'[b] = task[b] \/ task'[b] = Idle)
  BY <1>1, <1>4, WrittenKnows
<1>7. \A b \in Actors : Covers(b)'
  BY <1>1, <1>6 DEF DayInv, Covers, Halts, Idle, Closing, InProgress
<1>8. DanglesOnlyByOverlap'
  <2>1. \A v \in InProgress \ raced : ofShift[v] # s
    BY <1>1, <1>2 DEF DayInv, Covers, Halts
  <2>2. \A v \in InProgress \ raced : ofShift[v] # none => ofShift[v] \in Shifts
    BY DEF DayInv, TypeOK, InProgress
  <2> QED
    BY <1>1, <1>3, <2>1, <2>2 DEF DayInv, DanglesOnlyByOverlap, InProgress
<1>9. PausesAreKept'
  <2>1. shift'[s] = "paused" /\ s \in resting' /\ shift'[s] \notin Closed
    BY <1>1, <1>2, <1>3 DEF Closed
  <2>2. \A x \in Shifts \ {s} : shift'[x] = shift[x] /\ (x \in resting' <=> x \in resting) /\ pauses'[x] = pauses[x]
    BY <1>1, <1>3
  <2> QED
    BY <1>1, <2>1, <2>2 DEF DayInv, PausesAreKept
<1> QED
  BY <1>5, <1>6, <1>7, <1>8, <1>9 DEF DayInv

LEMMA CancelKeeps == ASSUME DayInv, NEW w \in Requests, Cancel(w) PROVE DayInv'
<1> DEFINE s == task[w].shift
           stops == task[w].stuck
           rs == {s} \union stops
<1>1. /\ w \in Actors /\ task[w].op = "cancel" /\ rs \intersect changed[w] = {}
      /\ shift' = [shift EXCEPT ![s] = "cancelled"]
      /\ visit' = [v \in Visits |-> IF v \in stops THEN "cancelled" ELSE visit[v]]
      /\ Written(w, Idle, rs) /\ UNCHANGED <<resting, pauses, counted, ofShift, raced>>
  BY DEF Cancel, Current, Actors
<1>2. s \in Shifts /\ shift[s] = "scheduled" /\ stops \in SUBSET Visits
  BY <1>1, TaskTypes DEF DayInv, Known, StopRead
<1>3. /\ shift \in [Shifts -> {"absent", "scheduled", "active", "paused", "cancelled", "missed"} \union Closed]
      /\ visit \in [Visits -> {"absent", "planned", "in_progress"} \union Ended]
      /\ resting \in SUBSET Shifts /\ \A x \in resting : Open(x)
  BY DEF DayInv, TypeOK
<1>4. Touches(rs)
  BY <1>1, <1>2, <1>3 DEF Touches
<1>5. TypeOK'
  <2>1. /\ shift' \in [Shifts -> {"absent", "scheduled", "active", "paused", "cancelled", "missed"} \union Closed]
        /\ visit' \in [Visits -> {"absent", "planned", "in_progress"} \union Ended]
    BY <1>1, <1>3 DEF Ended
  <2>2. \A x \in resting' : Open(x)'
    BY <1>1, <1>2, <1>3 DEF Open
  <2> HIDE DEF rs
  <2> QED
    BY <1>1, <1>3, <1>4, <2>1, <2>2, WrittenKnows DEF DayInv, TypeOK
<1>6. Calm
  BY <1>1, <1>2, <1>3 DEF Calm, InProgress
<1>7. PausesAreKept'
  <2>1. shift'[s] = "cancelled" /\ \A x \in Shifts \ {s} : shift'[x] = shift[x]
    BY <1>1, <1>2, <1>3
  <2>2. s \notin resting
    BY <1>2, <1>3 DEF Open
  <2> QED
    BY <1>1, <2>1, <2>2 DEF DayInv, PausesAreKept, Closed
<1> HIDE DEF rs
<1> QED
  BY <1>1, <1>4, <1>5, <1>6, <1>7, WrittenKnows, CalmKeeps

\* The sweep loses a deadlock to the end of a visit.
LEMMA DeadlockKeeps == ASSUME DayInv, NEW v \in Visits, Deadlock(v) PROVE DayInv'
<1>1. /\ beat \in Actors /\ Written(beat, Idle, {v})
      /\ visit' = [visit EXCEPT ![v] = "completed"] /\ raced' = raced \ {v}
      /\ UNCHANGED <<shift, resting, pauses, counted, ofShift>>
  BY DEF Deadlock, Actors
<1>2. visit \in [Visits -> {"absent", "planned", "in_progress"} \union Ended] /\ raced \in SUBSET Visits
  BY DEF DayInv, TypeOK
<1>3. Touches({v})
  BY <1>1, <1>2 DEF Touches
<1>4. TypeOK'
  <2>1. visit' \in [Visits -> {"absent", "planned", "in_progress"} \union Ended] /\ raced' \in SUBSET Visits
    BY <1>1, <1>2 DEF Ended
  <2> QED
    BY <1>1, <1>3, <2>1, WrittenKnows DEF DayInv, TypeOK, Open
<1>5. Calm /\ PausesAreKept'
  BY <1>1, <1>2 DEF DayInv, Calm, InProgress, PausesAreKept
<1> QED
  BY <1>1, <1>3, <1>4, <1>5, WrittenKnows, CalmKeeps

LEMMA PlanKeeps == ASSUME DayInv, NEW w \in Requests, Plan(w) PROVE DayInv'
<1> DEFINE v == task[w].other
           s == task[w].shift
<1>1. /\ w \in Actors /\ task[w].op = "plan" /\ visit[v] = "absent"
      /\ visit' = [visit EXCEPT ![v] = "planned"] /\ ofShift' = [ofShift EXCEPT ![v] = s]
      /\ Written(w, Idle, {v}) /\ UNCHANGED <<shift, resting, pauses, counted, raced>>
  BY DEF Plan, Actors
<1>2. v \in Visits /\ s \in Shifts
  BY <1>1 DEF DayInv, Known, VisitRead
<1>3. /\ visit \in [Visits -> {"absent", "planned", "in_progress"} \union Ended]
      /\ ofShift \in [Visits -> Shifts \union {none}]
  BY DEF DayInv, TypeOK
<1>4. Touches({v})
  BY <1>1, <1>2, <1>3 DEF Touches
<1>5. TypeOK'
  <2>1. /\ visit' \in [Visits -> {"absent", "planned", "in_progress"} \union Ended]
        /\ ofShift' \in [Visits -> Shifts \union {none}]
    BY <1>1, <1>2, <1>3
  <2> QED
    BY <1>1, <1>4, <2>1, WrittenKnows DEF DayInv, TypeOK, Open
<1>6. Calm /\ PausesAreKept'
  BY <1>1, <1>2, <1>3 DEF DayInv, Calm, InProgress, PausesAreKept
<1> QED
  BY <1>1, <1>4, <1>5, <1>6, WrittenKnows, CalmKeeps

\* A visit begins: whoever stops its shift meanwhile makes it a raced one.
LEMMA StartVisitKeeps == ASSUME DayInv, NEW w \in Requests, StartVisit(w) PROVE DayInv'
<1> DEFINE v == task[w].other
           s == task[w].shift
<1>1. /\ w \in Actors /\ task[w].op = "visit" /\ v \notin changed[w] /\ InProgress = {}
      /\ visit' = [visit EXCEPT ![v] = "in_progress"] /\ ofShift' = [ofShift EXCEPT ![v] = s]
      /\ raced' = IF s \in changed[w] \/ Stopping(s) THEN raced \union {v} ELSE raced
      /\ Written(w, Idle, {v}) /\ UNCHANGED <<shift, resting, pauses, counted>>
  BY DEF StartVisit, Current, Actors
<1>2. /\ v \in Visits /\ s \in Shifts \union {none}
      /\ s # none /\ s \notin changed[w] => shift[s] = "active"
  BY <1>1, TaskTypes DEF DayInv, Known, VisitRead
<1>3. /\ visit \in [Visits -> {"absent", "planned", "in_progress"} \union Ended] /\ raced \in SUBSET Visits
      /\ ofShift \in [Visits -> Shifts \union {none}]
  BY DEF DayInv, TypeOK
<1>4. Touches({v})
  BY <1>1, <1>2, <1>3 DEF Touches
<1>5. TypeOK'
  <2>1. /\ visit' \in [Visits -> {"absent", "planned", "in_progress"} \union Ended] /\ raced' \in SUBSET Visits
        /\ ofShift' \in [Visits -> Shifts \union {none}]
    BY <1>1, <1>2, <1>3
  <2> QED
    BY <1>1, <1>4, <2>1, WrittenKnows DEF DayInv, TypeOK, Open
<1>6. \A b \in Actors : Known(b)' /\ (task'[b] = task[b] \/ task'[b] = Idle)
  BY <1>1, <1>4, WrittenKnows
<1>7. InProgress' = {v} /\ ofShift'[v] = s
  BY <1>1, <1>2, <1>3 DEF InProgress
<1>8. v \notin raced' => (s # none => shift[s] = "active") /\ ~Stopping(s)
  BY <1>1, <1>2
<1>9. ASSUME NEW b \in Actors PROVE Covers(b)'
  <2> SUFFICES ASSUME Halts(b)', v \notin raced', s = task'[b].shift PROVE FALSE
    BY <1>7 DEF Covers
  <2>1. task'[b] = task[b]
    BY <1>6 DEF Halts, Idle, Closing
  <2> QED
    BY <1>8, <2>1 DEF Halts, Stopping
<1>10. DanglesOnlyByOverlap'
  BY <1>1, <1>7, <1>8 DEF DanglesOnlyByOverlap
<1>11. PausesAreKept'
  BY <1>1 DEF DayInv, PausesAreKept
<1> QED
  BY <1>5, <1>6, <1>9, <1>10, <1>11 DEF DayInv
-----------------------------------------------------------------------------
(* close_shift(). *)

LEMMA CollectKeeps == ASSUME DayInv, NEW a \in Actors, Collect(a) PROVE DayInv'
<1> DEFINE s == task[a].shift
<1>1. /\ task[a].op \in Closing /\ UNCHANGED <<shift, resting, pauses, counted, visit, ofShift, changed, raced>>
      /\ task' = [task EXCEPT ![a].at = "collected", ![a].stuck = Stuck(a),
                             ![a].paused = s \in resting, ![a].sum = pauses[s]]
  BY DEF Collect, rows
<1>2. /\ s \in Shifts /\ task[a].other \in Shifts \union {none} /\ task[a].other # s
      /\ s \notin changed[a] => Open(s)
      /\ task[a].other # none /\ task[a].other \notin changed[a] => shift[task[a].other] \in {"absent", "scheduled"}
  BY <1>1 DEF DayInv, Known, CloseRead
<1>3. task \in [Actors -> Tasks] /\ pauses[s] \in 0 .. MaxPauses /\ Stuck(a) \in SUBSET Visits
  BY <1>2 DEF DayInv, TypeOK, Stuck, InProgress
<1>4. /\ task'[a].op = task[a].op /\ task'[a].shift = s /\ task'[a].other = task[a].other
      /\ task'[a].at = "collected" /\ task'[a].stuck = Stuck(a)
      /\ (task'[a].paused <=> s \in resting) /\ task'[a].sum = pauses[s]
      /\ \A b \in Actors \ {a} : task'[b] = task[b]
      /\ task' \in [Actors -> Tasks]
  <2> DEFINE u == task[a]
             stuck == Stuck(a)
             paused == s \in resting
             sum == pauses[s]
             t == [u EXCEPT !.at = "collected", !.stuck = stuck, !.paused = paused, !.sum = sum]
  <2>1. task' = [task EXCEPT ![a] = t]
    BY <1>1, <1>3 DEF Tasks
  <2>2. u \in Tasks /\ stuck \in SUBSET Visits /\ paused \in BOOLEAN /\ sum \in 0 .. MaxPauses
    BY <1>3
  <2> HIDE DEF u, stuck, paused, sum
  <2>3. /\ t \in Tasks /\ t.op = u.op /\ t.shift = u.shift /\ t.other = u.other
        /\ t.at = "collected" /\ t.stuck = stuck /\ (t.paused <=> paused) /\ t.sum = sum
    BY <2>2 DEF Tasks
  <2> HIDE DEF t
  <2> QED
    BY <1>3, <2>1, <2>3 DEF u, stuck, paused, sum
<1>5. TypeOK'
  BY <1>1, <1>4 DEF DayInv, TypeOK, Open
<1>6. Known(a)'
  <2>1. \A v \in Stuck(a) : visit[v] = "in_progress"
    BY DEF Stuck, InProgress
  <2>2. CloseRead(a)'
    BY <1>1, <1>2, <1>4, <2>1 DEF CloseRead, Open
  <2> QED
    BY <1>1, <1>4, <2>2 DEF Known, StopRead, VisitRead, Closing
<1>7. Covers(a)'
  BY <1>1, <1>4 DEF Covers, Stuck, InProgress
<1>8. ASSUME NEW b \in Actors \ {a} PROVE Known(b)' /\ Covers(b)'
  <2>1. task'[b] = task[b] /\ Known(b) /\ Covers(b)
    BY <1>4 DEF DayInv
  <2>2. UNCHANGED <<shift, resting, pauses, visit, ofShift, changed, raced>>
    BY <1>1
  <2>3. Known(b)'
    BY <2>1, <2>2 DEF Known, StopRead, CloseRead, VisitRead, Open
  <2>4. Covers(b)'
    BY <2>1, <2>2 DEF Covers, Halts, InProgress
  <2> QED
    BY <2>3, <2>4
<1>9. PausesAreKept' /\ DanglesOnlyByOverlap'
  BY <1>1 DEF DayInv, PausesAreKept, DanglesOnlyByOverlap, InProgress
<1> QED
  BY <1>5, <1>6, <1>7, <1>8, <1>9 DEF DayInv

\* What a closing that commits finds, and writes.
LEMMA Closes ==
  ASSUME DayInv, NEW a \in Actors, Close(a)
  PROVE  LET t == task[a] IN
         /\ t.shift \in Shifts /\ t.other \in Shifts \union {none} /\ t.other # t.shift
         /\ Open(t.shift) /\ (t.paused <=> t.shift \in resting) /\ t.sum = pauses[t.shift]
         /\ t.other # none => shift[t.other] \in {"absent", "scheduled"}
         /\ t.stuck \in SUBSET Visits /\ \A v \in t.stuck : visit[v] = "in_progress"
         /\ \A v \in InProgress \ raced : ofShift[v] = t.shift => v \in t.stuck
         /\ shift'[t.shift] \in Closed /\ (t.other # none => shift'[t.other] = "active")
         /\ \A s \in Shifts \ {t.shift, t.other} : shift'[s] = shift[s]
         /\ shift' \in [Shifts -> {"absent", "scheduled", "active", "paused", "cancelled", "missed"} \union Closed]
<1> DEFINE t == task[a]
<1>1. /\ t.op \in Closing /\ t.at = "collected" /\ Current(a, t.stuck \union {t.shift, t.other})
      /\ shift' = [s \in Shifts |->
                     CASE s = t.shift /\ t.op = "end" -> "completed"
                       [] s = t.shift /\ t.op # "end" -> "auto_closed"
                       [] s = t.other -> "active"
                       [] OTHER -> shift[s]]
  BY DEF Close, CloseCurrent
<1>2. t.shift \notin changed[a] /\ t.other \notin changed[a] /\ \A v \in t.stuck : v \notin changed[a]
  BY <1>1 DEF Current
<1>3. CloseRead(a) /\ Covers(a)
  BY DEF DayInv, Known
<1>4. t.stuck \in SUBSET Visits
  BY TaskTypes DEF DayInv
<1>5. /\ t.shift \in Shifts /\ t.other \in Shifts \union {none} /\ t.other # t.shift
      /\ Open(t.shift) /\ (t.paused <=> t.shift \in resting) /\ t.sum = pauses[t.shift]
      /\ (t.other # none => shift[t.other] \in {"absent", "scheduled"})
      /\ \A v \in t.stuck : visit[v] = "in_progress"
  BY <1>1, <1>2, <1>3 DEF CloseRead
<1>6. \A v \in InProgress \ raced : ofShift[v] = t.shift => v \in t.stuck
  BY <1>1, <1>3 DEF Covers, Halts
<1>7. shift \in [Shifts -> {"absent", "scheduled", "active", "paused", "cancelled", "missed"} \union Closed]
  BY DEF DayInv, TypeOK
<1> HIDE DEF t
<1>8. /\ shift'[t.shift] \in Closed /\ (t.other # none => shift'[t.other] = "active")
      /\ \A s \in Shifts \ {t.shift, t.other} : shift'[s] = shift[s]
  BY <1>1, <1>5 DEF Closed
<1>9. shift' \in [Shifts -> {"absent", "scheduled", "active", "paused", "cancelled", "missed"} \union Closed]
  <2>1. \A s \in Shifts : shift'[s] \in {"absent", "scheduled", "active", "paused", "cancelled", "missed"} \union Closed
    BY <1>5, <1>7, <1>8, FieldDayAssumption DEF Closed
  <2>2. shift' = [s \in Shifts |-> shift'[s]]
    BY <1>1
  <2> QED
    BY <2>1, <2>2
<1> QED
  BY <1>4, <1>5, <1>6, <1>8, <1>9 DEF t

LEMMA CloseKeeps == ASSUME DayInv, NEW a \in Actors, Close(a) PROVE DayInv'
<1> DEFINE t == task[a]
           s == t.shift
           new == t.other
           stops == t.stuck
           rs == (stops \union {s, new}) \ {none}
<1>1. /\ s \in Shifts /\ new \in Shifts \union {none} /\ new # s
      /\ Open(s) /\ (t.paused <=> s \in resting) /\ t.sum = pauses[s]
      /\ (new # none => shift[new] \in {"absent", "scheduled"})
      /\ stops \in SUBSET Visits /\ (\A v \in stops : visit[v] = "in_progress")
      /\ \A v \in InProgress \ raced : ofShift[v] = s => v \in stops
  BY Closes
<1>2. /\ shift'[s] \in Closed /\ (new # none => shift'[new] = "active")
      /\ \A x \in Shifts \ {s, new} : shift'[x] = shift[x]
      /\ shift' \in [Shifts -> {"absent", "scheduled", "active", "paused", "cancelled", "missed"} \union Closed]
  BY Closes
<1>3. /\ resting' = (IF t.paused THEN resting \ {s} ELSE resting)
      /\ counted' = [counted EXCEPT ![s] = t.sum]
      /\ visit' = [v \in Visits |-> IF v \in stops THEN "cancelled" ELSE visit[v]]
      /\ raced' = raced \ stops
      /\ Written(a, Idle, rs) /\ UNCHANGED <<pauses, ofShift>>
  BY DEF Close
<1>4. /\ resting \in SUBSET Shifts /\ (\A x \in resting : Open(x))
      /\ pauses \in [Shifts -> 0 .. MaxPauses] /\ counted \in [Shifts -> 0 .. MaxPauses]
      /\ visit \in [Visits -> {"absent", "planned", "in_progress"} \union Ended] /\ raced \in SUBSET Visits
      /\ ofShift \in [Visits -> Shifts \union {none}] /\ none \notin Shifts \union Visits
      /\ shift \in [Shifts -> {"absent", "scheduled", "active", "paused", "cancelled", "missed"} \union Closed]
  BY FieldDayAssumption DEF DayInv, TypeOK
<1> HIDE DEF t, s, new, stops
<1>5. resting' = resting \ {s} /\ new \notin resting
  BY <1>1, <1>3, <1>4 DEF Open
<1>6. Touches(rs)
  <2>1. \A x \in Shifts \ rs : x # s /\ x # new
    BY <1>4
  <2>2. \A v \in Visits \ rs : v \notin stops
    BY <1>4
  <2> QED
    BY <1>2, <1>3, <1>5, <2>1, <2>2 DEF Touches
<1> HIDE DEF rs
<1>7. \A b \in Actors : Known(b)' /\ (task'[b] = task[b] \/ task'[b] = Idle)
  BY <1>3, <1>6, WrittenKnows
<1>8. TypeOK'
  <2>1. counted' \in [Shifts -> 0 .. MaxPauses]
    BY <1>1, <1>3, <1>4
  <2>2. /\ visit' \in [Visits -> {"absent", "planned", "in_progress"} \union Ended] /\ raced' \in SUBSET Visits
    BY <1>3, <1>4 DEF Ended
  <2>3. resting' \in SUBSET Shifts /\ \A x \in resting' : Open(x)'
    BY <1>2, <1>4, <1>5 DEF Open
  <2> QED
    BY <1>2, <1>3, <1>6, <2>1, <2>2, <2>3, WrittenKnows DEF DayInv, TypeOK
<1>9. \A v \in InProgress' \ raced' : v \in InProgress \ raced /\ v \notin stops /\ ofShift'[v] = ofShift[v]
  <2>1. ASSUME NEW v \in Visits, visit'[v] = "in_progress" PROVE v \notin stops /\ visit[v] = "in_progress"
    BY <1>3, <2>1
  <2> QED
    BY <1>3, <2>1 DEF InProgress
<1>10. \A b \in Actors : Covers(b)'
  BY <1>7, <1>9 DEF DayInv, Covers, Halts, Idle, Closing
<1>11. DanglesOnlyByOverlap'
  <2> SUFFICES ASSUME NEW v \in InProgress' \ raced', ofShift'[v] # none PROVE shift'[ofShift'[v]] = "active"
    BY DEF DanglesOnlyByOverlap
  <2>1. v \in InProgress \ raced /\ ofShift'[v] = ofShift[v] /\ ofShift[v] # s /\ ofShift[v] \in Shifts
    BY <1>1, <1>4, <1>9 DEF InProgress
  <2>2. shift[ofShift[v]] = "active"
    BY <2>1 DEF DayInv, DanglesOnlyByOverlap
  <2> QED
    BY <1>2, <2>1, <2>2
<1>12. PausesAreKept'
  <2>1. shift'[s] # "paused" /\ s \notin resting' /\ counted'[s] = pauses'[s]
    BY <1>1, <1>2, <1>3, <1>4, <1>5 DEF Closed
  <2>2. ASSUME NEW x \in Shifts \ {s}
        PROVE  /\ shift'[x] = "paused" <=> x \in resting'
               /\ shift'[x] \in Closed => counted'[x] = pauses'[x]
    <3>1. /\ shift[x] = "paused" <=> x \in resting
          /\ shift[x] \in Closed => counted[x] = pauses[x]
      BY DEF DayInv, PausesAreKept
    <3>2. counted'[x] = counted[x] /\ pauses'[x] = pauses[x] /\ (x \in resting' <=> x \in resting)
      BY <1>3, <1>4, <1>5
    <3>3. CASE x = new
      BY <1>2, <1>5, <2>2, <3>2, <3>3, <1>4 DEF Closed
    <3>4. CASE x # new
      BY <1>2, <3>1, <3>2, <3>4
    <3> QED
      BY <3>3, <3>4
  <2> QED
    BY <2>1, <2>2 DEF PausesAreKept
<1> QED
  BY <1>7, <1>8, <1>10, <1>11, <1>12 DEF DayInv

-----------------------------------------------------------------------------
(* The theorems. *)

LEMMA DayStepInv == DayInv /\ [Next]_vars => DayInv'
<1> SUFFICES ASSUME DayInv, [Next]_vars PROVE DayInv'
  OBVIOUS
<1>1. ASSUME NEW w \in Requests, Request(w) PROVE DayInv'
  <2>1. CASE \E s \in Shifts : BeginCancel(w, s)
    BY <2>1, BeginCancelKeeps
  <2>2. CASE Pause(w) \/ Cancel(w) \/ Plan(w) \/ StartVisit(w)
    BY <2>2, PauseKeeps, CancelKeeps, PlanKeeps, StartVisitKeeps
  <2> QED
    BY <1>1, <2>1, <2>2, RequestsBegin DEF Request
<1>2. ASSUME NEW a \in Actors, Collect(a) \/ Close(a) \/ Rollback(a) PROVE DayInv'
  BY <1>2, CollectKeeps, CloseKeeps, RollbackKeeps
<1>3. ASSUME NEW s \in Shifts, Schedule(s) \/ Start(s) \/ Resume(s) \/ EditShift(s) \/ MissShift(s) \/ Sweep(s)
      PROVE  DayInv'
  BY <1>3, ShiftKeeps, SweepKeeps
<1>4. ASSUME NEW v \in Visits, EditVisit(v) \/ EndVisit(v) \/ Deadlock(v) \/ CancelVisit(v) \/ MissVisit(v)
      PROVE  DayInv'
  BY <1>4, VisitKeeps, DeadlockKeeps
<1>5. CASE UNCHANGED vars
  BY <1>5 DEF DayInv, vars, rows, TypeOK, Known, StopRead, CloseRead, VisitRead, Covers, Halts, Open,
               InProgress, PausesAreKept, DanglesOnlyByOverlap
<1> QED
  BY <1>1, <1>2, <1>3, <1>4, <1>5 DEF Next

(* What a request has read of the rows it writes holds until a row_version
   moves, and who stops a shift has all its visits, but those raced.       *)
THEOREM DayInvariant == Spec => []DayInv
<1> QED
  BY DayInitInv, DayStepInv, PTL DEF Spec

(* Type correctness: pauses rest on open shifts only, tasks are as declared. *)
THEOREM DayTypes == Spec => []TypeOK
<1> QED
  BY DayInvariant, PTL DEF DayInv

(* For any number of devices, managers and sweeps at work on the same day, a
   shift is paused exactly when it has an open pause, and the attendance
   numbers of a closed shift contain all of its pauses.                    *)
THEOREM PausesKept == Spec => []PausesAreKept
<1> QED
  BY DayInvariant, PTL DEF DayInv

(* A visit in progress on a shift that is not active began while the request
   that stopped the shift was under way, or the other way round.           *)
THEOREM DanglesByOverlap == Spec => []DanglesOnlyByOverlap
<1> QED
  BY DayInvariant, PTL DEF DayInv

(* No step takes a shift out of completed or auto_closed, or a visit out of
   completed, cancelled or missed.                                         *)
THEOREM ClosedFinal == Spec => ClosedIsFinal
<1>1. ASSUME DayInv, [Next]_vars
      PROVE  [/\ \A s \in Shifts : shift[s] \in Closed => shift'[s] = shift[s]
              /\ \A v \in Visits : visit[v] \in Ended => visit'[v] = visit[v]]_vars
  <2> DEFINE Stay == /\ \A s \in Shifts : shift[s] \in Closed => shift'[s] = shift[s]
                     /\ \A v \in Visits : visit[v] \in Ended => visit'[v] = visit[v]
  <2>0. /\ shift \in [Shifts -> {"absent", "scheduled", "active", "paused", "cancelled", "missed"} \union Closed]
        /\ visit \in [Visits -> {"absent", "planned", "in_progress"} \union Ended]
    BY <1>1 DEF DayInv, TypeOK
  <2>1. ASSUME NEW w \in Requests, Request(w) PROVE Stay
    <3>1. w \in Actors
      BY DEF Actors
    <3>2. CASE Pause(w)
      <4>1. task[w].shift \in Shifts /\ shift[task[w].shift] = "active"
        BY <1>1, <3>1, <3>2 DEF DayInv, Known, StopRead, Pause, PauseCurrent, Current
      <4> QED
        BY <2>0, <3>2, <4>1 DEF Pause, Closed
    <3>3. CASE Cancel(w)
      <4>1. /\ task[w].shift \in Shifts /\ shift[task[w].shift] = "scheduled"
            /\ \A v \in task[w].stuck : visit[v] = "planned"
        BY <1>1, <3>1, <3>3 DEF DayInv, Known, StopRead, Cancel, Current
      <4> QED
        BY <2>0, <3>3, <4>1 DEF Cancel, Closed, Ended
    <3>4. CASE Plan(w)
      BY <2>0, <3>4 DEF Plan, Ended
    <3>5. CASE StartVisit(w)
      <4>1. visit[task[w].other] \in {"absent", "planned"}
        BY <1>1, <3>1, <3>5 DEF DayInv, Known, VisitRead, StartVisit, Current
      <4> QED
        BY <2>0, <3>5, <4>1 DEF StartVisit, Ended
    <3>6. CASE UNCHANGED rows
      BY <3>6 DEF rows
    <3> QED
      BY <2>1, <3>2, <3>3, <3>4, <3>5, <3>6
         DEF Request, BeginPause, BeginCancel, BeginEnd, BeginViolation, BeginSupersede, BeginPlan, BeginVisit, Reads
  <2>2. ASSUME NEW a \in Actors, Collect(a) \/ Close(a) \/ Rollback(a) PROVE Stay
    <3>1. CASE Collect(a) \/ Rollback(a)
      BY <3>1 DEF Collect, Rollback, rows
    <3>2. CASE Close(a)
      <4> DEFINE t == task[a]
      <4>1. /\ t.shift \in Shifts /\ Open(t.shift) /\ t.other \in Shifts \union {none}
            /\ (t.other # none => shift[t.other] \in {"absent", "scheduled"})
            /\ \A v \in t.stuck : visit[v] = "in_progress"
            /\ \A s \in Shifts \ {t.shift, t.other} : shift'[s] = shift[s]
        BY <1>1, <3>2, Closes
      <4>2. visit' = [v \in Visits |-> IF v \in t.stuck THEN "cancelled" ELSE visit[v]]
        BY <3>2 DEF Close
      <4> HIDE DEF t
      <4>3. \A s \in Shifts : shift[s] \in Closed => s # t.shift /\ s # t.other
        BY <4>1, FieldDayAssumption DEF Open, Closed
      <4> QED
        BY <4>1, <4>2, <4>3 DEF Ended
    <3> QED
      BY <2>2, <3>1, <3>2
  <2>3. ASSUME NEW s \in Shifts, Schedule(s) \/ Start(s) \/ Resume(s) \/ EditShift(s) \/ MissShift(s) \/ Sweep(s)
        PROVE  Stay
    BY <2>0, <2>3 DEF Schedule, Start, Resume, EditShift, MissShift, Sweep, Reads, rows, Closed
  <2>4. ASSUME NEW v \in Visits, EditVisit(v) \/ EndVisit(v) \/ Deadlock(v) \/ CancelVisit(v) \/ MissVisit(v)
        PROVE  Stay
    <3>1. CASE EditVisit(v) \/ EndVisit(v) \/ CancelVisit(v) \/ MissVisit(v)
      BY <2>0, <3>1 DEF EditVisit, EndVisit, CancelVisit, MissVisit, rows, Ended
    <3>2. CASE Deadlock(v)
      <4>1. visit[v] \in {"planned", "in_progress"}
        <5>1. beat \in Actors /\ task[beat].at = "collected" /\ v \in task[beat].stuck /\ v \notin changed[beat]
          BY <3>2 DEF Deadlock, Current, Actors
        <5> QED
          BY <1>1, <5>1 DEF DayInv, Known, CloseRead, StopRead
      <4> QED
        BY <2>0, <3>2, <4>1 DEF Deadlock, Ended
    <3> QED
      BY <2>4, <3>1, <3>2
  <2> QED
    BY <1>1, <2>1, <2>2, <2>3, <2>4 DEF Next, vars, rows
<1> QED
  BY DayInvariant, <1>1, PTL DEF Spec, ClosedIsFinal

-----------------------------------------------------------------------------
(* SignIn: the users row is the lock of the sessions, although nobody asks  *)
(* for it as one: who has updated it is alone, and who has read it before   *)
(* another one's commit cannot update it any more.                          *)

Shape(w) ==
  /\ request[w].at \in {"flush", "list", "commit"} => request[w].todo = {}
  /\ request[w].op = "reset" => request[w].sid = nobody
  /\ request[w].op = "check" => request[w].sid \in Sids

\* Who revokes under the lock, or is about to commit what it guards, holds it.
Holds(w) ==
  /\ request[w].op \in Passwords \union {"otp"} /\ request[w].at \in {"list", "end", "commit"} => holder = w
  /\ request[w].op = "login" /\ request[w].at = "commit" => holder = w
  /\ holder = w => w \notin outdated

\* What a request has read still holds, unless its copy of the user is old.
Counted(w) ==
  \/ request[w].op = "login" /\ request[w].at \in {"end", "flush", "commit"}
  \/ request[w].op = "otp" /\ request[w].at \in {"end", "commit"}

Staying(w) == LiveSessions \ (request[w].todo \union request[w].ended)

UpToDate(w) ==
  w \notin outdated =>
    /\ request[w].op \in SignIns => request[w].proof = password
    /\ request[w].op = "otp" => opens = 0
    /\ request[w].op \in Passwords => password < MaxPasswords
    /\ Counted(w) => Cardinality(Staying(w)) < MaxLive

\* A new password spares at most the session that asked for it.
Spares(w) ==
  request[w].op \in Passwords /\ request[w].at \in {"end", "commit"} => Staying(w) \subseteq {request[w].sid}

Fits(w) == Shape(w) /\ Holds(w) /\ UpToDate(w) /\ Spares(w)

SignInInv ==
  /\ SignInTypeOK
  /\ \A w \in Clients : Fits(w)
  /\ code => opens = 0
  /\ SessionRuleHolds /\ OldSecretsOpenNothing

-----------------------------------------------------------------------------
(* Counting sessions. *)

LEMMA LiveFinite == \A S \in SUBSET Sids : IsFiniteSet(S) /\ Cardinality(S) \in Nat
BY FS_Subset, FS_CardinalityType, SignInAssumption

LEMMA CardLess ==
  ASSUME NEW S \in SUBSET Sids, NEW T \in SUBSET S
  PROVE  Cardinality(T) =< Cardinality(S)
BY LiveFinite, FS_Subset

(* A sign-in displaces enough to leave room for itself. *)
LEMMA Room ==
  ASSUME NEW d \in SUBSET LiveSessions, Displaced(d), SessionRuleHolds
  PROVE  Cardinality(LiveSessions \ d) < MaxLive
<1> DEFINE L == LiveSessions
<1>1. L \in SUBSET Sids /\ L \ d \in SUBSET Sids /\ L \intersect d = d
  BY DEF LiveSessions
<1>2. IsFiniteSet(L) /\ Cardinality(L) \in Nat /\ Cardinality(L \ d) \in Nat /\ Cardinality(d) \in Nat
  BY <1>1, LiveFinite
<1>3. Cardinality(L \ d) = Cardinality(L) - Cardinality(d)
  BY <1>1, <1>2, FS_Difference
<1> QED
  BY <1>2, <1>3, SignInAssumption DEF Displaced, SessionRuleHolds

(* The initial state satisfies the invariant. *)
LEMMA SignInInitInv == SignInInit => SignInInv
<1> SUFFICES ASSUME SignInInit PROVE SignInInv
  OBVIOUS
<1> USE SignInAssumption DEF SignInInit
<1>1. Cardinality(Sids) \in Nat /\ LiveSessions = {} /\ Cardinality({}) = 0
  BY LiveFinite, FS_EmptySet DEF LiveSessions
<1>2. NoRequest \in Requesting
  BY DEF NoRequest, Requesting, Updating, SignIns, Passwords
<1>3. code \in BOOLEAN
  BY Zenon
<1>4. SignInTypeOK
  BY <1>1, <1>2, <1>3 DEF SignInTypeOK
<1>5. ASSUME NEW w \in Clients PROVE Fits(w)
  BY <1>1 DEF Fits, Shape, Holds, UpToDate, Counted, Spares, NoRequest, SignIns, Passwords
<1>6. SessionRuleHolds /\ OldSecretsOpenNothing
  BY <1>1 DEF SessionRuleHolds, OldSecretsOpenNothing
<1> QED
  BY <1>3, <1>4, <1>5, <1>6 DEF SignInInv

-----------------------------------------------------------------------------
(* Requests that go on while nothing of a session, a code or the password changes. *)

\* The step of w that touches its own request and keys alone, or takes the lock.
Private(w) ==
  /\ UNCHANGED <<row, opened, rotated, password, code, opens>>
  /\ request' \in [Clients -> Requesting]
  /\ \A p \in Clients \ {w} : request'[p] = request[p]

LEMMA OthersFit ==
  ASSUME SignInInv, NEW w \in Clients, NEW p \in Clients \ {w}, Private(w),
         outdated' \subseteq outdated, p \in outdated => p \in outdated',
         holder' = holder \/ (p # holder' /\ p # holder)
  PROVE  Fits(p)'
BY DEF SignInInv, Private, Fits, Shape, Holds, UpToDate, Counted, Spares, Staying, LiveSessions

(* The invariant after a step of w that touches nothing but its request. *)
LEMMA PrivateKeeps ==
  ASSUME SignInInv, NEW w \in Clients, Private(w), Fits(w)',
         cached' \in [Sids -> {"none", "live", "revoked"}], crossed' \in SUBSET Sids,
         unwritten' \in SUBSET Sids,
         outdated' \subseteq outdated, \A p \in Clients \ {w} : p \in outdated => p \in outdated',
         holder' \in Clients \union {nobody},
         holder' = holder \/ (holder' = w /\ holder = nobody) \/ (holder' = nobody /\ holder = w)
  PROVE  SignInInv'
<1>2. SignInTypeOK'
  BY DEF SignInInv, SignInTypeOK, Private
<1>3. ASSUME NEW p \in Clients PROVE Fits(p)'
  <2>1. CASE p # w
    <3>1. holder' = holder \/ (p # holder' /\ p # holder)
      BY <2>1, SignInAssumption
    <3> QED
      BY <2>1, <3>1, OthersFit
  <2> QED
    BY <2>1
<1> QED
  BY <1>2, <1>3 DEF SignInInv, Private, SessionRuleHolds, OldSecretsOpenNothing, LiveSessions

-----------------------------------------------------------------------------
(* The beginnings of the requests. *)
LEMMA SignInBeginKeeps ==
  ASSUME SignInInv, NEW w \in Clients, NEW op \in Updating \union {"check"},
         NEW at \in {"read", "flush", "list"}, NEW s \in Sids \union {nobody}, Begins(w, op, at, s),
         op = "reset" => s = nobody, op = "check" => s \in Sids, op = "login" => at = "list",
         op \in Passwords \union {"otp"} => at = "flush",
         op = "otp" => code, op \in Passwords => password < MaxPasswords
  PROVE  SignInInv'
<1> USE DEF SignInInv, Begins
<1> DEFINE proof == IF op \in SignIns THEN password ELSE 0
           t == [NoRequest EXCEPT !.op = op, !.at = at, !.sid = s, !.proof = proof]
<1>4. request' = [request EXCEPT ![w] = t] /\ request \in [Clients -> Requesting]
  BY DEF SignInTypeOK
<1>2. proof \in 0 .. MaxPasswords /\ (op \in SignIns => proof = password)
  BY SignInAssumption DEF SignInTypeOK
<1> HIDE DEF proof
<1>1. t.op = op /\ t.at = at /\ t.sid = s /\ t.todo = {} /\ t.ended = {} /\ t.proof = proof
  BY DEF NoRequest
<1>3. t \in Requesting
  BY <1>2 DEF NoRequest, Requesting
<1> HIDE DEF t
<1>5. request'[w] = t /\ Private(w)
  BY <1>3, <1>4 DEF Private, sessionRows, user
<1>6. Fits(w)'
  <2>1. Shape(w)' /\ Spares(w)'
    BY <1>1, <1>5 DEF Shape, Spares, Passwords
  <2>2. Holds(w)'
    BY <1>1, <1>5 DEF Holds, Passwords, Fits
  <2>3. ~Counted(w)'
    BY <1>1, <1>5 DEF Counted
  <2>4. UpToDate(w)'
    BY <1>1, <1>2, <1>5, <2>3 DEF UpToDate, SignIns, Passwords, Private
  <2> QED
    BY <2>1, <2>2, <2>4 DEF Fits
<1>k. /\ cached' \in [Sids -> {"none", "live", "revoked"}] /\ crossed' \in SUBSET Sids
      /\ unwritten' \in SUBSET Sids /\ UNCHANGED outdated /\ holder' \in Clients \union {nobody}
      /\ (holder' = holder \/ (holder' = w /\ holder = nobody))
  BY DEF SignInTypeOK
<1> HIDE DEF SignInInv, Begins
<1> QED
  BY <1>5, <1>6, <1>k, PrivateKeeps

LEMMA SignInRequestsBegin ==
  ASSUME SignInInv, NEW w \in Clients,
         BeginSignIn(w) \/ BeginPassword(w) \/ BeginLogout(w) \/ \E s \in Sids : BeginCheck(w, s)
  PROVE  SignInInv'
<1> USE DEF Updating, SignIns, Passwords
<1>1. CASE BeginSignIn(w)
  BY <1>1, SignInBeginKeeps DEF BeginSignIn
<1>2. CASE BeginPassword(w)
  BY <1>2, SignInBeginKeeps DEF BeginPassword, LiveSessions
<1>3. CASE BeginLogout(w)
  BY <1>3, SignInBeginKeeps DEF BeginLogout
<1>4. ASSUME NEW s \in Sids, BeginCheck(w, s) PROVE SignInInv'
  BY <1>4, SignInBeginKeeps DEF BeginCheck
<1> QED
  BY <1>1, <1>2, <1>3, <1>4

(* A request goes on: the flush of the user, the list, a revocation, what follows. *)
LEMMA FlushKeeps == ASSUME SignInInv, NEW w \in Clients, FlushUser(w) PROVE SignInInv'
<1> USE DEF SignInInv, FlushUser
<1>1. request \in [Clients -> Requesting] /\ holder = nobody /\ holder' = w /\ w \notin outdated
  BY DEF SignInTypeOK, UserCurrent
<1>2. PICK at \in {"list", "commit"} :
        /\ request' = [request EXCEPT ![w].at = at]
        /\ at = "list" <=> request[w].op \in Passwords \union {"otp"}
  BY Zenon
<1>3. /\ request'[w] \in Requesting /\ request'[w].at = at /\ request'[w].op = request[w].op
      /\ request'[w].sid = request[w].sid /\ request'[w].proof = request[w].proof
      /\ request'[w].todo = request[w].todo /\ request'[w].ended = request[w].ended
  BY <1>1, <1>2 DEF Requesting
<1>4. Private(w)
  BY <1>1, <1>2, <1>3 DEF Private, sessionRows, user
<1>5. Fits(w)'
  <2>1. Shape(w)' /\ Spares(w)' /\ Holds(w)'
    BY <1>1, <1>2, <1>3 DEF Fits, Shape, Spares, Holds, Passwords
  <2>2. Counted(w)' => Counted(w)
    BY <1>2, <1>3 DEF Counted, Passwords
  <2>3. UpToDate(w)'
    BY <1>1, <1>2, <1>3, <1>4, <2>2 DEF Fits, UpToDate, Staying, LiveSessions, Private
  <2> QED
    BY <2>1, <2>3 DEF Fits
<1>k. /\ cached' \in [Sids -> {"none", "live", "revoked"}] /\ crossed' \in SUBSET Sids
      /\ unwritten' \in SUBSET Sids /\ UNCHANGED outdated /\ holder' \in Clients \union {nobody}
      /\ (holder' = holder \/ (holder' = w /\ holder = nobody))
  BY <1>1 DEF SignInTypeOK
<1> HIDE DEF SignInInv, FlushUser
<1> QED
  BY <1>4, <1>5, <1>k, PrivateKeeps

LEMMA ListKeeps == ASSUME SignInInv, NEW w \in Clients, List(w) PROVE SignInInv'
<1> USE DEF SignInInv, List
<1>1. request \in [Clients -> Requesting] /\ UNCHANGED <<holder, outdated>>
  BY DEF SignInTypeOK
<1>2. PICK d \in ToRevoke(w) : request' = [request EXCEPT ![w] = [request[w] EXCEPT !.at = "end", !.todo = d]]
  OBVIOUS
<1>3. d \in SUBSET LiveSessions /\ d \in SUBSET Sids
  BY <1>2 DEF ToRevoke, LiveSessions
<1>4. /\ request'[w] \in Requesting /\ request'[w].at = "end" /\ request'[w].op = request[w].op
      /\ request'[w].sid = request[w].sid /\ request'[w].proof = request[w].proof
      /\ request'[w].todo = d /\ request'[w].ended = request[w].ended
  BY <1>1, <1>2, <1>3 DEF Requesting
<1>5. Private(w)
  BY <1>1, <1>2, <1>4 DEF Private, sessionRows, user
<1>6. LiveSessions' = LiveSessions
  BY <1>5 DEF LiveSessions, Private
<1>7. Shape(w)' /\ Holds(w)'
  BY <1>1, <1>4 DEF Fits, Shape, Holds
<1>8. Spares(w)'
  BY <1>2, <1>4, <1>6 DEF Spares, Staying, ToRevoke, RevokeAll
<1>9. Counted(w)' => Cardinality(Staying(w)') < MaxLive
  <2> SUFFICES ASSUME Counted(w)' PROVE Cardinality(Staying(w)') < MaxLive
    OBVIOUS
  <2>1. request[w].op \in SignIns
    BY <1>4 DEF Counted, SignIns
  <2>2. Displaced(d)
    BY <1>2, <2>1 DEF ToRevoke
  <2>3. Cardinality(LiveSessions \ d) < MaxLive
    BY <1>3, <2>2, Room
  <2>4. Staying(w)' \subseteq LiveSessions \ d /\ LiveSessions \ d \in SUBSET Sids
    BY <1>4, <1>6 DEF Staying, LiveSessions
  <2>5. Cardinality(Staying(w)') =< Cardinality(LiveSessions \ d)
    BY <2>4, CardLess
  <2>6. Cardinality(Staying(w)') \in Nat /\ Cardinality(LiveSessions \ d) \in Nat
    BY <2>4, LiveFinite
  <2> QED
    BY <2>3, <2>5, <2>6, SignInAssumption
<1>10. UpToDate(w)'
  BY <1>1, <1>4, <1>5, <1>9 DEF Fits, UpToDate, Private
<1>k. /\ cached' \in [Sids -> {"none", "live", "revoked"}] /\ crossed' \in SUBSET Sids
      /\ unwritten' \in SUBSET Sids /\ UNCHANGED outdated /\ holder' \in Clients \union {nobody}
      /\ (holder' = holder \/ (holder' = w /\ holder = nobody))
  BY DEF SignInTypeOK
<1>11. Fits(w)'
  BY <1>7, <1>8, <1>10 DEF Fits
<1> HIDE DEF SignInInv, List
<1> QED
  BY <1>5, <1>11, <1>k, PrivateKeeps

LEMMA RevokeKeeps == ASSUME SignInInv, NEW w \in Clients, NEW s \in Sids, Revoke(w, s) PROVE SignInInv'
<1> USE DEF SignInInv, Revoke
<1>1. request \in [Clients -> Requesting] /\ UNCHANGED <<holder, outdated>>
  BY DEF SignInTypeOK
<1>2. request' = [request EXCEPT ![w] = [request[w] EXCEPT
                    !.todo = request[w].todo \ {s}, !.ended = request[w].ended \union {s}]]
  OBVIOUS
<1>3. request[w].todo \ {s} \in SUBSET Sids /\ request[w].ended \union {s} \in SUBSET Sids
  BY <1>1 DEF Requesting
<1>4. /\ request'[w] \in Requesting /\ request'[w].at = request[w].at /\ request'[w].op = request[w].op
      /\ request'[w].sid = request[w].sid /\ request'[w].proof = request[w].proof
      /\ request'[w].todo = request[w].todo \ {s} /\ request'[w].ended = request[w].ended \union {s}
  BY <1>1, <1>2, <1>3 DEF Requesting
<1>5. Private(w)
  BY <1>1, <1>2, <1>4 DEF Private, sessionRows, user
<1>6. Staying(w)' = Staying(w)
  BY <1>4, <1>5 DEF Staying, LiveSessions, Private
<1>7. Fits(w)'
  BY <1>1, <1>4, <1>5, <1>6 DEF Fits, Shape, Holds, UpToDate, Counted, Spares, Private
<1>8. /\ cached' \in [Sids -> {"none", "live", "revoked"}] /\ crossed' \in SUBSET Sids
      /\ unwritten' \in SUBSET Sids
  BY DEF SignInTypeOK, KeyAfterRevoke
<1>k. /\ UNCHANGED outdated /\ holder' \in Clients \union {nobody}
      /\ (holder' = holder \/ (holder' = w /\ holder = nobody))
  BY DEF SignInTypeOK
<1> HIDE DEF SignInInv, Revoke
<1> QED
  BY <1>5, <1>7, <1>8, <1>k, PrivateKeeps

LEMMA AfterKeeps == ASSUME SignInInv, NEW w \in Clients, AfterRevoking(w) PROVE SignInInv'
<1> USE DEF SignInInv, AfterRevoking
<1>1. request \in [Clients -> Requesting] /\ UNCHANGED <<holder, outdated>>
  BY DEF SignInTypeOK
<1>2. PICK at \in {"flush", "commit"} :
        /\ at = "flush" => request[w].op \in {"login", "logout"}
        /\ at = "commit" => request[w].op # "login"
        /\ request' = [request EXCEPT ![w].at = at]
  OBVIOUS
<1>3. /\ request'[w] \in Requesting /\ request'[w].at = at /\ request'[w].op = request[w].op
      /\ request'[w].sid = request[w].sid /\ request'[w].proof = request[w].proof
      /\ request'[w].todo = request[w].todo /\ request'[w].ended = request[w].ended
  BY <1>1, <1>2 DEF Requesting
<1>4. Private(w)
  BY <1>1, <1>2, <1>3 DEF Private, sessionRows, user
<1>5. Staying(w)' = Staying(w)
  BY <1>3, <1>4 DEF Staying, LiveSessions, Private
<1>6. Fits(w)'
  BY <1>1, <1>2, <1>3, <1>4, <1>5 DEF Fits, Shape, Holds, UpToDate, Counted, Spares, Private, Passwords
<1>k. /\ cached' \in [Sids -> {"none", "live", "revoked"}] /\ crossed' \in SUBSET Sids
      /\ unwritten' \in SUBSET Sids /\ UNCHANGED outdated /\ holder' \in Clients \union {nobody}
      /\ (holder' = holder \/ (holder' = w /\ holder = nobody))
  BY DEF SignInTypeOK
<1> HIDE DEF SignInInv, AfterRevoking
<1> QED
  BY <1>4, <1>6, <1>k, PrivateKeeps

-----------------------------------------------------------------------------
(* The ends of the requests. *)
LEMMA EndingKeeps ==
  ASSUME SignInInv, NEW w \in Clients, Abort(w) \/ FinishCheck(w)
  PROVE  SignInInv'
<1> USE DEF SignInInv, Ends
<1>1. /\ request' = [request EXCEPT ![w] = NoRequest] /\ request \in [Clients -> Requesting]
      /\ holder' = IF holder = w THEN nobody ELSE holder
      /\ outdated' = outdated \ {w}
      /\ UNCHANGED <<row, opened, rotated, password, code, opens>>
  BY DEF SignInTypeOK, Abort, FinishCheck, sessionRows, user
<1>2. NoRequest \in Requesting
  BY SignInAssumption DEF NoRequest, Requesting
<1>3. Private(w) /\ request'[w] = NoRequest
  BY <1>1, <1>2 DEF Private
<1>4. Fits(w)'
  BY <1>1, <1>3 DEF Fits, Shape, Holds, UpToDate, Counted, Spares, NoRequest, SignIns, Passwords
<1>5. cached' \in [Sids -> {"none", "live", "revoked"}] /\ unwritten' \in SUBSET Sids
  BY DEF SignInTypeOK, Abort, FinishCheck
<1>6. crossed' \in SUBSET Sids
  <2>1. CASE Abort(w)
    BY <2>1 DEF SignInTypeOK, Abort
  <2>2. CASE FinishCheck(w)
    <3>1. request[w].op = "check" /\ request[w] \in Requesting
      BY <2>2, <1>1 DEF FinishCheck
    <3>2. crossed' \subseteq crossed \union {request[w].sid} /\ crossed \subseteq Sids
      BY <2>2 DEF FinishCheck, SignInTypeOK
    <3>3. request[w].sid \in Sids
      BY <3>1 DEF Shape, Fits
    <3> QED
      BY <3>2, <3>3
  <2> QED
    BY <2>1, <2>2
<1>7. /\ outdated' \subseteq outdated /\ \A p \in Clients \ {w} : p \in outdated => p \in outdated'
      /\ holder' \in Clients \union {nobody}
      /\ holder' = holder \/ (holder' = nobody /\ holder = w)
  BY <1>1 DEF SignInTypeOK
<1> HIDE DEF SignInInv, Ends
<1> QED
  BY <1>3, <1>4, <1>5, <1>6, <1>7, PrivateKeeps

(* The commit: w holds the users row if it updated it, and then every other
   request that means to update the row is out of date.                     *)
LEMMA CommitKeeps == ASSUME SignInInv, NEW w \in Clients, CommitRequest(w) PROVE SignInInv'
<1> USE DEF SignInInv
<1> DEFINE t == request[w]
<1>1. /\ request \in [Clients -> Requesting] /\ t \in Requesting /\ t.at = "commit" /\ t.todo = {}
      /\ Fits(w)
  BY DEF SignInTypeOK, CommitRequest, Fits, Shape
<1>2. /\ request' = [request EXCEPT ![w] = NoRequest]
      /\ holder' = IF holder = w THEN nobody ELSE holder
      /\ outdated' = (IF holder = w THEN {b \in Clients : request[b].op \in Updating} ELSE outdated) \ {w}
      /\ UNCHANGED <<cached, crossed, unwritten>>
  BY DEF CommitRequest, Ends
<1>3. PICK s \in IF t.op \in SignIns THEN {x \in Sids : row[x] = "absent"} ELSE {nobody} :
        /\ row' = [x \in Sids |-> IF x = s THEN "live" ELSE IF x \in t.ended THEN "revoked" ELSE row[x]]
        /\ opened' = [x \in Sids |-> IF x = s THEN t.proof ELSE IF x \in t.ended THEN 0
                                     ELSE IF x \in Kept(t) THEN password + 1 ELSE opened[x]]
  BY DEF CommitRequest
<1>4. /\ password' = IF t.op \in Passwords THEN password + 1 ELSE password
      /\ code' = (code /\ t.op # "otp")
      /\ opens' = IF t.op = "otp" THEN opens + 1 ELSE opens
      /\ rotated' = rotated \ t.ended
  BY DEF CommitRequest
<1>5. t.op \in SignIns \union Passwords => holder = w /\ w \notin outdated
  BY <1>1 DEF Fits, Holds, SignIns
<1>6. t.ended \in SUBSET Sids /\ t.proof \in 0 .. MaxPasswords
  BY <1>1 DEF Requesting
<1>7. LiveSessions' \subseteq (LiveSessions \ t.ended) \union {s}
  BY <1>3 DEF LiveSessions
<1>8. t.op \notin SignIns => LiveSessions' \subseteq LiveSessions \ t.ended
  BY <1>3, SignInAssumption DEF LiveSessions
<1> HIDE DEF t
<1>9. SessionRuleHolds'
  <2>1. LiveSessions \in SUBSET Sids /\ LiveSessions' \in SUBSET Sids
    BY DEF LiveSessions
  <2>2. CASE t.op \in SignIns
    <3>1. Cardinality(LiveSessions \ t.ended) < MaxLive
      BY <1>1, <1>5, <2>2 DEF t, Fits, UpToDate, Counted, Staying, SignIns
    <3>2. IsFiniteSet(LiveSessions \ t.ended) /\ Cardinality(LiveSessions \ t.ended) \in Nat
      BY <2>1, LiveFinite
    <3>3. s \in Sids
      BY <1>3, <2>2
    <3>4. /\ Cardinality((LiveSessions \ t.ended) \union {s}) =< Cardinality(LiveSessions \ t.ended) + 1
          /\ Cardinality((LiveSessions \ t.ended) \union {s}) \in Nat
      <4>1. (LiveSessions \ t.ended) \union {s} \in SUBSET Sids
        BY <2>1, <3>3
      <4>2. Cardinality((LiveSessions \ t.ended) \union {s}) \in Nat
        BY <4>1, LiveFinite
      <4>3. Cardinality((LiveSessions \ t.ended) \union {s})
              = IF s \in LiveSessions \ t.ended THEN Cardinality(LiveSessions \ t.ended)
                ELSE Cardinality(LiveSessions \ t.ended) + 1
        BY <3>2, FS_AddElement
      <4> QED
        BY <3>2, <4>2, <4>3
    <3>5. Cardinality(LiveSessions') =< Cardinality((LiveSessions \ t.ended) \union {s})
      BY <1>7, <2>1, <3>3, CardLess
    <3>6. Cardinality(LiveSessions') \in Nat
      BY <2>1, LiveFinite
    <3> QED
      BY <3>1, <3>2, <3>4, <3>5, <3>6, SignInAssumption DEF SessionRuleHolds
  <2>3. CASE t.op \notin SignIns
    <3>1. Cardinality(LiveSessions') =< Cardinality(LiveSessions)
      BY <1>8, <2>1, <2>3, CardLess
    <3>2. Cardinality(LiveSessions') \in Nat /\ Cardinality(LiveSessions) \in Nat
      BY <2>1, LiveFinite
    <3> QED
      BY <3>1, <3>2, SignInAssumption DEF SessionRuleHolds
  <2> QED
    BY <2>2, <2>3
<1>10. \A x \in LiveSessions' : opened'[x] = password'
  <2>1. CASE t.op \in SignIns
    <3>1. t.proof = password /\ password' = password /\ Kept(t) = {}
      BY <1>1, <1>4, <1>5, <2>1 DEF t, Fits, UpToDate, SignIns, Passwords, Kept
    <3> QED
      BY <1>3, <1>7, <3>1 DEF OldSecretsOpenNothing, LiveSessions
  <2>2. CASE t.op \in Passwords
    <3>1. LiveSessions \ t.ended \subseteq {t.sid}
      BY <1>1, <2>2 DEF t, Fits, Spares, Staying
    <3>2. t.op = "reset" => t.sid = nobody
      BY <1>1 DEF t, Fits, Shape
    <3>3. password' = password + 1 /\ t.op \notin SignIns
      BY <1>4, <2>2 DEF SignIns, Passwords
    <3>4. ASSUME NEW x \in LiveSessions' PROVE x \in Kept(t) /\ x \notin t.ended
      <4>1. x \in LiveSessions /\ x \notin t.ended /\ x = t.sid /\ x \in Sids
        BY <1>8, <3>1, <3>3 DEF LiveSessions
      <4> QED
        BY <4>1, <2>2, <3>2, SignInAssumption DEF Kept, Passwords
    <3> QED
      BY <1>3, <3>3, <3>4, SignInAssumption DEF LiveSessions
  <2>3. CASE t.op \notin SignIns \union Passwords
    <3>1. password' = password /\ Kept(t) = {}
      BY <1>4, <2>3 DEF Passwords, Kept
    <3> QED
      BY <1>3, <1>8, <2>3, <3>1, SignInAssumption DEF OldSecretsOpenNothing, LiveSessions
  <2> QED
    BY <2>1, <2>2, <2>3
<1>11. /\ opens' =< 1 /\ (code' => opens' = 0) /\ code' \in BOOLEAN
       /\ opens' \in Nat /\ (t.op = "otp" => opens' = 1) /\ (t.op # "otp" => opens' = opens)
  <2>1. t.op = "otp" => opens = 0
    BY <1>1, <1>5 DEF t, Fits, UpToDate, SignIns
  <2>2. opens \in Nat /\ code \in BOOLEAN
    BY LiveFinite DEF SignInTypeOK
  <2>3. code' \in BOOLEAN
    BY <1>4, Zenon
  <2>4. code' => code /\ t.op # "otp"
    BY <1>4, Zenon
  <2> QED
    BY <1>4, <2>1, <2>2, <2>3, <2>4 DEF OldSecretsOpenNothing
<1>12. SignInTypeOK'
  <2>1. password \in 1 .. MaxPasswords /\ (t.op \in Passwords => password < MaxPasswords)
    BY <1>1, <1>5 DEF t, Fits, UpToDate, SignInTypeOK
  <2>2. password' \in 1 .. MaxPasswords /\ password + 1 \in Nat
        /\ (t.op \in Passwords => password + 1 \in 0 .. MaxPasswords)
    BY <1>4, <2>1, SignInAssumption
  <2>3. opened' \in [Sids -> 0 .. MaxPasswords]
    <3>1. opened \in [Sids -> 0 .. MaxPasswords] /\ 0 \in 0 .. MaxPasswords
      BY SignInAssumption DEF SignInTypeOK
    <3>2. Kept(t) # {} => password + 1 \in 0 .. MaxPasswords
      BY <2>2 DEF Kept, Passwords
    <3> QED
      BY <1>3, <1>6, <3>1, <3>2
  <2>4. row' \in [Sids -> {"absent", "live", "revoked"}]
    BY <1>3 DEF SignInTypeOK
  <2>5. opens' \in 0 .. Cardinality(Sids)
    <3>1. CASE t.op = "otp"
      <4>1. s \in Sids
        BY <1>3, <3>1 DEF SignIns
      <4>2. Cardinality(Sids) \in Nat /\ Cardinality(Sids) # 0
        BY <4>1, LiveFinite, FS_EmptySet
      <4> QED
        BY <1>11, <3>1, <4>2
    <3>2. CASE t.op # "otp"
      BY <1>11, <3>2 DEF SignInTypeOK
    <3> QED
      BY <3>1, <3>2
  <2>6. request' \in [Clients -> Requesting]
    <3>1. NoRequest \in Requesting
      BY SignInAssumption DEF NoRequest, Requesting
    <3> QED
      BY <1>1, <1>2, <3>1
  <2>7. holder' \in Clients \union {nobody} /\ outdated' \in SUBSET Clients
    BY <1>2 DEF SignInTypeOK
  <2>8. rotated' \in SUBSET Sids
    BY <1>4 DEF SignInTypeOK
  <2> QED
    BY <1>2, <1>11, <2>2, <2>3, <2>4, <2>5, <2>6, <2>7, <2>8 DEF SignInTypeOK
<1>13. ASSUME NEW p \in Clients PROVE Fits(p)'
  <2>1. CASE p = w
    <3>1. request'[w] = NoRequest /\ holder' # w
      BY <1>1, <1>2, SignInAssumption
    <3> QED
      BY <2>1, <3>1 DEF Fits, Shape, Holds, UpToDate, Counted, Spares, NoRequest, SignIns, Passwords
  <2>2. CASE p # w
    <3>1. request'[p] = request[p] /\ Fits(p)
      BY <1>1, <1>2, <2>2
    <3>2. Shape(p)'
      BY <3>1 DEF Fits, Shape
    <3>3. Holds(p)'
      <4>1. holder = w => holder' # p
        BY <1>2, <2>2, SignInAssumption
      <4>2. holder = w => /\ ~(request[p].op \in Passwords \union {"otp"} /\ request[p].at \in {"list", "end", "commit"})
                          /\ ~(request[p].op = "login" /\ request[p].at = "commit")
        BY <2>2, <3>1 DEF Fits, Holds
      <4>3. holder # w => holder' = holder /\ (p \in outdated' <=> p \in outdated)
        BY <1>2, <2>2
      <4> QED
        BY <3>1, <4>1, <4>2, <4>3 DEF Fits, Holds
    <3>4. UpToDate(p)'
      <4>1. CASE holder = w
        <5>1. request[p].op \in Updating => p \in outdated'
          BY <1>2, <2>2, <4>1
        <5>2. request[p].op \in SignIns \union Passwords \union {"login", "otp"} => p \in outdated'
          BY <5>1 DEF Updating, SignIns
        <5> QED
          BY <3>1, <5>2 DEF UpToDate, Counted, SignIns
      <4>2. CASE holder # w
        <5>1. /\ password' = password /\ opens' = opens /\ t.op \notin SignIns
              /\ (p \in outdated' <=> p \in outdated)
          BY <1>2, <1>4, <1>5, <2>2, <4>2 DEF SignIns
        <5>2. Staying(p)' \subseteq Staying(p) /\ Staying(p) \in SUBSET Sids
          BY <1>8, <3>1, <5>1 DEF Staying, LiveSessions
        <5>3. /\ Cardinality(Staying(p)') =< Cardinality(Staying(p))
              /\ Cardinality(Staying(p)') \in Nat /\ Cardinality(Staying(p)) \in Nat
          BY <5>2, CardLess, LiveFinite
        <5>4. Counted(p)' <=> Counted(p)
          BY <3>1 DEF Counted
        <5> QED
          BY <3>1, <5>1, <5>3, <5>4, SignInAssumption DEF Fits, UpToDate
      <4> QED
        BY <4>1, <4>2
    <3>5. Spares(p)'
      <4>1. CASE t.op \in SignIns
        <5>1. ~(request[p].op \in Passwords /\ request[p].at \in {"end", "commit"})
          BY <1>5, <2>2, <3>1, <4>1 DEF Fits, Holds
        <5> QED
          BY <3>1, <5>1 DEF Spares
      <4>2. CASE t.op \notin SignIns
        <5>1. Staying(p)' \subseteq Staying(p)
          BY <1>8, <3>1, <4>2 DEF Staying
        <5> QED
          BY <3>1, <5>1 DEF Fits, Spares
      <4> QED
        BY <4>1, <4>2
    <3> QED
      BY <3>2, <3>3, <3>4, <3>5 DEF Fits
  <2> QED
    BY <2>1, <2>2
<1> QED
  BY <1>9, <1>10, <1>11, <1>12, <1>13 DEF OldSecretsOpenNothing

(* Codes, checks, expiry and rotation: what moves without a request of this model. *)
LEMMA OthersKeep ==
  ASSUME SignInInv,
         SendCode \/ \E s \in Sids : CheckRevoked(s) \/ KeyExpires(s) \/ Rotate(s) \/ Reuse(s)
  PROVE  SignInInv'
<1> USE DEF SignInInv
<1>1. UNCHANGED <<row, opened, password, holder, outdated, request>>
  BY DEF SendCode, CheckRevoked, KeyExpires, Rotate, Reuse, sessionRows, user
<1>2. opens' = opens \/ opens' = 0
  BY DEF SendCode, CheckRevoked, KeyExpires, Rotate, Reuse, user
<1>3. \A w \in Clients : Fits(w)'
  BY <1>1, <1>2 DEF Fits, Shape, Holds, UpToDate, Counted, Spares, Staying, LiveSessions
<1>4. code' => opens' = 0
  BY Zenon DEF SendCode, CheckRevoked, KeyExpires, Rotate, Reuse, user
<1>5. SessionRuleHolds' /\ OldSecretsOpenNothing'
  BY <1>1, <1>2 DEF SessionRuleHolds, OldSecretsOpenNothing, LiveSessions
<1>6. SignInTypeOK'
  <2>1. code' \in BOOLEAN
    BY Zenon DEF SignInTypeOK, SendCode, CheckRevoked, KeyExpires, Rotate, Reuse, user
  <2>2. cached' \in [Sids -> {"none", "live", "revoked"}]
    BY DEF SignInTypeOK, SendCode, CheckRevoked, KeyExpires, Rotate, Reuse
  <2>3. rotated' \in SUBSET Sids /\ crossed' \in SUBSET Sids /\ unwritten' \in SUBSET Sids
    BY DEF SignInTypeOK, SendCode, CheckRevoked, KeyExpires, Rotate, Reuse, sessionRows
  <2>4. opens' \in 0 .. Cardinality(Sids)
    BY <1>2, LiveFinite DEF SignInTypeOK
  <2> QED
    BY <1>1, <2>1, <2>2, <2>3, <2>4 DEF SignInTypeOK
<1> QED
  BY <1>3, <1>4, <1>5, <1>6

(* Every step keeps the invariant. *)
LEMMA SignInStepInv == SignInInv /\ [SignInNext]_signInVars => SignInInv'
<1> SUFFICES ASSUME SignInInv, [SignInNext]_signInVars PROVE SignInInv'
  OBVIOUS
<1>1. CASE UNCHANGED signInVars
  BY <1>1 DEF SignInInv, SignInTypeOK, Fits, Shape, Holds, UpToDate, Counted, Spares, Staying, LiveSessions,
              SessionRuleHolds, OldSecretsOpenNothing, signInVars
<1>2. ASSUME NEW w \in Clients,
             \/ BeginSignIn(w) \/ BeginPassword(w) \/ BeginLogout(w) \/ \E s \in Sids : BeginCheck(w, s)
      PROVE  SignInInv'
  BY <1>2, SignInRequestsBegin
<1>3. ASSUME NEW w \in Clients,
             FlushUser(w) \/ List(w) \/ AfterRevoking(w) \/ \E s \in Sids : Revoke(w, s)
      PROVE  SignInInv'
  BY <1>3, FlushKeeps, ListKeeps, AfterKeeps, RevokeKeeps
<1>4. ASSUME NEW w \in Clients, CommitRequest(w) \/ Abort(w) \/ FinishCheck(w) PROVE SignInInv'
  BY <1>4, CommitKeeps, EndingKeeps
<1>5. CASE SendCode \/ \E s \in Sids : CheckRevoked(s) \/ KeyExpires(s) \/ Rotate(s) \/ Reuse(s)
  BY <1>5, OthersKeep
<1> QED
  BY <1>1, <1>2, <1>3, <1>4, <1>5 DEF SignInNext

(* The inductive invariant holds in every reachable state. *)
THEOREM SignInInvariant == SignInSpec => []SignInInv
<1>1. SignInInit => SignInInv
  BY SignInInitInv
<1>2. SignInInv /\ [SignInNext]_signInVars => SignInInv'
  BY SignInStepInv
<1> QED
  BY <1>1, <1>2, PTL DEF SignInSpec

(* However many sign-ins overlap, a user never has more live sessions than the rule
   of sessions.py allows, although start() counts them without a lock.       *)
THEOREM SessionRule == SignInSpec => []SessionRuleHolds
<1>1. SignInInv => SessionRuleHolds
  BY DEF SignInInv
<1> QED
  BY <1>1, SignInInvariant, PTL

(* No live session rests on a password or a one-time code that is no longer valid,
   whatever order the sign-ins, changes and sign-outs commit in.             *)
THEOREM OldSecrets == SignInSpec => []OldSecretsOpenNothing
<1>1. SignInInv => OldSecretsOpenNothing
  BY DEF SignInInv
<1> QED
  BY <1>1, SignInInvariant, PTL

-----------------------------------------------------------------------------
(* The keys of the sessions that are being ended, from revoke() to the commit. *)

Caused == crossed \union unwritten
KeysOfEnded == \A s \in Sids : Ending(s) /\ cached[s] = "live" => s \in Caused

\* A step that ends no session and makes no key say live keeps them.
LEMMA NoNewKey ==
  ASSUME KeysOfEnded,
         \A s \in Sids : Ending(s)' => Ending(s),
         \A s \in Sids : cached'[s] = "live" => cached[s] = "live" /\ (s \in Caused => s \in Caused')
  PROVE  KeysOfEnded'
BY DEF KeysOfEnded

LEMMA KeysInit == SignInInit => KeysOfEnded
BY DEF SignInInit, KeysOfEnded, Caused

LEMMA KeysStep == SignInInv /\ KeysOfEnded /\ [SignInNext]_signInVars => KeysOfEnded'
<1> SUFFICES ASSUME SignInInv, KeysOfEnded, [SignInNext]_signInVars PROVE KeysOfEnded'
  OBVIOUS
<1>1. /\ request \in [Clients -> Requesting]
      /\ cached \in [Sids -> {"none", "live", "revoked"}] /\ row \in [Sids -> {"absent", "live", "revoked"}]
  BY DEF SignInInv, SignInTypeOK
<1>2. NoRequest.ended = {}
  BY DEF NoRequest
<1>3. CASE UNCHANGED signInVars
  BY <1>3 DEF signInVars, KeysOfEnded, Ending, Caused
<1>4. ASSUME NEW w \in Clients, NEW op, NEW at, NEW s \in Sids \union {nobody}, Begins(w, op, at, s)
      PROVE  KeysOfEnded'
  <2>1. request'[w].ended = {} /\ \A b \in Clients \ {w} : request'[b] = request[b]
    BY <1>1, <1>4 DEF Begins, NoRequest
  <2>2. UNCHANGED <<row, cached, Caused>>
    BY <1>4 DEF Begins, sessionRows, Caused
  <2>3. \A x \in Sids : Ending(x)' => Ending(x)
    BY <2>1, <2>2 DEF Ending
  <2> QED
    BY <2>2, <2>3, NoNewKey
<1>5. ASSUME NEW w \in Clients, BeginSignIn(w) \/ BeginPassword(w) \/ BeginLogout(w) PROVE KeysOfEnded'
  <2>1. \E op, at : \E s \in Sids \union {nobody} : Begins(w, op, at, s)
    BY <1>5 DEF BeginSignIn, BeginPassword, BeginLogout, LiveSessions
  <2> QED
    BY <1>4, <2>1
<1>6. ASSUME NEW w \in Clients, NEW s \in Sids, BeginCheck(w, s) PROVE KeysOfEnded'
  BY <1>4, <1>6 DEF BeginCheck
<1>7. ASSUME NEW w \in Clients, FlushUser(w) \/ List(w) \/ AfterRevoking(w) PROVE KeysOfEnded'
  <2>1. \A b \in Clients : request'[b].ended = request[b].ended
    <3>1. CASE FlushUser(w)
      BY <1>1, <3>1 DEF FlushUser, Requesting
    <3>2. CASE List(w)
      BY <1>1, <3>2 DEF List, Requesting
    <3>3. CASE AfterRevoking(w)
      BY <1>1, <3>3 DEF AfterRevoking, Requesting
    <3> QED
      BY <1>7, <3>1, <3>2, <3>3
  <2>2. UNCHANGED <<row, cached, Caused>>
    BY <1>7 DEF FlushUser, List, AfterRevoking, sessionRows, Caused
  <2>3. \A x \in Sids : Ending(x)' => Ending(x)
    BY <2>1, <2>2 DEF Ending
  <2> QED
    BY <2>2, <2>3, NoNewKey
<1>8. ASSUME NEW w \in Clients, NEW s \in Sids, Revoke(w, s) PROVE KeysOfEnded'
  <2>1. request'[w].ended = request[w].ended \union {s} /\ \A b \in Clients \ {w} : request'[b] = request[b]
    BY <1>1, <1>8 DEF Revoke, Requesting
  <2>2. \A x \in Sids \ {s} : Ending(x)' => Ending(x)
    BY <1>8, <2>1 DEF Ending, Revoke, sessionRows
  <2>3. /\ \A x \in Sids \ {s} : cached'[x] = cached[x] /\ (x \in Caused => x \in Caused')
        /\ cached'[s] = "live" => s \in Caused'
    <3>1. CASE /\ cached' = [cached EXCEPT ![s] = KeyAfterRevoke(s)]
               /\ crossed' = crossed \ {s} /\ unwritten' = unwritten \ {s}
      BY <1>1, <3>1 DEF Caused, KeyAfterRevoke
    <3>2. CASE /\ unwritten' = unwritten \union (IF cached[s] = "live" THEN {s} ELSE {})
               /\ UNCHANGED <<cached, crossed>>
      BY <3>2 DEF Caused
    <3> QED
      BY <1>8, <3>1, <3>2 DEF Revoke
  <2> QED
    BY <2>2, <2>3 DEF KeysOfEnded
<1>9. ASSUME NEW w \in Clients, CommitRequest(w) PROVE KeysOfEnded'
  <2>1. request'[w].ended = {} /\ \A b \in Clients \ {w} : request'[b] = request[b]
    BY <1>1, <1>2, <1>9 DEF CommitRequest, Ends
  <2>2. UNCHANGED <<cached, Caused>>
    BY <1>9 DEF CommitRequest, Caused
  <2>3. \A x \in Sids : row'[x] = "revoked" => row[x] = "revoked" \/ x \in request[w].ended
    BY <1>9 DEF CommitRequest
  <2>4. \A x \in Sids : Ending(x)' => Ending(x)
    BY <2>1, <2>3 DEF Ending
  <2> QED
    BY <2>2, <2>4, NoNewKey
<1>10. ASSUME NEW w \in Clients, Abort(w) PROVE KeysOfEnded'
  <2>1. request'[w].ended = {} /\ \A b \in Clients \ {w} : request'[b] = request[b]
    BY <1>1, <1>2, <1>10 DEF Abort, Ends
  <2>2. UNCHANGED <<row, cached, Caused>>
    BY <1>10 DEF Abort, sessionRows, Caused
  <2>3. \A x \in Sids : Ending(x)' => Ending(x)
    BY <2>1, <2>2 DEF Ending
  <2> QED
    BY <2>2, <2>3, NoNewKey
<1>11. ASSUME NEW w \in Clients, FinishCheck(w) PROVE KeysOfEnded'
  <2> DEFINE s == request[w].sid
  <2>1. request'[w].ended = {} /\ \A b \in Clients \ {w} : request'[b] = request[b]
    BY <1>1, <1>2, <1>11 DEF FinishCheck, Ends
  <2>2. /\ crossed' = (IF Ending(s) THEN crossed \union {s} ELSE crossed)
        /\ cached' = [cached EXCEPT ![s] = "live"] /\ UNCHANGED row
    BY <1>11 DEF FinishCheck, sessionRows
  <2>3. \A x \in Sids : Ending(x)' => Ending(x)
    BY <2>1, <2>2 DEF Ending
  <2>4. /\ \A x \in Sids \ {s} : cached'[x] = cached[x] /\ (x \in Caused => x \in Caused')
        /\ Ending(s) => s \in Caused'
    BY <1>1, <1>11, <2>2 DEF FinishCheck, Caused
  <2> QED
    BY <2>3, <2>4 DEF KeysOfEnded
<1>12. CASE SendCode \/ \E s \in Sids : CheckRevoked(s) \/ KeyExpires(s) \/ Rotate(s) \/ Reuse(s)
  <2>1. UNCHANGED <<row, request>>
    BY <1>12 DEF SendCode, CheckRevoked, KeyExpires, Rotate, Reuse, sessionRows
  <2>2. \A x \in Sids : Ending(x)' => Ending(x)
    BY <2>1 DEF Ending
  <2>3. \A x \in Sids : cached'[x] = "live" => cached[x] = "live" /\ (x \in Caused => x \in Caused')
    BY <1>1, <1>12 DEF SendCode, CheckRevoked, KeyExpires, Rotate, Reuse, Caused
  <2> QED
    BY <2>2, <2>3, NoNewKey
<1> QED
  BY <1>3, <1>5, <1>6, <1>7, <1>8, <1>9, <1>10, <1>11, <1>12 DEF SignInNext

(* The key of a revoked session says live only if a check that had read the row
   before the commit wrote it after revoke(), or Redis failed at revoke().   *)
THEOREM SeenLive == SignInSpec => []SeenLiveOnlyByCause
<1>1. SignInInit => KeysOfEnded
  BY KeysInit
<1>2. SignInInv /\ KeysOfEnded /\ [SignInNext]_signInVars => KeysOfEnded'
  BY KeysStep
<1>3. KeysOfEnded => SeenLiveOnlyByCause
  BY DEF KeysOfEnded, SeenLiveOnlyByCause, Ending, Caused
<1> QED
  BY <1>1, <1>2, <1>3, SignInInvariant, PTL DEF SignInSpec

-----------------------------------------------------------------------------
(* The sessions of the user as SessionBook has them: a request has listed   *)
(* rows that exist, a new password not its own, and a code is there until   *)
(* another request that rests on it commits.                                *)

Listed(w) == request[w].todo \union request[w].ended

Rightful(w) ==
  /\ Listed(w) \subseteq Used
  /\ request[w].op \in Passwords => request[w].sid \notin Listed(w)
  /\ w \notin outdated /\ request[w].op = "otp" => code

BookInv == \A w \in Clients : Rightful(w)

LEMMA BookInvInit == SignInInit => BookInv
BY DEF SignInInit, BookInv, Rightful, Listed, NoRequest, Passwords

\* A step of w that ends no code and no other request's copy of the user.
LEMMA FairKept ==
  ASSUME BookInv, NEW w \in Clients, Rightful(w)', UNCHANGED <<row, code>>,
         \A p \in Clients \ {w} : request'[p] = request[p] /\ (p \in outdated => p \in outdated')
  PROVE  BookInv'
BY DEF BookInv, Rightful, Listed, Used

LEMMA BookInvStep == SignInInv /\ BookInv /\ [SignInNext]_signInVars => BookInv'
<1> SUFFICES ASSUME SignInInv, BookInv, [SignInNext]_signInVars PROVE BookInv'
  OBVIOUS
<1>1. request \in [Clients -> Requesting] /\ row \in [Sids -> {"absent", "live", "revoked"}]
  BY DEF SignInInv, SignInTypeOK
<1>2. NoRequest.op = "none" /\ NoRequest.todo = {} /\ NoRequest.ended = {}
  BY DEF NoRequest
<1>3. CASE UNCHANGED signInVars
  BY <1>3 DEF signInVars, BookInv, Rightful, Listed, Used
<1>4. ASSUME NEW w \in Clients, NEW op, NEW at, NEW s \in Sids \union {nobody}, Begins(w, op, at, s), op = "otp" => code
      PROVE  BookInv'
  <2>1. /\ request'[w].op = op /\ request'[w].todo = {} /\ request'[w].ended = {}
        /\ \A p \in Clients \ {w} : request'[p] = request[p]
    BY <1>1, <1>4 DEF Begins, NoRequest
  <2>2. UNCHANGED <<row, code, outdated>>
    BY <1>4 DEF Begins, sessionRows, user
  <2>3. Rightful(w)'
    BY <1>4, <2>1, <2>2 DEF Rightful, Listed
  <2> QED
    BY <2>1, <2>2, <2>3, FairKept
<1>5. ASSUME NEW w \in Clients, BeginSignIn(w) \/ BeginPassword(w) \/ BeginLogout(w) PROVE BookInv'
  <2>1. \E op, at : \E s \in Sids \union {nobody} : Begins(w, op, at, s) /\ (op = "otp" => code)
    BY <1>5 DEF BeginSignIn, BeginPassword, BeginLogout, LiveSessions
  <2> QED
    BY <1>4, <2>1
<1>6. ASSUME NEW w \in Clients, NEW s \in Sids, BeginCheck(w, s) PROVE BookInv'
  BY <1>4, <1>6 DEF BeginCheck
<1>7. ASSUME NEW w \in Clients, FlushUser(w) \/ AfterRevoking(w) PROVE BookInv'
  <2>1. PICK at : request' = [request EXCEPT ![w].at = at]
    BY <1>7 DEF FlushUser, AfterRevoking
  <2>2. /\ \A p \in Clients \ {w} : request'[p] = request[p]
        /\ request'[w].op = request[w].op /\ request'[w].sid = request[w].sid
        /\ request'[w].todo = request[w].todo /\ request'[w].ended = request[w].ended
    BY <1>1, <2>1 DEF Requesting
  <2>3. UNCHANGED <<row, code, outdated>>
    BY <1>7 DEF FlushUser, AfterRevoking, sessionRows, user
  <2>4. Rightful(w)'
    BY <2>2, <2>3 DEF BookInv, Rightful, Listed, Used
  <2> QED
    BY <2>2, <2>3, <2>4, FairKept
<1>8. ASSUME NEW w \in Clients, List(w) PROVE BookInv'
  <2>1. PICK d \in ToRevoke(w) : request' = [request EXCEPT ![w] = [@ EXCEPT !.at = "end", !.todo = d]]
    BY <1>8 DEF List
  <2>2. /\ \A p \in Clients \ {w} : request'[p] = request[p]
        /\ request'[w].op = request[w].op /\ request'[w].sid = request[w].sid
        /\ request'[w].todo = d /\ request'[w].ended = request[w].ended
    BY <1>1, <2>1 DEF Requesting
  <2>3. UNCHANGED <<row, code, outdated>>
    BY <1>8 DEF List, sessionRows, user
  <2>4. d \subseteq Used /\ (request[w].op \in Passwords => request[w].sid \notin d)
    BY DEF ToRevoke, RevokeAll, Used, LiveSessions
  <2>5. Rightful(w)'
    BY <2>2, <2>3, <2>4 DEF BookInv, Rightful, Listed, Used
  <2> QED
    BY <2>2, <2>3, <2>5, FairKept
<1>9. ASSUME NEW w \in Clients, NEW s \in Sids, Revoke(w, s) PROVE BookInv'
  <2>1. /\ \A p \in Clients \ {w} : request'[p] = request[p]
        /\ request'[w].op = request[w].op /\ request'[w].sid = request[w].sid
        /\ request'[w].todo = request[w].todo \ {s} /\ request'[w].ended = request[w].ended \union {s}
    BY <1>1, <1>9 DEF Revoke, Requesting
  <2>2. UNCHANGED <<row, code, outdated>> /\ s \in request[w].todo
    BY <1>9 DEF Revoke, sessionRows, user
  <2>3. Listed(w)' = Listed(w)
    BY <2>1, <2>2 DEF Listed
  <2>4. Rightful(w)'
    BY <2>1, <2>2, <2>3 DEF BookInv, Rightful, Used
  <2> QED
    BY <2>1, <2>2, <2>4, FairKept
<1>10. ASSUME NEW w \in Clients, Abort(w) \/ FinishCheck(w) PROVE BookInv'
  <2>1. request'[w] = NoRequest /\ \A p \in Clients \ {w} : request'[p] = request[p]
    BY <1>1, <1>10 DEF Abort, FinishCheck, Ends
  <2>2. UNCHANGED <<row, code>> /\ outdated' = outdated \ {w}
    BY <1>10 DEF Abort, FinishCheck, Ends, sessionRows, user
  <2>3. Rightful(w)'
    BY <1>2, <2>1 DEF Rightful, Listed, Passwords
  <2> QED
    BY <2>1, <2>2, <2>3, FairKept
<1>11. ASSUME NEW w \in Clients, CommitRequest(w) PROVE BookInv'
  <2>1. request'[w] = NoRequest /\ \A p \in Clients \ {w} : request'[p] = request[p]
    BY <1>1, <1>11 DEF CommitRequest, Ends
  <2>2. outdated' = (IF holder = w THEN {b \in Clients : request[b].op \in Updating} ELSE outdated) \ {w}
    BY <1>11 DEF CommitRequest, Ends
  <2>3. code' = (code /\ request[w].op # "otp")
    BY <1>11 DEF CommitRequest
  <2>4. \A x \in Sids : row'[x] = "absent" => row[x] = "absent"
    BY <1>11 DEF CommitRequest
  <2>5. Used \subseteq Used'
    BY <2>4 DEF Used
  <2>6. Rightful(w)'
    BY <1>2, <2>1 DEF Rightful, Listed, Passwords
  <2>7. ASSUME NEW p \in Clients \ {w} PROVE Rightful(p)'
    <3>1. request'[p] = request[p] /\ Rightful(p)
      BY <2>1 DEF BookInv
    <3>2. ASSUME p \notin outdated', request[p].op = "otp" PROVE code'
      <4>1. request[p].op \in Updating
        BY <3>2 DEF Updating, SignIns
      <4>2. holder # w /\ p \notin outdated
        BY <2>2, <3>2, <4>1
      <4>3. code
        BY <3>1, <3>2, <4>2 DEF Rightful
      <4>4. request[w].op # "otp"
        BY <1>11, <4>2 DEF SignInInv, Fits, Holds, CommitRequest
      <4> QED
        BY <2>3, <4>3, <4>4
    <3> QED
      BY <2>5, <3>1, <3>2 DEF Rightful, Listed
  <2> QED
    BY <2>6, <2>7 DEF BookInv
<1>12. CASE SendCode \/ \E s \in Sids : CheckRevoked(s) \/ KeyExpires(s) \/ Rotate(s) \/ Reuse(s)
  <2>1. UNCHANGED <<row, request, outdated>>
    BY <1>12 DEF SendCode, CheckRevoked, KeyExpires, Rotate, Reuse, sessionRows
  <2>2. code => code'
    BY <1>12 DEF SendCode, CheckRevoked, KeyExpires, Rotate, Reuse, user
  <2> QED
    BY <2>1, <2>2 DEF BookInv, Rightful, Listed, Used
<1> QED
  BY <1>3, <1>5, <1>6, <1>7, <1>8, <1>9, <1>10, <1>11, <1>12 DEF SignInNext

-----------------------------------------------------------------------------
(* The refinement: a commit is a step of the book, everything else none. *)

LEMMA SameCount == \A S : Book!Cardinality(S) = Cardinality(S)
BY DEF Cardinality, Book!Cardinality

LEMMA CommitIsBooked ==
  ASSUME SignInInv, BookInv, NEW w \in Clients, CommitRequest(w)
  PROVE  Book!Next
<1> DEFINE t == request[w]
           gone == LiveSessions \intersect t.ended
<1> USE SignInAssumption
<1>1. /\ t \in Requesting /\ t.at = "commit" /\ t.todo = {} /\ Fits(w) /\ Rightful(w)
      /\ row \in [Sids -> {"absent", "live", "revoked"}] /\ opened \in [Sids -> 0 .. MaxPasswords]
  BY DEF SignInInv, SignInTypeOK, CommitRequest, Fits, Shape, BookInv
<1>2. /\ password' = (IF t.op \in Passwords THEN password + 1 ELSE password)
      /\ code' = (code /\ t.op # "otp")
  BY DEF CommitRequest
<1>3. PICK s \in IF t.op \in SignIns THEN {x \in Sids : row[x] = "absent"} ELSE {nobody} :
        /\ row' = [x \in Sids |-> IF x = s THEN "live" ELSE IF x \in t.ended THEN "revoked" ELSE row[x]]
        /\ opened' = [x \in Sids |-> IF x = s THEN t.proof ELSE IF x \in t.ended THEN 0
                                     ELSE IF x \in Kept(t) THEN password + 1 ELSE opened[x]]
  BY DEF CommitRequest
<1>4. /\ LiveSessions' = (LiveSessions \ gone) \union ({s} \intersect Sids)
      /\ Used' = Used \union ({s} \intersect Sids)
  <2>1. t.ended \subseteq Used
    BY <1>1 DEF Rightful, Listed
  <2> QED
    BY <1>3, <2>1 DEF LiveSessions, Used
<1>5. DOMAIN Resting = LiveSessions /\ gone \in SUBSET Sids /\ \A x \in LiveSessions : Resting[x] = opened[x]
  BY DEF Resting, LiveSessions
<1>6. CASE t.op \in SignIns
  <2>1. holder = w /\ w \notin outdated
    BY <1>1, <1>6 DEF Fits, Holds, SignIns
  <2>2. t.proof = password /\ Cardinality(Staying(w)) < MaxLive /\ (t.op = "otp" => code)
    BY <1>1, <1>6, <2>1 DEF Fits, UpToDate, Counted, SignIns, Rightful
  <2>3. s \in Sids /\ s \notin Used /\ t.op \notin Passwords /\ Kept(t) = {}
    BY <1>3, <1>6 DEF Used, SignIns, Passwords, Kept
  <2>4. Staying(w) = LiveSessions \ gone
    BY <1>1 DEF Staying
  <2>5. LiveSessions' = (LiveSessions \ gone) \union {s} /\ Used' = Used \union {s}
    BY <1>4, <2>3
  <2>6. Resting' = [x \in (LiveSessions \ gone) \union {s} |-> IF x = s THEN password ELSE Resting[x]]
    <3>1. ASSUME NEW x \in (LiveSessions \ gone) \union {s}
          PROVE  opened'[x] = IF x = s THEN password ELSE Resting[x]
      BY <1>3, <1>5, <2>2, <2>3, <3>1 DEF LiveSessions
    <3> QED
      BY <2>5, <3>1 DEF Resting
  <2>7. password' = password
    BY <1>2, <2>3
  <2>8. ASSUME NEW byCode \in BOOLEAN, byCode => code, code' = (code /\ ~byCode) PROVE Book!Open(s, gone, byCode)
    <3> HIDE DEF gone, t
    <3>1. LiveSessions \ gone = Staying(w) /\ Book!LiveIds = LiveSessions
      BY <1>5, <2>4 DEF Book!LiveIds
    <3>2. s \notin Used /\ Book!Cardinality(Book!LiveIds \ gone) < MaxLive
      BY <2>2, <2>3, <3>1, SameCount
    <3>3. Resting' = [x \in (Book!LiveIds \ gone) \union {s} |-> IF x = s THEN password ELSE Resting[x]]
      BY <2>6, <3>1
    <3>4. Used' = Used \union {s} /\ UNCHANGED password
      BY <2>5, <2>7
    <3> QED
      BY <2>8, <3>2, <3>3, <3>4, Zenon DEF Book!Open
  <2>9. \E byCode \in BOOLEAN : (byCode => code) /\ code' = (code /\ ~byCode)
    <3>1. CASE t.op = "otp"
      BY <1>2, <2>2, <3>1, Zenon
    <3>2. CASE t.op # "otp"
      <4>1. code' = (code /\ ~FALSE)
        BY <1>2, <3>2, Zenon
      <4> QED
        BY <4>1, Zenon
    <3> QED
      BY <3>1, <3>2
  <2> QED
    BY <1>5, <2>3, <2>8, <2>9 DEF Book!Next
<1>7. CASE t.op \in Passwords
  <2> DEFINE kept == LiveSessions \ gone
  <2>1. s = nobody /\ s \notin Sids /\ t.op \notin SignIns /\ t.op # "otp"
    BY <1>3, <1>7 DEF SignIns, Passwords
  <2>2. kept = Staying(w) /\ Staying(w) \subseteq {t.sid}
    BY <1>1, <1>7 DEF Staying, Fits, Spares
  <2>3. ASSUME NEW x \in kept PROVE x \in Kept(t)
    <3>1. x = t.sid
      BY <2>2
    <3>2. t.op = "change"
      BY <1>1, <1>7, <3>1 DEF Fits, Shape, Passwords, LiveSessions
    <3> QED
      BY <3>1, <3>2 DEF Kept
  <2>4. LiveSessions' = kept /\ Used' = Used /\ code' = code /\ password' = password + 1
    <3>1. code \in BOOLEAN
      BY Zenon DEF SignInInv, SignInTypeOK
    <3> QED
      BY <1>2, <1>4, <1>7, <2>1, <3>1
  <2>5. Resting' = [x \in kept |-> password + 1]
    <3>1. ASSUME NEW x \in kept PROVE opened'[x] = password + 1
      BY <1>3, <2>1, <2>3 DEF LiveSessions
    <3> QED
      BY <2>4, <3>1 DEF Resting
  <2>6. Book!NewPassword(kept)
    BY <1>5, <2>2, <2>4, <2>5 DEF Book!NewPassword, Book!LiveIds
  <2>7. kept \in SUBSET Sids
    BY DEF LiveSessions
  <2> QED
    BY <2>6, <2>7 DEF Book!Next
<1>8. CASE t.op \notin SignIns \union Passwords
  <2>1. s = nobody /\ s \notin Sids /\ t.op # "otp" /\ Kept(t) = {}
    BY <1>3, <1>8 DEF SignIns, Passwords, Kept
  <2>2. LiveSessions' = LiveSessions \ gone /\ Used' = Used /\ code' = code /\ password' = password
    <3>1. code \in BOOLEAN
      BY Zenon DEF SignInInv, SignInTypeOK
    <3> QED
      BY <1>2, <1>4, <1>8, <2>1, <3>1
  <2>3. Resting' = [x \in LiveSessions \ gone |-> Resting[x]]
    <3>1. ASSUME NEW x \in LiveSessions \ gone PROVE opened'[x] = Resting[x]
      BY <1>3, <1>5, <2>1 DEF LiveSessions
    <3> QED
      BY <2>2, <3>1 DEF Resting
  <2>4. Book!SignOut(gone)
    BY <1>5, <2>2, <2>3 DEF Book!SignOut, Book!LiveIds
  <2> QED
    BY <1>5, <2>4 DEF Book!Next
<1> QED
  BY <1>6, <1>7, <1>8

LEMMA StepIsBooked == SignInInv /\ BookInv /\ [SignInNext]_signInVars => [Book!Next]_(Book!vars)
<1> SUFFICES ASSUME SignInInv, BookInv, [SignInNext]_signInVars PROVE [Book!Next]_(Book!vars)
  OBVIOUS
<1>1. ASSUME UNCHANGED <<row, opened, password, code>> PROVE UNCHANGED Book!vars
  BY <1>1 DEF Book!vars, Resting, Used, LiveSessions
<1>2. CASE SendCode
  <2>1. UNCHANGED <<Resting, Used, password>> /\ code'
    BY <1>2 DEF SendCode, sessionRows, Resting, Used, LiveSessions
  <2> QED
    BY <2>1 DEF SendCode, Book!Next, Book!SendCode
<1>3. ASSUME NEW w \in Clients, CommitRequest(w) PROVE Book!Next
  BY <1>3, CommitIsBooked
<1>4. ASSUME NEW w \in Clients,
             \/ BeginSignIn(w) \/ BeginPassword(w) \/ BeginLogout(w) \/ FlushUser(w) \/ List(w)
             \/ AfterRevoking(w) \/ Abort(w) \/ FinishCheck(w) \/ \E s \in Sids : Revoke(w, s) \/ BeginCheck(w, s)
      PROVE  UNCHANGED <<row, opened, password, code>>
  BY <1>4 DEF BeginSignIn, BeginPassword, BeginLogout, FlushUser, List, AfterRevoking, Abort, FinishCheck,
              Revoke, BeginCheck, Begins, sessionRows, user
<1>5. ASSUME NEW s \in Sids, CheckRevoked(s) \/ KeyExpires(s) \/ Rotate(s) \/ Reuse(s)
      PROVE  UNCHANGED <<row, opened, password, code>>
  BY <1>5 DEF CheckRevoked, KeyExpires, Rotate, Reuse, sessionRows, user
<1>6. CASE UNCHANGED signInVars
  BY <1>1, <1>6 DEF signInVars
<1> QED
  BY <1>1, <1>2, <1>3, <1>4, <1>5, <1>6 DEF SignInNext

(* However many requests overlap, what they commit is what the same requests come to
   one after another: SignIn implements SessionBook.                         *)
THEOREM RequestsAreSerial == SignInSpec => OneAfterAnother
<1>1. SignInInit => Book!Init
  <2> SUFFICES ASSUME SignInInit PROVE Book!Init
    OBVIOUS
  <2>1. LiveSessions = {} /\ Used = {}
    BY DEF SignInInit, LiveSessions, Used
  <2>2. Resting = [s \in {} |-> 0]
    BY <2>1 DEF Resting
  <2> QED
    BY <2>1, <2>2 DEF SignInInit, Book!Init
<1> QED
  BY <1>1, BookInvInit, BookInvStep, StepIsBooked, SignInInvariant, PTL DEF SignInSpec, OneAfterAnother, Book!Spec

-----------------------------------------------------------------------------
(* MediaItems: what the tasks of a chord have returned agrees with what the *)
(* row records, as long as one chord at a time works on a live row.         *)

\* A row, from its upload to its purge.
RowSound(m) ==
  /\ upload[m] = "none" => item[m] = "absent"
  /\ upload[m] = "committed" => item[m] # "absent"
  /\ item[m] = "absent" => status[m] = "pending" /\ \A c \in Chords : chord[c].m # m
  /\ item[m] = "purged" =>
       /\ conversions[m] = {}
       /\ \A c \in Chords : chord[c].m = m => \A v \in Variants : ~At(c, v, "running")

\* The record names what is stored, unless a run was cut off in between.
BytesNamed(m) ==
  m \notin leaky =>
    /\ \A v \in Variants : <<m, v>> \in bytes => v \in conversions[m]
    /\ item[m] = "purged" => <<m, Original>> \notin bytes

\* What the tasks of a chord have returned is what the record says.
Truthful(c, m) ==
  \A v \in Variants :
    /\ v \notin DOMAIN chord[c].task => v \in conversions[m]
    /\ At(c, v, "done") => v \in conversions[m]
    /\ At(c, v, "failed") => v \notin conversions[m]
    /\ ~At(c, v, "skipped")

\* One chord works on a live row at a time, and its callback finishes it.
WorkSound(m) ==
  item[m] = "live" /\ m \notin hasty =>
    /\ upload[m] = "committed" => Unfinished(m) /\ \A c \in Chords : chord[c].m # m
    /\ \A c \in Chords : chord[c].m = m =>
         /\ Unfinished(m) /\ Truthful(c, m)
         /\ \A d \in Chords : chord[d].m = m => d = c
    /\ status[m] \in Finished /\ ~AtWork(m) => (status[m] = "done" <=> Missing(m) = {})

ItemSound(m) == RowSound(m) /\ BytesNamed(m) /\ WorkSound(m)

MediaInv ==
  /\ MediaTypeOK
  /\ \A m \in Items : ItemSound(m)
  /\ rescue # NoRescue => rescue.m \in Items /\ item[rescue.m] # "absent"

-----------------------------------------------------------------------------
(* The parts of a step. *)

LEMMA NoChordApart == "none" \notin Items /\ NoChord.m = "none" /\ DOMAIN NoChord.task = {}
BY MediaAssumption DEF NoChord

LEMMA ChordTypes ==
  ASSUME MediaTypeOK, NEW c \in Chords
  PROVE  \/ chord[c] = NoChord
         \/ /\ chord[c] \in [m : Items, task : Runs] /\ chord[c].m \in Items
            /\ DOMAIN chord[c].task \in SUBSET Variants
            /\ \A v \in DOMAIN chord[c].task : chord[c].task[v] \in {"queued", "running"} \union Returned
BY DEF MediaTypeOK, Runs

LEMMA MissingOf == \A m \in Items : Missing(m) = {} <=> \A v \in Variants : v \in conversions[m]
BY DEF Missing

\* A step that leaves alone all that is about m, a soft deletion apart.
LeavesAlone(m) ==
  /\ item'[m] = item[m] \/ (item[m] = "live" /\ item'[m] = "deleted")
  /\ status'[m] = status[m] /\ conversions'[m] = conversions[m] /\ upload'[m] = upload[m]
  /\ m \in hasty' <=> m \in hasty
  /\ m \in leaky' <=> m \in leaky
  /\ \A k : <<m, k>> \in bytes' <=> <<m, k>> \in bytes
  /\ \A c \in Chords : /\ chord'[c].m = m <=> chord[c].m = m
                       /\ chord[c].m = m => chord'[c] = chord[c]

LEMMA LeftAlone ==
  ASSUME NEW m \in Items, ItemSound(m), LeavesAlone(m)
  PROVE  ItemSound(m)'
<1>1. RowSound(m)'
  BY DEF ItemSound, RowSound, LeavesAlone, At
<1>2. BytesNamed(m)'
  BY DEF ItemSound, BytesNamed, LeavesAlone
<1>3. WorkSound(m)'
  <2>1. \A c \in Chords : chord[c].m = m /\ Truthful(c, m) => Truthful(c, m)'
    BY DEF LeavesAlone, Truthful, At
  <2>2. AtWork(m)' <=> AtWork(m)
    BY DEF LeavesAlone, AtWork
  <2>3. (Unfinished(m)' <=> Unfinished(m)) /\ Missing(m)' = Missing(m)
    BY DEF LeavesAlone, Unfinished, Missing
  <2> QED
    BY <2>1, <2>2, <2>3 DEF ItemSound, WorkSound, LeavesAlone
<1> QED
  BY <1>1, <1>2, <1>3 DEF ItemSound

\* A task goes from one state to another.
LEMMA TaskGoes ==
  ASSUME MediaTypeOK, NEW c \in Chords, NEW v \in Variants, v \in DOMAIN chord[c].task,
         NEW s \in {"queued", "running"} \union Returned, Goes(c, v, s)
  PROVE  /\ chord' \in [Chords -> {NoChord} \union [m : Items, task : Runs]]
         /\ chord[c].m \in Items /\ chord'[c].m = chord[c].m /\ DOMAIN chord'[c].task = DOMAIN chord[c].task
         /\ chord'[c].task[v] = s
         /\ \A x \in DOMAIN chord[c].task \ {v} : chord'[c].task[x] = chord[c].task[x]
         /\ \A d \in Chords \ {c} : chord'[d] = chord[d]
<1> DEFINE u == chord[c]
           r == u.task
           next == [r EXCEPT ![v] = s]
           u2 == [u EXCEPT !.task = next]
<1>1. chord \in [Chords -> {NoChord} \union [m : Items, task : Runs]]
  BY DEF MediaTypeOK
<1>2. chord' = [chord EXCEPT ![c] = u2]
  BY DEF Goes
<1>3. u \in [m : Items, task : Runs] /\ v \in DOMAIN r
  BY ChordTypes, NoChordApart
<1>4. r \in Runs
  BY <1>3
<1> HIDE DEF u, r
<1>5. PICK vs \in SUBSET Variants : r \in [vs -> {"queued", "running"} \union Returned]
  BY <1>4 DEF Runs
<1>6. /\ next \in [vs -> {"queued", "running"} \union Returned] /\ DOMAIN next = DOMAIN r
      /\ next[v] = s /\ \A x \in DOMAIN r \ {v} : next[x] = r[x]
  BY <1>3, <1>5
<1>7. next \in Runs
  BY <1>6 DEF Runs
<1> HIDE DEF next
<1>8. u2 \in [m : Items, task : Runs] /\ u2.m = u.m /\ u2.task = next
  BY <1>3, <1>7
<1> HIDE DEF u2
<1>9. /\ chord' \in [Chords -> {NoChord} \union [m : Items, task : Runs]]
      /\ chord'[c] = u2 /\ \A d \in Chords \ {c} : chord'[d] = chord[d]
  BY <1>1, <1>2, <1>8
<1> QED
  BY <1>3, <1>6, <1>8, <1>9 DEF u, r

\* ... and so leaves alone what is about the other items.
LEMMA OthersLeft ==
  ASSUME MediaTypeOK, NEW c \in Chords, NEW v \in Variants, v \in DOMAIN chord[c].task,
         NEW s \in {"queued", "running"} \union Returned, Goes(c, v, s),
         NEW x \in Items, x # chord[c].m
  PROVE  \A d \in Chords : /\ chord'[d].m = x <=> chord[d].m = x
                           /\ chord[d].m = x => chord'[d] = chord[d]
BY TaskGoes

LEMMA Dispatched ==
  ASSUME MediaTypeOK, NEW m \in Items, NEW vs \in SUBSET Variants, Sends(m, vs)
  PROVE  /\ chord' \in [Chords -> {NoChord} \union [m : Items, task : Runs]]
         /\ \A x \in Items \ {m} : \A d \in Chords : /\ chord'[d].m = x <=> chord[d].m = x
                                                     /\ chord[d].m = x => chord'[d] = chord[d]
         /\ \/ chord' = chord
            \/ \E c \in Chords :
                 /\ chord[c].m # m /\ chord'[c].m = m /\ DOMAIN chord'[c].task = vs
                 /\ \A v \in vs : chord'[c].task[v] = "queued"
                 /\ \A d \in Chords \ {c} : chord'[d] = chord[d]
<1>1. chord \in [Chords -> {NoChord} \union [m : Items, task : Runs]]
  BY DEF MediaTypeOK
<1>2. CASE chord' = chord
  BY <1>1, <1>2
<1>3. CASE chord' # chord
  <2> DEFINE r == [v \in vs |-> "queued"]
             u == [m |-> m, task |-> r]
  <2>1. PICK c \in Chords : chord[c] = NoChord /\ chord' = [chord EXCEPT ![c] = u]
    BY <1>3 DEF Sends
  <2>2. r \in Runs /\ DOMAIN r = vs /\ \A v \in vs : r[v] = "queued"
    BY DEF Runs
  <2> HIDE DEF r
  <2>3. u \in [m : Items, task : Runs] /\ u.m = m /\ u.task = r
    BY <2>2
  <2> HIDE DEF u
  <2>4. /\ chord' \in [Chords -> {NoChord} \union [m : Items, task : Runs]]
        /\ chord'[c] = u /\ \A d \in Chords \ {c} : chord'[d] = chord[d]
    BY <1>1, <2>1, <2>3
  <2>5. chord[c].m = "none" /\ "none" \notin Items
    BY <2>1, NoChordApart
  <2> QED
    BY <2>2, <2>3, <2>4, <2>5
<1> QED
  BY <1>2, <1>3

-----------------------------------------------------------------------------
(* Uploads and deletions. *)

LEMMA UploadKeeps == ASSUME MediaInv, NEW m \in Items, Upload(m) PROVE MediaInv'
<1>1. PICK listed \in SUBSET LiveItems :
        item' = [x \in Items |-> IF x = m THEN "live" ELSE IF x \in listed THEN "deleted" ELSE item[x]]
  BY DEF Upload
<1>2. /\ upload[m] = "none" /\ upload' = [upload EXCEPT ![m] = "committed"]
      /\ bytes' = bytes \union {<<m, Original>>}
      /\ UNCHANGED <<status, conversions, chord, rescue, hasty, leaky>>
  BY DEF Upload, seen
<1>3. MediaTypeOK
  BY DEF MediaInv
<1>4. MediaTypeOK'
  BY <1>1, <1>2, <1>3 DEF MediaTypeOK, LiveItems
<1>5. item[m] = "absent" /\ status[m] = "pending" /\ \A c \in Chords : chord[c].m # m
  BY <1>2 DEF MediaInv, ItemSound, RowSound
<1>6. ASSUME NEW x \in Items, x # m PROVE ItemSound(x)'
  <2>1. LeavesAlone(x)
    BY <1>1, <1>2, <1>3, <1>6 DEF LeavesAlone, LiveItems, MediaTypeOK
  <2> QED
    BY <2>1, LeftAlone DEF MediaInv
<1>7. ItemSound(m)'
  <2>1. item'[m] = "live" /\ upload'[m] = "committed" /\ status'[m] = "pending"
    BY <1>1, <1>2, <1>3, <1>5 DEF MediaTypeOK
  <2>2. RowSound(m)'
    BY <2>1 DEF RowSound
  <2>3. BytesNamed(m)'
    BY <1>2, <2>1, MediaAssumption DEF MediaInv, ItemSound, BytesNamed, Original
  <2>4. WorkSound(m)'
    BY <1>2, <1>5, <2>1 DEF WorkSound, Unfinished, Finished
  <2> QED
    BY <2>2, <2>3, <2>4 DEF ItemSound
<1>8. (rescue # NoRescue => rescue.m \in Items /\ item[rescue.m] # "absent")'
  BY <1>1, <1>2, <1>3 DEF MediaInv, MediaTypeOK
<1> QED
  BY <1>4, <1>6, <1>7, <1>8 DEF MediaInv

LEMMA FailUploadKeeps == ASSUME MediaInv, NEW m \in Items, FailUpload(m) PROVE MediaInv'
<1>1. /\ upload[m] = "none" /\ upload' = [upload EXCEPT ![m] = "over"]
      /\ bytes' \in {bytes, bytes \union {<<m, Original>>}}
      /\ UNCHANGED <<item, status, conversions, chord, rescue, hasty, leaky>>
  BY DEF FailUpload, seen, rowVars
<1>2. MediaTypeOK
  BY DEF MediaInv
<1>3. MediaTypeOK'
  BY <1>1, <1>2 DEF MediaTypeOK
<1>4. item[m] = "absent"
  BY <1>1 DEF MediaInv, ItemSound, RowSound
<1>5. ASSUME NEW x \in Items, x # m PROVE ItemSound(x)'
  <2>1. LeavesAlone(x)
    BY <1>1, <1>2, <1>5 DEF LeavesAlone, MediaTypeOK
  <2> QED
    BY <2>1, LeftAlone DEF MediaInv
<1>6. ItemSound(m)'
  <2>1. RowSound(m)'
    BY <1>1, <1>4 DEF MediaInv, ItemSound, RowSound
  <2>2. BytesNamed(m)'
    <3>1. \A v \in Variants : <<m, v>> \in bytes' <=> <<m, v>> \in bytes
      BY <1>1, MediaAssumption DEF Original
    <3> QED
      BY <1>1, <1>4, <3>1 DEF MediaInv, ItemSound, BytesNamed
  <2> QED
    BY <1>1, <1>4, <2>1, <2>2 DEF ItemSound, WorkSound
<1> QED
  BY <1>1, <1>3, <1>5, <1>6 DEF MediaInv

LEMMA DeleteKeeps == ASSUME MediaInv, DeleteImage PROVE MediaInv'
<1>1. /\ item' = [x \in Items |-> IF item[x] = "live" THEN "deleted" ELSE item[x]]
      /\ UNCHANGED <<status, conversions, bytes, upload, chord, rescue, hasty, leaky>>
  BY DEF DeleteImage, seen
<1>2. MediaTypeOK
  BY DEF MediaInv
<1>3. MediaTypeOK'
  BY <1>1, <1>2 DEF MediaTypeOK
<1>4. ASSUME NEW x \in Items PROVE ItemSound(x)'
  <2>1. item'[x] = item[x] \/ (item[x] = "live" /\ item'[x] = "deleted")
    BY <1>1
  <2>2. LeavesAlone(x)
    BY <1>1, <2>1 DEF LeavesAlone
  <2> QED
    BY <2>2, LeftAlone DEF MediaInv
<1>5. (rescue # NoRescue => rescue.m \in Items /\ item[rescue.m] # "absent")'
  BY <1>1 DEF MediaInv
<1> QED
  BY <1>3, <1>4, <1>5 DEF MediaInv

\* A chord of all that the record of m does not name.
LEMMA SentTruthful ==
  ASSUME NEW m \in Items, NEW vs \in SUBSET Variants, NEW c \in Chords,
         Missing(m)' \subseteq vs, DOMAIN chord'[c].task = vs, \A v \in vs : chord'[c].task[v] = "queued"
  PROVE  Truthful(c, m)'
BY DEF Truthful, At, Missing

LEMMA DispatchKeeps == ASSUME MediaInv, NEW m \in Items, Dispatch(m) PROVE MediaInv'
<1>1. /\ upload[m] = "committed" /\ upload' = [upload EXCEPT ![m] = "over"] /\ Sends(m, Variants)
      /\ UNCHANGED <<item, status, conversions, bytes, rescue, hasty, leaky>>
  BY DEF Dispatch, seen, rowVars
<1>2. MediaTypeOK /\ ItemSound(m)
  BY DEF MediaInv
<1>3. MediaTypeOK'
  BY <1>1, <1>2, Dispatched DEF MediaTypeOK
<1>4. upload'[m] = "over" /\ item[m] # "absent"
  BY <1>1, <1>2 DEF MediaTypeOK, ItemSound, RowSound
<1>5. ASSUME NEW x \in Items, x # m PROVE ItemSound(x)'
  <2>1. LeavesAlone(x)
    BY <1>1, <1>2, <1>5, Dispatched DEF LeavesAlone, MediaTypeOK
  <2> QED
    BY <2>1, LeftAlone DEF MediaInv
<1>6. ItemSound(m)'
  <2>1. CASE chord' = chord
    <3>1. RowSound(m)' /\ BytesNamed(m)'
      BY <1>1, <1>2, <1>4, <2>1 DEF ItemSound, RowSound, BytesNamed, At
    <3>2. WorkSound(m)'
      BY <1>1, <1>2, <1>4, <2>1 DEF ItemSound, WorkSound, Unfinished, Finished
    <3> QED
      BY <3>1, <3>2 DEF ItemSound
  <2>2. ASSUME NEW c \in Chords,
               chord[c].m # m /\ chord'[c].m = m /\ DOMAIN chord'[c].task = Variants
                 /\ (\A v \in Variants : chord'[c].task[v] = "queued")
                 /\ \A d \in Chords \ {c} : chord'[d] = chord[d]
        PROVE  ItemSound(m)'
    <3>1. RowSound(m)' /\ BytesNamed(m)'
      BY <1>1, <1>2, <1>4, <2>2 DEF ItemSound, RowSound, BytesNamed, At
    <3>2. ASSUME item[m] = "live", m \notin hasty
          PROVE  Unfinished(m) /\ \A d \in Chords : chord'[d].m = m => d = c
      BY <1>1, <1>2, <2>2, <3>2 DEF ItemSound, WorkSound
    <3>3. Truthful(c, m)'
      BY <2>2 DEF Truthful, At
    <3>4. WorkSound(m)'
      BY <1>1, <1>4, <2>2, <3>2, <3>3 DEF WorkSound, AtWork, Unfinished
    <3> QED
      BY <3>1, <3>4 DEF ItemSound
  <2> QED
    BY <1>1, <1>2, <2>1, <2>2, Dispatched
<1> QED
  BY <1>1, <1>3, <1>5, <1>6 DEF MediaInv

-----------------------------------------------------------------------------
(* A task of a chord. *)

\* What every step of a task of chord c leaves: it is about the chord's item only.
TaskStep(c, v, s) ==
  /\ v \in DOMAIN chord[c].task /\ s \in {"queued", "running"} \union Returned /\ Goes(c, v, s)
  /\ UNCHANGED <<item, upload, rescue, hasty>>
  /\ status' \in [Items -> {"pending", "processing"} \union Finished]
  /\ conversions' \in [Items -> SUBSET Variants]
  /\ bytes' \in SUBSET (Items \X (Variants \union {Original}))
  /\ leaky' \in SUBSET Items
  /\ \A x \in Items \ {chord[c].m} :
       /\ status'[x] = status[x] /\ conversions'[x] = conversions[x]
       /\ x \in leaky' <=> x \in leaky
       /\ \A k : <<x, k>> \in bytes' <=> <<x, k>> \in bytes

LEMMA TaskStepKeeps ==
  ASSUME MediaInv, NEW c \in Chords, NEW v \in Variants, NEW s, TaskStep(c, v, s),
         NEW m \in Items, m = chord[c].m, ItemSound(m)'
  PROVE  MediaInv'
<1>1. MediaTypeOK
  BY DEF MediaInv
<1>2. MediaTypeOK'
  BY <1>1, TaskGoes DEF TaskStep, MediaTypeOK
<1>3. ASSUME NEW x \in Items, x # chord[c].m PROVE ItemSound(x)'
  <2>1. \A d \in Chords : /\ chord'[d].m = x <=> chord[d].m = x
                          /\ chord[d].m = x => chord'[d] = chord[d]
    BY <1>1, <1>3, OthersLeft DEF TaskStep
  <2>2. LeavesAlone(x)
    BY <1>3, <2>1 DEF TaskStep, LeavesAlone
  <2> QED
    BY <2>2, LeftAlone DEF MediaInv
<1>4. (rescue # NoRescue => rescue.m \in Items /\ item[rescue.m] # "absent")'
  BY DEF MediaInv, TaskStep
<1> QED
  BY <1>2, <1>3, <1>4 DEF MediaInv

\* The row and the chord of an item after a step of one of its tasks: what the new
\* state of the task and the record of its variant have to agree on.
LEMMA TaskStepSound ==
  ASSUME MediaInv, NEW c \in Chords, NEW v \in Variants, NEW s, TaskStep(c, v, s),
         NEW m \in Items, m = chord[c].m,
         s = "running" => item[m] = "live",
         s = "skipped" => item[m] # "live",
         status'[m] = status[m] \/ (status[m] = "pending" /\ status'[m] = "processing"),
         item[m] = "purged" => conversions'[m] = {},
         \A x \in Variants \ {v} : x \in conversions'[m] <=> x \in conversions[m],
         item[m] = "live" /\ s = "done" => v \in conversions'[m],
         item[m] = "live" /\ s = "failed" => v \notin conversions'[m],
         BytesNamed(m)'
  PROVE  MediaInv'
<1>1. /\ chord'[c].m = m /\ DOMAIN chord'[c].task = DOMAIN chord[c].task /\ chord'[c].task[v] = s
      /\ (\A x \in DOMAIN chord[c].task \ {v} : chord'[c].task[x] = chord[c].task[x])
      /\ \A d \in Chords \ {c} : chord'[d] = chord[d]
  BY TaskGoes DEF TaskStep, MediaInv
<1>2. ItemSound(m)
  BY DEF MediaInv
<1>3. /\ v \in DOMAIN chord[c].task
      /\ item'[m] = item[m] /\ upload'[m] = upload[m] /\ (m \in hasty' <=> m \in hasty)
  BY DEF TaskStep
<1>4. item[m] # "absent"
  BY <1>2 DEF ItemSound, RowSound
<1>5. RowSound(m)'
  BY <1>1, <1>2, <1>3, <1>4 DEF ItemSound, RowSound, At
<1>6. WorkSound(m)'
  <2> SUFFICES ASSUME item[m] = "live", m \notin hasty PROVE WorkSound(m)'
    BY <1>3 DEF WorkSound
  <2>1. /\ upload[m] # "committed" /\ Unfinished(m) /\ Truthful(c, m)
        /\ \A d \in Chords : chord[d].m = m => d = c
    BY <1>2 DEF ItemSound, WorkSound
  <2>2. Unfinished(m)'
    BY <2>1 DEF Unfinished
  <2>3. Truthful(c, m)'
    <3> SUFFICES ASSUME NEW x \in Variants
                 PROVE  /\ x \notin DOMAIN chord'[c].task => x \in conversions'[m]
                        /\ At(c, x, "done")' => x \in conversions'[m]
                        /\ At(c, x, "failed")' => x \notin conversions'[m]
                        /\ ~At(c, x, "skipped")'
      BY DEF Truthful
    <3>1. CASE x = v
      BY <1>1, <1>3, <3>1 DEF At
    <3>2. CASE x # v
      BY <1>1, <1>3, <2>1, <3>2 DEF At, Truthful
    <3> QED
      BY <3>1, <3>2
  <2>4. \A d \in Chords : chord'[d].m = m => d = c
    BY <1>1, <2>1
  <2>5. AtWork(m)'
    BY <1>1 DEF AtWork
  <2> QED
    BY <1>3, <2>1, <2>2, <2>3, <2>4, <2>5 DEF WorkSound
<1> QED
  BY <1>5, <1>6, TaskStepKeeps DEF ItemSound

LEMMA StartVariantKeeps ==
  ASSUME MediaInv, NEW c \in Chords, NEW v \in Variants, StartVariant(c, v) \/ SkipDeleted(c, v) \/ DieRecorded(c, v)
  PROVE  MediaInv'
<1>1. PICK s \in {"running", "skipped", "queued"} :
        /\ v \in DOMAIN chord[c].task /\ Goes(c, v, s)
        /\ s = "running" => item[chord[c].m] = "live"
        /\ s = "skipped" => item[chord[c].m] # "live"
  BY DEF StartVariant, SkipDeleted, DieRecorded, At
<1>2. PICK m \in Items : m = chord[c].m
  BY <1>1, TaskGoes DEF MediaInv, Returned
<1>3. /\ status \in [Items -> {"pending", "processing"} \union Finished] /\ conversions \in [Items -> SUBSET Variants]
      /\ bytes \in SUBSET (Items \X (Variants \union {Original})) /\ leaky \in SUBSET Items
  BY DEF MediaInv, MediaTypeOK
<1>4. /\ status' = status \/ (status[m] = "pending" /\ status' = [status EXCEPT ![m] = "processing"])
      /\ UNCHANGED <<item, conversions, bytes, upload, rescue, hasty, leaky>>
  BY <1>2 DEF StartVariant, SkipDeleted, DieRecorded, rowVars, seen
<1>5. /\ status' \in [Items -> {"pending", "processing"} \union Finished]
      /\ \A x \in Items \ {m} : status'[x] = status[x]
      /\ status'[m] = status[m] \/ (status[m] = "pending" /\ status'[m] = "processing")
  BY <1>3, <1>4
<1>6. TaskStep(c, v, s)
  BY <1>1, <1>2, <1>3, <1>4, <1>5 DEF TaskStep, Returned
<1>7. BytesNamed(m)' /\ (item[m] = "purged" => conversions'[m] = {})
  BY <1>4 DEF MediaInv, ItemSound, BytesNamed, RowSound
<1> QED
  BY <1>1, <1>2, <1>4, <1>5, <1>6, <1>7, TaskStepSound

\* What is stored and recorded of variant v.
LEMMA RecordKeeps ==
  ASSUME MediaInv, NEW c \in Chords, NEW v \in Variants, Record(c, v) \/ RecordFailure(c, v) \/ TryAgain(c, v)
  PROVE  MediaInv'
<1>1. PICK s \in {"done", "failed", "queued"} :
        /\ At(c, v, "running") /\ Goes(c, v, s)
        /\ s = "done" => Record(c, v)
        /\ s = "failed" => RecordFailure(c, v)
        /\ s = "queued" => TryAgain(c, v)
  BY DEF Record, RecordFailure, TryAgain
<1>2. PICK m \in Items : m = chord[c].m
  BY <1>1, TaskGoes DEF MediaInv, Returned, At
<1>3. /\ status \in [Items -> {"pending", "processing"} \union Finished] /\ conversions \in [Items -> SUBSET Variants]
      /\ bytes \in SUBSET (Items \X (Variants \union {Original})) /\ leaky \in SUBSET Items
  BY DEF MediaInv, MediaTypeOK
<1>4. ItemSound(m) /\ item[m] # "purged"
  BY <1>1, <1>2 DEF MediaInv, ItemSound, RowSound
<1>5. /\ UNCHANGED <<item, status, upload, rescue, hasty>>
      /\ bytes' = bytes \/ bytes' = bytes \union {<<m, v>>}
      /\ leaky' = leaky \/ leaky' = leaky \union {m}
      /\ conversions' = [conversions EXCEPT ![m] = conversions'[m]]
      /\ s = "done" => conversions'[m] = conversions[m] \union {v}
      /\ s = "failed" => conversions'[m] = conversions[m] \ {v}
      /\ s = "queued" => conversions' = conversions
      /\ m \notin leaky' => m \notin leaky /\ (<<m, v>> \in bytes' => v \in conversions'[m])
  <2>1. CASE s = "done"
    BY <1>1, <1>2, <1>3, <1>4, <2>1 DEF Record, SetConversion, Recordable, seen
  <2>2. CASE s = "failed"
    BY <1>1, <1>2, <1>3, <1>4, <2>2 DEF RecordFailure, SetConversion, Recordable, Leaks
  <2>3. CASE s = "queued"
    BY <1>1, <1>2, <1>3, <2>3 DEF TryAgain, Leaks, rowVars
  <2> QED
    BY <2>1, <2>2, <2>3
<1>6. /\ conversions'[m] \in SUBSET Variants
      /\ \A x \in Variants \ {v} : x \in conversions'[m] <=> x \in conversions[m]
  <2>1. conversions[m] \in SUBSET Variants
    BY <1>3
  <2> QED
    BY <1>5, <2>1
<1>7. /\ conversions' \in [Items -> SUBSET Variants] /\ \A x \in Items \ {m} : conversions'[x] = conversions[x]
  BY <1>3, <1>5, <1>6
<1>8. /\ bytes' \in SUBSET (Items \X (Variants \union {Original})) /\ leaky' \in SUBSET Items
      /\ \A x \in Items \ {m} : (x \in leaky' <=> x \in leaky) /\ \A k : <<x, k>> \in bytes' <=> <<x, k>> \in bytes
  BY <1>3, <1>5
<1>9. TaskStep(c, v, s)
  BY <1>1, <1>2, <1>3, <1>5, <1>7, <1>8 DEF TaskStep, Returned, At
<1>10. BytesNamed(m)'
  BY <1>4, <1>5, <1>6 DEF ItemSound, BytesNamed
<1> QED
  BY <1>1, <1>2, <1>4, <1>5, <1>6, <1>9, <1>10, TaskStepSound

-----------------------------------------------------------------------------
(* The callback, the loss of a chord, the two beat tasks. *)

\* A chord is gone.
LEMMA ChordGone ==
  ASSUME MediaTypeOK, NEW c \in Chords, chord[c] # NoChord, chord' = [chord EXCEPT ![c] = NoChord]
  PROVE  /\ chord' \in [Chords -> {NoChord} \union [m : Items, task : Runs]]
         /\ chord[c].m \in Items /\ chord'[c].m \notin Items
         /\ \A d \in Chords \ {c} : chord'[d] = chord[d]
BY ChordTypes, NoChordApart DEF MediaTypeOK

LEMMA FinalizeKeeps == ASSUME MediaInv, NEW c \in Chords, Finalize(c) PROVE MediaInv'
<1> DEFINE results == {chord[c].task[v] : v \in DOMAIN chord[c].task}
<1>1. /\ chord[c] # NoChord /\ results \subseteq Returned /\ chord' = [chord EXCEPT ![c] = NoChord]
      /\ UNCHANGED <<item, conversions, bytes, upload, rescue, hasty, leaky>>
      /\ status' = IF results = {"skipped"} THEN status ELSE [status EXCEPT ![chord[c].m] = Overall(results)]
  BY DEF Finalize, seen
<1>2. MediaTypeOK
  BY DEF MediaInv
<1>3. /\ chord' \in [Chords -> {NoChord} \union [m : Items, task : Runs]]
      /\ chord[c].m \in Items /\ chord'[c].m \notin Items
      /\ \A d \in Chords \ {c} : chord'[d] = chord[d]
  BY <1>1, <1>2, ChordGone
<1>4. PICK m \in Items : m = chord[c].m
  BY <1>3
<1>5. Overall(results) \in Finished
  BY DEF Overall, Finished
<1>6. /\ status \in [Items -> {"pending", "processing"} \union Finished]
      /\ status' \in [Items -> {"pending", "processing"} \union Finished]
      /\ \A x \in Items \ {m} : status'[x] = status[x]
      /\ results # {"skipped"} => status'[m] = Overall(results)
  BY <1>1, <1>2, <1>4, <1>5 DEF MediaTypeOK
<1>7. MediaTypeOK'
  BY <1>1, <1>2, <1>3, <1>6 DEF MediaTypeOK
<1>8. ASSUME NEW x \in Items, x # m PROVE ItemSound(x)'
  <2>1. LeavesAlone(x)
    BY <1>1, <1>3, <1>4, <1>6, <1>8 DEF LeavesAlone
  <2> QED
    BY <2>1, LeftAlone DEF MediaInv
<1>9. ItemSound(m)
  BY DEF MediaInv
<1>10. item[m] # "absent"
  BY <1>4, <1>9 DEF ItemSound, RowSound
<1>11. RowSound(m)' /\ BytesNamed(m)'
  BY <1>1, <1>3, <1>9, <1>10 DEF ItemSound, RowSound, BytesNamed, At
<1>12. WorkSound(m)'
  <2> SUFFICES ASSUME item[m] = "live", m \notin hasty PROVE WorkSound(m)'
    BY <1>1 DEF WorkSound
  <2>1. upload[m] # "committed" /\ Truthful(c, m) /\ \A d \in Chords : chord[d].m = m => d = c
    BY <1>4, <1>9 DEF ItemSound, WorkSound
  <2>2. \A d \in Chords : chord'[d].m # m
    BY <1>3, <2>1
  <2>3. /\ "skipped" \notin results
        /\ \A v \in Variants : v \notin DOMAIN chord[c].task => v \in conversions[m]
        /\ \A v \in DOMAIN chord[c].task : /\ v \in Variants
                                           /\ chord[c].task[v] \in {"done", "failed"}
                                           /\ chord[c].task[v] = "done" => v \in conversions[m]
                                           /\ chord[c].task[v] = "failed" => v \notin conversions[m]
    <3>1. DOMAIN chord[c].task \in SUBSET Variants
      BY <1>1, <1>2, ChordTypes
    <3>2. \A v \in DOMAIN chord[c].task : chord[c].task[v] \in Returned
      BY <1>1
    <3> QED
      BY <2>1, <3>1, <3>2 DEF Truthful, At, Returned
  <2>4. status'[m] = Overall(results)
    BY <1>6, <2>3
  <2>5. status'[m] = "done" <=> \A v \in Variants : v \in conversions[m]
    <3>1. CASE \E v \in DOMAIN chord[c].task : chord[c].task[v] = "failed"
      BY <2>3, <2>4, <3>1 DEF Overall
    <3>2. CASE \A v \in DOMAIN chord[c].task : chord[c].task[v] = "done"
      BY <2>3, <2>4, <3>2 DEF Overall
    <3> QED
      BY <2>3, <3>1, <3>2
  <2>6. Missing(m)' = {} <=> \A v \in Variants : v \in conversions[m]
    BY <1>1 DEF Missing
  <2> QED
    BY <1>1, <2>1, <2>2, <2>5, <2>6 DEF WorkSound
<1>13. (rescue # NoRescue => rescue.m \in Items /\ item[rescue.m] # "absent")'
  BY <1>1 DEF MediaInv
<1> QED
  BY <1>7, <1>8, <1>11, <1>12, <1>13 DEF MediaInv, ItemSound

LEMMA LoseKeeps == ASSUME MediaInv, NEW c \in Chords, LoseChord(c) PROVE MediaInv'
<1>1. /\ chord[c] # NoChord /\ chord' = [chord EXCEPT ![c] = NoChord]
      /\ UNCHANGED <<item, status, conversions, bytes, upload, rescue, hasty, leaky>>
  BY DEF LoseChord, rowVars, seen
<1>2. MediaTypeOK
  BY DEF MediaInv
<1>3. /\ chord' \in [Chords -> {NoChord} \union [m : Items, task : Runs]]
      /\ chord[c].m \in Items /\ chord'[c].m \notin Items
      /\ \A d \in Chords \ {c} : chord'[d] = chord[d]
  BY <1>1, <1>2, ChordGone
<1>4. PICK m \in Items : m = chord[c].m
  BY <1>3
<1>5. MediaTypeOK'
  BY <1>1, <1>2, <1>3 DEF MediaTypeOK
<1>6. ASSUME NEW x \in Items, x # m PROVE ItemSound(x)'
  <2>1. LeavesAlone(x)
    BY <1>1, <1>3, <1>4, <1>6 DEF LeavesAlone
  <2> QED
    BY <2>1, LeftAlone DEF MediaInv
<1>7. ItemSound(m)
  BY DEF MediaInv
<1>8. RowSound(m)' /\ BytesNamed(m)'
  BY <1>1, <1>3, <1>7 DEF ItemSound, RowSound, BytesNamed, At
<1>9. WorkSound(m)'
  <2> SUFFICES ASSUME item[m] = "live", m \notin hasty PROVE WorkSound(m)'
    BY <1>1 DEF WorkSound
  <2>1. upload[m] # "committed" /\ Unfinished(m) /\ \A d \in Chords : chord[d].m = m => d = c
    BY <1>4, <1>7 DEF ItemSound, WorkSound
  <2>2. \A d \in Chords : chord'[d].m # m
    BY <1>3, <2>1
  <2> QED
    BY <1>1, <2>1, <2>2 DEF WorkSound, Unfinished, Finished
<1>10. (rescue # NoRescue => rescue.m \in Items /\ item[rescue.m] # "absent")'
  BY <1>1 DEF MediaInv
<1> QED
  BY <1>5, <1>6, <1>8, <1>9, <1>10 DEF MediaInv, ItemSound

LEMMA ListStuckKeeps == ASSUME MediaInv, NEW m \in Items, NEW old \in BOOLEAN, ListStuck(m, old) PROVE MediaInv'
<1>1. /\ item[m] = "live" /\ rescue' = [m |-> m, missing |-> Missing(m), old |-> old]
      /\ UNCHANGED <<item, status, conversions, bytes, upload, chord, hasty, leaky>>
  BY DEF ListStuck, rowVars, seen
<1>2. MediaTypeOK'
  BY <1>1 DEF MediaInv, MediaTypeOK, Missing
<1>3. ASSUME NEW x \in Items PROVE ItemSound(x)'
  <2>1. LeavesAlone(x)
    BY <1>1 DEF LeavesAlone
  <2> QED
    BY <2>1, LeftAlone DEF MediaInv
<1> QED
  BY <1>1, <1>2, <1>3 DEF MediaInv

LEMMA PurgeKeeps == ASSUME MediaInv, NEW m \in Items, Purge(m) PROVE MediaInv'
<1>1. /\ item[m] = "deleted"
      /\ \A c \in Chords : chord[c].m = m => \A v \in DOMAIN chord[c].task : ~At(c, v, "running")
      /\ bytes' = bytes \ {<<m, k>> : k \in {Original} \union conversions[m]}
      /\ item' = [item EXCEPT ![m] = "purged"] /\ status' = [status EXCEPT ![m] = "pending"]
      /\ conversions' = [conversions EXCEPT ![m] = {}]
      /\ UNCHANGED <<upload, chord, rescue, hasty, leaky>>
  BY DEF Purge, seen
<1>2. MediaTypeOK /\ ItemSound(m)
  BY DEF MediaInv
<1>3. MediaTypeOK'
  BY <1>1, <1>2 DEF MediaTypeOK
<1>4. ASSUME NEW x \in Items, x # m PROVE ItemSound(x)'
  <2>1. LeavesAlone(x)
    BY <1>1, <1>2, <1>4 DEF LeavesAlone, MediaTypeOK
  <2> QED
    BY <2>1, LeftAlone DEF MediaInv
<1>5. item'[m] = "purged" /\ conversions'[m] = {}
  BY <1>1, <1>2 DEF MediaTypeOK
<1>6. RowSound(m)'
  BY <1>1, <1>2, <1>5 DEF ItemSound, RowSound, At
<1>7. BytesNamed(m)'
  <2>1. \A k : <<m, k>> \in bytes' => <<m, k>> \in bytes /\ k # Original /\ k \notin conversions[m]
    BY <1>1
  <2> QED
    BY <1>1, <1>2, <1>5, <2>1 DEF ItemSound, BytesNamed
<1>8. WorkSound(m)'
  BY <1>5 DEF WorkSound
<1>9. (rescue # NoRescue => rescue.m \in Items /\ item[rescue.m] # "absent")'
  BY <1>1, <1>2 DEF MediaInv, MediaTypeOK
<1> QED
  BY <1>3, <1>4, <1>6, <1>7, <1>8, <1>9 DEF MediaInv, ItemSound

\* The sweep finishes a row by what it had read of it, or dispatches what was missing.
LEMMA RescueKeeps == ASSUME MediaInv, Rescue PROVE MediaInv'
<1> DEFINE ends == rescue.missing = {} \/ rescue.old
<1>1. /\ rescue # NoRescue /\ rescue' = NoRescue
      /\ status' = IF ~ends THEN status
                   ELSE [status EXCEPT ![rescue.m] = IF rescue.missing = {} THEN "done" ELSE "partial_failure"]
      /\ IF ends THEN UNCHANGED chord ELSE Sends(rescue.m, rescue.missing)
      /\ hasty' = IF AtWork(rescue.m) \/ ~Unfinished(rescue.m) \/ rescue.missing # Missing(rescue.m)
                    THEN hasty \union {rescue.m} ELSE hasty
      /\ UNCHANGED <<item, conversions, bytes, upload, leaky>>
  BY DEF Rescue
<1>2. PICK m \in Items : m = rescue.m /\ item[m] # "absent"
  BY <1>1 DEF MediaInv
<1>3. MediaTypeOK /\ ItemSound(m)
  BY DEF MediaInv
<1>4. PICK missing \in SUBSET Variants : missing = rescue.missing
  BY <1>3 DEF MediaTypeOK
<1>5. /\ status' \in [Items -> {"pending", "processing"} \union Finished]
      /\ \A x \in Items \ {m} : status'[x] = status[x]
      /\ ends => status'[m] = IF missing = {} THEN "done" ELSE "partial_failure"
      /\ ~ends => status' = status /\ missing # {}
  BY <1>1, <1>2, <1>3, <1>4 DEF MediaTypeOK, Finished
<1>6. /\ ends => chord' = chord
      /\ ~ends => Sends(m, missing)
  BY <1>1, <1>2, <1>4
<1> HIDE DEF ends
<1>7. /\ chord' \in [Chords -> {NoChord} \union [m : Items, task : Runs]]
      /\ \A x \in Items \ {m} : \A d \in Chords : /\ chord'[d].m = x <=> chord[d].m = x
                                                  /\ chord[d].m = x => chord'[d] = chord[d]
  <2>1. CASE ends
    BY <1>3, <1>6, <2>1 DEF MediaTypeOK
  <2>2. CASE ~ends
    BY <1>3, <1>6, <2>2, Dispatched
  <2> QED
    BY <2>1, <2>2
<1>8. /\ hasty' \in SUBSET Items /\ \A x \in Items \ {m} : x \in hasty' <=> x \in hasty
      /\ m \notin hasty' => m \notin hasty /\ ~AtWork(m) /\ Unfinished(m) /\ missing = Missing(m)
  BY <1>1, <1>2, <1>3, <1>4 DEF MediaTypeOK
<1>9. MediaTypeOK'
  <2>1. NoRescue \in [m : Items \union {"none"}, missing : SUBSET Variants, old : BOOLEAN]
    BY DEF NoRescue
  <2> QED
    BY <1>1, <1>3, <1>5, <1>7, <1>8, <2>1 DEF MediaTypeOK
<1>10. ASSUME NEW x \in Items, x # m PROVE ItemSound(x)'
  <2>1. LeavesAlone(x)
    BY <1>1, <1>5, <1>7, <1>8, <1>10 DEF LeavesAlone
  <2> QED
    BY <2>1, LeftAlone DEF MediaInv
<1>11. BytesNamed(m)'
  BY <1>1, <1>3 DEF ItemSound, BytesNamed
<1>12. CASE chord' = chord
  <2>1. RowSound(m)'
    BY <1>1, <1>2, <1>3, <1>12 DEF ItemSound, RowSound, At
  <2>2. WorkSound(m)'
    <3> SUFFICES ASSUME item[m] = "live", m \notin hasty' PROVE WorkSound(m)'
      BY <1>1 DEF WorkSound
    <3>1. upload[m] # "committed" /\ \A d \in Chords : chord[d].m # m
      BY <1>8 DEF AtWork
    <3>2. status'[m] \in Finished => (status'[m] = "done" <=> Missing(m) = {})
      BY <1>5, <1>8 DEF Unfinished, Finished
    <3>3. Missing(m)' = Missing(m)
      BY <1>1 DEF Missing
    <3> QED
      BY <1>1, <1>12, <3>1, <3>2, <3>3 DEF WorkSound
  <2> QED
    BY <1>1, <1>9, <1>10, <1>11, <2>1, <2>2 DEF MediaInv, ItemSound
<1>13. CASE chord' # chord
  <2>1. ~ends /\ status' = status
    BY <1>5, <1>6, <1>13
  <2>2. PICK c \in Chords :
          /\ chord[c].m # m /\ chord'[c].m = m /\ DOMAIN chord'[c].task = missing
          /\ \A v \in missing : chord'[c].task[v] = "queued"
          /\ \A d \in Chords \ {c} : chord'[d] = chord[d]
    BY <1>3, <1>6, <1>13, <2>1, Dispatched
  <2>3. RowSound(m)'
    BY <1>1, <1>2, <1>3, <2>1, <2>2 DEF ItemSound, RowSound, At
  <2>4. WorkSound(m)'
    <3> SUFFICES ASSUME item[m] = "live", m \notin hasty' PROVE WorkSound(m)'
      BY <1>1 DEF WorkSound
    <3>1. upload[m] # "committed" /\ \A d \in Chords : chord[d].m # m
      BY <1>8 DEF AtWork
    <3>2. Truthful(c, m)'
      BY <1>1, <1>8, <2>2 DEF Truthful, At, Missing
    <3>3. Unfinished(m)'
      BY <1>8, <2>1 DEF Unfinished
    <3>4. \A d \in Chords : chord'[d].m = m => d = c
      BY <2>2, <3>1
    <3> QED
      BY <1>1, <2>2, <3>1, <3>2, <3>3, <3>4 DEF WorkSound, AtWork
  <2> QED
    BY <1>1, <1>9, <1>10, <1>11, <2>3, <2>4 DEF MediaInv, ItemSound
<1> QED
  BY <1>12, <1>13

-----------------------------------------------------------------------------
(* The theorem. *)

LEMMA MediaInitInv == MediaInit => MediaInv
<1> SUFFICES ASSUME MediaInit PROVE MediaInv
  OBVIOUS
<1>1. MediaTypeOK
  BY DEF MediaInit, MediaTypeOK, NoRescue
<1>2. \A c \in Chords : chord[c].m \notin Items
  BY NoChordApart DEF MediaInit
<1>3. ASSUME NEW m \in Items PROVE ItemSound(m)
  BY <1>2 DEF MediaInit, ItemSound, RowSound, BytesNamed, WorkSound
<1> QED
  BY <1>1, <1>3 DEF MediaInit, MediaInv

LEMMA MediaStepInv == MediaInv /\ [MediaNext]_mediaVars => MediaInv'
<1> SUFFICES ASSUME MediaInv, [MediaNext]_mediaVars PROVE MediaInv'
  OBVIOUS
<1>1. CASE DeleteImage \/ Rescue
  BY <1>1, DeleteKeeps, RescueKeeps
<1>2. ASSUME NEW m \in Items, Upload(m) \/ FailUpload(m) \/ Dispatch(m) \/ Purge(m) PROVE MediaInv'
  BY <1>2, UploadKeeps, FailUploadKeeps, DispatchKeeps, PurgeKeeps
<1>3. ASSUME NEW m \in Items, NEW old \in BOOLEAN, ListStuck(m, old) PROVE MediaInv'
  BY <1>3, ListStuckKeeps
<1>4. ASSUME NEW c \in Chords, Finalize(c) \/ LoseChord(c) PROVE MediaInv'
  BY <1>4, FinalizeKeeps, LoseKeeps
<1>5. ASSUME NEW c \in Chords, NEW v \in Variants, Convert(c, v) PROVE MediaInv'
  BY <1>5, StartVariantKeeps, RecordKeeps DEF Convert
<1>6. CASE UNCHANGED mediaVars
  <2>1. ASSUME NEW x \in Items PROVE ItemSound(x)'
    <3>1. LeavesAlone(x)
      BY <1>6 DEF mediaVars, LeavesAlone
    <3> QED
      BY <3>1, LeftAlone DEF MediaInv
  <2> QED
    BY <1>6, <2>1 DEF mediaVars, MediaInv, MediaTypeOK
<1> QED
  BY <1>1, <1>2, <1>3, <1>4, <1>5, <1>6 DEF MediaNext

(* With no chord at work a finished image says done exactly when every variant
   is recorded, unless the rescue sweep met a chord at work; and a purged image
   has left nothing in the store, unless a run was cut off between storing and
   recording - for any number of uploads, variants and chords.             *)
THEOREM RowsMatch == MediaSpec => [](MediaTypeOK /\ RowsMatchTheStore)
<1>1. MediaInv => MediaTypeOK /\ RowsMatchTheStore
  <2> SUFFICES ASSUME MediaInv PROVE RowsMatchTheStore
    BY DEF MediaInv
  <2>1. ASSUME NEW m \in LiveItems \ hasty, status[m] \in Finished, ~AtWork(m)
        PROVE  status[m] = "done" <=> Missing(m) = {}
    BY <2>1 DEF MediaInv, ItemSound, WorkSound, LiveItems
  <2>2. ASSUME NEW m \in Items \ leaky, item[m] = "purged", NEW k \in Variants \union {Original}
        PROVE  <<m, k>> \notin bytes
    BY <2>2 DEF MediaInv, ItemSound, BytesNamed, RowSound
  <2> QED
    BY <2>1, <2>2 DEF RowsMatchTheStore
<1> QED
  BY <1>1, MediaInitInv, MediaStepInv, PTL DEF MediaSpec

-----------------------------------------------------------------------------
(* Switches: while nothing is in doubt one change at most is under way, and *)
(* what it has read and written follows from the committed settings.        *)

\* Nothing in doubt: one change at a time, and the mirror is as far as the change is.
OneChange ==
  ~doubt => \A o, p \in Changing : o = p

MirrorFollows ==
  ~doubt =>
    /\ Changing = {} /\ mirror.loaded => mirror.stops = settings
    /\ \A o \in Changing :
         /\ change[o].at = "read" => change[o].copy = settings
         /\ mirror.loaded => mirror.stops = IF change[o].at = "mirrored"
                                            THEN With(settings, change[o]) ELSE settings
         /\ change[o].writes # "value" => settings \intersect change[o].key = change[o].value

\* A reader that no change has crossed holds the settings.
AloneHoldsSettings ==
  \A r \in Rebuilding : rebuild[r].alone => Changing = {} /\ rebuild[r].copy = settings

SwitchesInv == SwitchesTypeOK /\ OneChange /\ MirrorFollows /\ AloneHoldsSettings

ChangeRecord == [at : {"none", "loaded", "flushed", "read", "mirrored"},
                 key : Switch \union {{}}, value : SUBSET Stops,
                 writes : {"value", "name", "nothing"}, copy : SUBSET Stops]
RebuildRecord == [at : {"none", "loaded"}, copy : SUBSET Stops, alone : BOOLEAN]

(* The initial state satisfies the invariant. *)
LEMMA SwitchesInitInv == SwitchesInit => SwitchesInv
<1> SUFFICES ASSUME SwitchesInit PROVE SwitchesInv
  OBVIOUS
<1> USE DEF SwitchesInit
<1>1. NoChange \in ChangeRecord /\ NoRebuild \in RebuildRecord
  BY DEF NoChange, NoRebuild, ChangeRecord, RebuildRecord
<1>2. mirror \in [loaded : BOOLEAN, stops : SUBSET Stops]
  OBVIOUS
<1>3. SwitchesTypeOK
  BY <1>1, <1>2 DEF SwitchesTypeOK, ChangeRecord, RebuildRecord
<1>4. Changing = {} /\ Rebuilding = {} /\ ~mirror.loaded
  BY DEF Changing, Rebuilding, NoChange, NoRebuild
<1> QED
  BY <1>3, <1>4 DEF SwitchesInv, OneChange, MirrorFollows, AloneHoldsSettings

(* A switch with a new value is a set of stops again. *)
LEMMA WithIsStops ==
  ASSUME NEW stops \in SUBSET Stops, NEW t \in ChangeRecord
  PROVE  With(stops, t) \in SUBSET Stops
BY DEF With, ChangeRecord

-----------------------------------------------------------------------------
(* Every step keeps the types. *)
LEMMA ChangeTypes ==
  ASSUME SwitchesTypeOK, NEW o \in Operators,
         \/ \E f \in Flags, on \in BOOLEAN : CallSet(o, f, on)
         \/ \E m \in Modules, on \in BOOLEAN : CallPause(o, m, on)
         \/ Flush(o) \/ (\E found \in BOOLEAN : ReadMirror(o, found)) \/ WriteMirror(o)
         \/ MirrorUnwritten(o) \/ CommitChange(o) \/ RollBackChange(o)
  PROVE  SwitchesTypeOK'
<1>a. /\ settings \in SUBSET Stops
      /\ mirror \in [loaded : BOOLEAN, stops : SUBSET Stops]
      /\ change \in [Operators -> ChangeRecord] /\ rebuild \in [Readers -> RebuildRecord]
      /\ doubt \in BOOLEAN
  BY DEF SwitchesTypeOK, ChangeRecord, RebuildRecord
<1>b. NoChange \in ChangeRecord
  BY DEF NoChange, ChangeRecord
<1>c. ASSUME settings' \in SUBSET Stops,
             mirror' \in [loaded : BOOLEAN, stops : SUBSET Stops],
             change' \in [Operators -> ChangeRecord], rebuild' \in [Readers -> RebuildRecord],
             doubt' \in BOOLEAN
      PROVE  SwitchesTypeOK'
  BY <1>c DEF SwitchesTypeOK, ChangeRecord, RebuildRecord
<1>d. [change[o] EXCEPT !.at = "mirrored", !.copy = {}] \in ChangeRecord
  BY <1>a DEF ChangeRecord
<1>e. ASSUME NEW key \in Switch, NEW value \in SUBSET Stops, LoadSetting(o, key, value)
      PROVE  SwitchesTypeOK'
  <2>1. PICK writes \in {"value", "name", "nothing"} :
          change' = [change EXCEPT ![o] = [NoChange EXCEPT !.at = "loaded", !.key = key,
                                             !.value = value, !.writes = writes]]
    BY <1>e DEF LoadSetting
  <2> DEFINE c == [NoChange EXCEPT !.at = "loaded", !.key = key, !.value = value, !.writes = writes]
  <2>2. c \in ChangeRecord
    BY DEF NoChange, ChangeRecord
  <2>3. change' = [change EXCEPT ![o] = c]
    BY <2>1
  <2> HIDE DEF c
  <2> QED
    BY <1>e, <1>a, <2>2, <2>3, <1>c DEF LoadSetting
<1>1. ASSUME NEW f \in Flags, NEW on \in BOOLEAN, CallSet(o, f, on) PROVE SwitchesTypeOK'
  <2>1. {f} \in Switch /\ (IF on THEN {f} ELSE {}) \in SUBSET Stops
    BY DEF Switch, Stops
  <2> QED
    BY <1>1, <2>1, <1>e DEF CallSet
<1>2. ASSUME NEW m \in Modules, NEW on \in BOOLEAN, CallPause(o, m, on) PROVE SwitchesTypeOK'
  <2>1. PICK held \in SUBSET Modules :
          LoadSetting(o, Modules, (held \ {m}) \union (IF on THEN {m} ELSE {}))
    BY <1>2 DEF CallPause
  <2>2. Modules \in Switch /\ (held \ {m}) \union (IF on THEN {m} ELSE {}) \in SUBSET Stops
    BY DEF Switch, Stops
  <2> QED
    BY <2>1, <2>2, <1>e
<1>3. CASE Flush(o)
  <2>1. change' \in [Operators -> ChangeRecord]
    BY <1>3, <1>a DEF Flush, ChangeRecord
  <2>2. rebuild' \in [Readers -> RebuildRecord]
    BY <1>3, <1>a DEF Flush, RebuildRecord
  <2> QED
    BY <1>3, <1>a, <2>1, <2>2, <1>c DEF Flush
<1>4. ASSUME NEW found \in BOOLEAN, ReadMirror(o, found) PROVE SwitchesTypeOK'
  <2>1. change' \in [Operators -> ChangeRecord]
    <3>1. [change[o] EXCEPT !.at = "read", !.copy = IF found THEN mirror.stops ELSE {}] \in ChangeRecord
      BY <1>a DEF ChangeRecord
    <3> QED
      BY <1>4, <1>a, <3>1 DEF ReadMirror
  <2> QED
    BY <1>4, <2>1, <1>a, <1>c DEF ReadMirror
<1>5. CASE WriteMirror(o)
  <2>1. change' \in [Operators -> ChangeRecord]
    BY <1>5, <1>a, <1>d DEF WriteMirror
  <2>2. change[o] \in ChangeRecord /\ change[o].copy \in SUBSET Stops
    BY <1>a DEF ChangeRecord
  <2>3. NewMirror(change[o]) \in SUBSET Stops
    BY <2>2, WithIsStops DEF NewMirror
  <2> QED
    BY <1>5, <2>1, <2>3, <1>a, <1>c DEF WriteMirror
<1>6. CASE MirrorUnwritten(o)
  <2>1. change' \in [Operators -> ChangeRecord]
    BY <1>6, <1>a, <1>d DEF MirrorUnwritten
  <2> QED
    BY <1>6, <2>1, <1>a, <1>c DEF MirrorUnwritten
<1>7. CASE CommitChange(o)
  <2>1. change' \in [Operators -> ChangeRecord]
    BY <1>7, <1>a, <1>b DEF CommitChange
  <2>2. settings' \in SUBSET Stops
    BY <1>7, <1>a, WithIsStops DEF CommitChange
  <2> QED
    BY <1>7, <2>1, <2>2, <1>a, <1>c DEF CommitChange
<1>8. CASE RollBackChange(o)
  <2>1. change' \in [Operators -> ChangeRecord]
    BY <1>8, <1>a, <1>b DEF RollBackChange
  <2> QED
    BY <1>8, <2>1, <1>a, <1>c DEF RollBackChange
<1> QED
  BY <1>1, <1>2, <1>3, <1>4, <1>5, <1>6, <1>7, <1>8

LEMMA RebuildTypes ==
  ASSUME SwitchesTypeOK,
         LoseMirror \/ \E r \in Readers : LoadSettings(r) \/ Rebuild(r) \/ RebuildFails(r)
  PROVE  SwitchesTypeOK'
<1> USE DEF SwitchesTypeOK
<1>1. CASE LoseMirror
  BY <1>1 DEF LoseMirror
<1>2. ASSUME NEW r \in Readers, LoadSettings(r) PROVE SwitchesTypeOK'
  <2>1. (Changing = {}) \in BOOLEAN
    BY Zenon
  <2>2. rebuild' \in [Readers -> [at : {"none", "loaded"}, copy : SUBSET Stops, alone : BOOLEAN]]
    BY <1>2, <2>1 DEF LoadSettings
  <2> QED
    BY <1>2, <2>2 DEF LoadSettings
<1>3. ASSUME NEW r \in Readers, Rebuild(r) PROVE SwitchesTypeOK'
  <2>1. NoRebuild \in [at : {"none", "loaded"}, copy : SUBSET Stops, alone : BOOLEAN]
    BY DEF NoRebuild
  <2>2. rebuild[r].copy \in SUBSET Stops
    OBVIOUS
  <2> QED
    BY <1>3, <2>1, <2>2 DEF Rebuild
<1>4. ASSUME NEW r \in Readers, RebuildFails(r) PROVE SwitchesTypeOK'
  <2>1. NoRebuild \in [at : {"none", "loaded"}, copy : SUBSET Stops, alone : BOOLEAN]
    BY DEF NoRebuild
  <2> QED
    BY <1>4, <2>1 DEF RebuildFails
<1> QED
  BY <1>1, <1>2, <1>3, <1>4

-----------------------------------------------------------------------------
Together == OneChange /\ MirrorFollows /\ AloneHoldsSettings

(* A change that has read, and not flushed, touches nothing the mirror is about. *)
LEMMA CallKeeps ==
  ASSUME SwitchesInv, NEW o \in Operators,
         \/ \E f \in Flags, on \in BOOLEAN : CallSet(o, f, on)
         \/ \E m \in Modules, on \in BOOLEAN : CallPause(o, m, on)
  PROVE  Together'
<1>a. change = [p \in Operators |-> change[p]] /\ UNCHANGED <<settings, mirror, rebuild, doubt>>
  BY DEF SwitchesInv, SwitchesTypeOK, CallSet, CallPause, LoadSetting
<1>b. \E key, value, writes :
        change' = [change EXCEPT ![o] = [NoChange EXCEPT !.at = "loaded", !.key = key,
                                           !.value = value, !.writes = writes]]
  BY Zenon DEF CallSet, CallPause, LoadSetting
<1>c. change[o] = NoChange
  BY DEF CallSet, CallPause, LoadSetting
<1>1. /\ o \notin Changing /\ change'[o].at = "loaded"
      /\ \A p \in Operators \ {o} : change'[p] = change[p]
  <2> PICK key, value, writes :
        change' = [change EXCEPT ![o] = [NoChange EXCEPT !.at = "loaded", !.key = key,
                                           !.value = value, !.writes = writes]]
    BY <1>b
  <2>1. change'[o].at = "loaded" /\ \A p \in Operators \ {o} : change'[p] = change[p]
    BY <1>a DEF NoChange
  <2>2. o \notin Changing
    BY <1>c DEF NoChange, Changing
  <2> QED
    BY <2>1, <2>2
<1>2. Changing' = Changing /\ \A p \in Changing : change'[p] = change[p]
  BY <1>1 DEF Changing
<1>3. OneChange' /\ AloneHoldsSettings'
  BY <1>a, <1>2 DEF SwitchesInv, OneChange, AloneHoldsSettings, Rebuilding
<1>4. MirrorFollows'
  BY <1>a, <1>2 DEF SwitchesInv, MirrorFollows, With
<1> QED
  BY <1>3, <1>4 DEF Together

(* The flush: a change that meets another one, or a reader, leaves a doubt. *)
LEMMA ChangeFlushKeeps == ASSUME SwitchesInv, NEW o \in Operators, Flush(o) PROVE Together'
<1> USE DEF SwitchesInv, SwitchesTypeOK, Flush
<1>1. o \notin Changing /\ Changing' = Changing \union {o} /\ change'[o].at = "flushed"
  BY DEF Changing
<1>2. ~doubt' => ~doubt /\ Changing = {} /\ ~Stale(change[o])
  BY DEF Rebuilding
<1>3. OneChange'
  BY <1>1, <1>2 DEF OneChange
<1>5. /\ change'[o].writes = change[o].writes /\ change'[o].key = change[o].key
      /\ change'[o].value = change[o].value /\ settings' = settings /\ mirror' = mirror
  OBVIOUS
<1>6. ASSUME ~doubt' PROVE MirrorFollows'
  <2>1. Changing' = {o} /\ ~doubt /\ (mirror.loaded => mirror.stops = settings)
    BY <1>1, <1>2, <1>6 DEF MirrorFollows
  <2>2. change'[o].writes # "value" => settings' \intersect change'[o].key = change'[o].value
    BY <1>2, <1>5, <1>6 DEF Stale
  <2> QED
    BY <1>1, <1>5, <2>1, <2>2 DEF MirrorFollows
<1>4. AloneHoldsSettings'
  BY DEF AloneHoldsSettings, Rebuilding
<1> QED
  BY <1>3, <1>4, <1>6 DEF Together, MirrorFollows

(* The mirror is read, and written as a whole. *)
LEMMA MirrorKeeps ==
  ASSUME SwitchesInv, NEW o \in Operators,
         (\E found \in BOOLEAN : ReadMirror(o, found)) \/ WriteMirror(o) \/ MirrorUnwritten(o)
  PROVE  Together'
<1> USE DEF SwitchesInv
<1>a. change \in [Operators -> ChangeRecord]
  BY DEF SwitchesTypeOK, ChangeRecord
<1>b. \E at \in {"read", "mirrored"} : \E copy :
        change' = [change EXCEPT ![o] = [change[o] EXCEPT !.at = at, !.copy = copy]]
  BY DEF ReadMirror, WriteMirror, MirrorUnwritten
<1>2. /\ change'[o].key = change[o].key /\ change'[o].value = change[o].value
      /\ change'[o].writes = change[o].writes /\ change'[o].at \in {"read", "mirrored"}
      /\ \A p \in Operators \ {o} : change'[p] = change[p]
  BY <1>a, <1>b DEF ChangeRecord
<1>1. o \in Changing /\ Changing' = Changing
  BY <1>2 DEF ReadMirror, WriteMirror, MirrorUnwritten, Changing
<1>3. ~doubt' => ~doubt /\ Changing = {o}
  BY <1>1 DEF ReadMirror, WriteMirror, MirrorUnwritten, OneChange
<1>4. OneChange'
  BY <1>1, <1>3 DEF OneChange
<1>5. ASSUME ~doubt' PROVE MirrorFollows'
  <2>1. /\ ~doubt /\ Changing' = {o}
        /\ mirror.loaded => mirror.stops = IF change[o].at = "mirrored"
                                          THEN With(settings, change[o]) ELSE settings
        /\ change[o].at = "read" => change[o].copy = settings
        /\ change[o].writes # "value" => settings \intersect change[o].key = change[o].value
    BY <1>1, <1>3, <1>5 DEF MirrorFollows
  <2>2. ASSUME NEW found \in BOOLEAN, ReadMirror(o, found) PROVE MirrorFollows'
    <3>1. found /\ mirror.loaded /\ change'[o].at = "read" /\ change'[o].copy = mirror.stops
      <4>1. found
        BY <1>5, <2>2 DEF ReadMirror
      <4>2. change' = [change EXCEPT ![o] = [change[o] EXCEPT !.at = "read", !.copy = mirror.stops]]
        BY <2>2, <4>1 DEF ReadMirror
      <4>3. mirror.loaded
        BY <2>2, <4>1 DEF ReadMirror
      <4>4. change'[o].at = "read" /\ change'[o].copy = mirror.stops
        BY <4>2, <1>a DEF ChangeRecord
      <4> QED
        BY <4>1, <4>3, <4>4
    <3>2. mirror.stops = settings
      BY <2>1, <2>2, <3>1 DEF ReadMirror
    <3> QED
      BY <1>2, <2>1, <2>2, <3>1, <3>2 DEF ReadMirror, MirrorFollows
  <2>3. CASE WriteMirror(o)
    <3>1. /\ change'[o].at = "mirrored" /\ settings' = settings
          /\ mirror'.stops = With(settings, change[o])
      BY <2>1, <2>3 DEF WriteMirror, NewMirror, SwitchesTypeOK
    <3>2. With(settings, change[o]) = With(settings, change'[o])
      BY <1>2 DEF With
    <3> QED
      BY <1>2, <2>1, <3>1, <3>2 DEF MirrorFollows
  <2>4. CASE MirrorUnwritten(o)
    BY <1>5, <2>4 DEF MirrorUnwritten
  <2> QED
    BY <2>2, <2>3, <2>4
<1>6. AloneHoldsSettings'
  BY <1>1 DEF AloneHoldsSettings, Rebuilding, ReadMirror, WriteMirror, MirrorUnwritten
<1> QED
  BY <1>4, <1>5, <1>6 DEF Together, MirrorFollows

(* The end of a change. *)
LEMMA EndKeeps ==
  ASSUME SwitchesInv, NEW o \in Operators, CommitChange(o) \/ RollBackChange(o)
  PROVE  Together'
<1> USE DEF SwitchesInv
<1>1. /\ Changing' = Changing \ {o} /\ \A p \in Changing' : change'[p] = change[p]
      /\ mirror' = mirror /\ rebuild' = rebuild
  BY DEF SwitchesTypeOK, CommitChange, RollBackChange, Changing, NoChange
<1>2. CASE CommitChange(o)
  <2>1. o \in Changing /\ doubt' = doubt /\ change[o].at = "mirrored"
    BY <1>2 DEF CommitChange, Changing
  <2>2. ~doubt => Changing' = {} /\ (mirror.loaded => mirror.stops = settings')
    <3> SUFFICES ASSUME ~doubt PROVE Changing' = {} /\ (mirror.loaded => mirror.stops = settings')
      OBVIOUS
    <3>1. settings' = With(settings, change[o])
      <4>1. CASE change[o].writes = "value"
        BY <1>2, <4>1 DEF CommitChange
      <4>2. CASE change[o].writes # "value"
        <5>1. settings' = settings
          BY <1>2, <4>2 DEF CommitChange
        <5>2. settings \intersect change[o].key = change[o].value
          BY <2>1, <4>2 DEF MirrorFollows
        <5> QED
          BY <5>1, <5>2 DEF With
      <4> QED
        BY <4>1, <4>2
    <3>2. Changing' = {}
      BY <1>1, <2>1 DEF OneChange
    <3>3. mirror.loaded => mirror.stops = With(settings, change[o])
      BY <2>1 DEF MirrorFollows
    <3> QED
      BY <3>1, <3>2, <3>3
  <2>3. AloneHoldsSettings'
    BY <1>1, <2>1 DEF AloneHoldsSettings, Rebuilding
  <2> QED
    BY <1>1, <2>1, <2>2, <2>3 DEF Together, OneChange, MirrorFollows
<1>3. CASE RollBackChange(o)
  <2>1. settings' = settings /\ (~doubt' => ~doubt /\ change[o].at # "mirrored")
    BY <1>3 DEF RollBackChange
  <2>2. OneChange'
    BY <1>1, <2>1 DEF OneChange
  <2>3. AloneHoldsSettings'
    BY <1>1, <2>1 DEF AloneHoldsSettings, Rebuilding
  <2>4. ASSUME ~doubt' PROVE MirrorFollows'
    <3>1. CASE o \in Changing
      <4>1. Changing' = {} /\ (mirror.loaded => mirror.stops = settings)
        BY <1>1, <2>1, <2>4, <3>1 DEF OneChange, MirrorFollows
      <4> QED
        BY <1>1, <2>1, <4>1 DEF MirrorFollows
    <3>2. CASE o \notin Changing
      <4>1. Changing' = Changing
        BY <1>1, <3>2
      <4> QED
        BY <1>1, <2>1, <2>4, <4>1 DEF MirrorFollows, With
    <3> QED
      BY <3>1, <3>2
  <2> QED
    BY <2>2, <2>3, <2>4 DEF Together, MirrorFollows
<1> QED
  BY <1>2, <1>3

(* Readers rebuild the mirror, Redis loses it. *)
LEMMA RebuildKeeps ==
  ASSUME SwitchesInv, LoseMirror \/ \E r \in Readers : LoadSettings(r) \/ Rebuild(r) \/ RebuildFails(r)
  PROVE  Together'
<1> USE DEF SwitchesInv
<1>1. Changing' = Changing /\ change' = change /\ settings' = settings
  BY DEF LoseMirror, LoadSettings, Rebuild, RebuildFails, Changing
<1>2. CASE LoseMirror
  BY <1>1, <1>2 DEF LoseMirror, Together, OneChange, MirrorFollows, AloneHoldsSettings, Rebuilding
<1>3. ASSUME NEW r \in Readers, LoadSettings(r) PROVE Together'
  <2>1. OneChange' /\ MirrorFollows'
    BY <1>1, <1>3 DEF LoadSettings, OneChange, MirrorFollows, With
  <2>2. AloneHoldsSettings'
    BY <1>1, <1>3 DEF LoadSettings, AloneHoldsSettings, Rebuilding
  <2> QED
    BY <2>1, <2>2 DEF Together
<1>4. ASSUME NEW r \in Readers, Rebuild(r) PROVE Together'
  <2>1. ~doubt' => /\ rebuild[r].alone /\ Changing = {} /\ rebuild[r].copy = settings
    BY <1>4 DEF Rebuild, AloneHoldsSettings, Rebuilding
  <2>2. OneChange' /\ MirrorFollows'
    BY <1>1, <1>4, <2>1 DEF Rebuild, OneChange, MirrorFollows
  <2>3. AloneHoldsSettings'
    BY <1>1, <1>4 DEF Rebuild, AloneHoldsSettings, Rebuilding, NoRebuild, SwitchesTypeOK
  <2> QED
    BY <2>2, <2>3 DEF Together
<1>5. ASSUME NEW r \in Readers, RebuildFails(r) PROVE Together'
  <2>1. OneChange' /\ MirrorFollows'
    BY <1>1, <1>5 DEF RebuildFails, OneChange, MirrorFollows, With
  <2>2. AloneHoldsSettings'
    BY <1>1, <1>5 DEF RebuildFails, AloneHoldsSettings, Rebuilding, NoRebuild, SwitchesTypeOK
  <2> QED
    BY <2>1, <2>2 DEF Together
<1> QED
  BY <1>2, <1>3, <1>4, <1>5

-----------------------------------------------------------------------------
(* Every step keeps the invariant. *)
LEMMA SwitchesStepInv == SwitchesInv /\ [SwitchesNext]_switchVars => SwitchesInv'
<1> SUFFICES ASSUME SwitchesInv, [SwitchesNext]_switchVars PROVE SwitchesInv'
  OBVIOUS
<1>1. SwitchesTypeOK
  BY DEF SwitchesInv
<1>2. CASE UNCHANGED switchVars
  BY <1>2 DEF SwitchesInv, SwitchesTypeOK, OneChange, MirrorFollows, AloneHoldsSettings, Changing, Rebuilding,
              With, switchVars
<1>3. CASE LoseMirror \/ \E r \in Readers : LoadSettings(r) \/ Rebuild(r) \/ RebuildFails(r)
  BY <1>1, <1>3, RebuildTypes, RebuildKeeps DEF SwitchesInv, Together
<1>4. ASSUME NEW o \in Operators,
             \/ \E f \in Flags, on \in BOOLEAN : CallSet(o, f, on)
             \/ \E m \in Modules, on \in BOOLEAN : CallPause(o, m, on)
      PROVE  SwitchesInv'
  <2>1. SwitchesTypeOK'
    BY <1>1, <1>4, ChangeTypes
  <2> QED
    BY <1>4, <2>1, CallKeeps DEF SwitchesInv, Together
<1>5. ASSUME NEW o \in Operators,
             \/ Flush(o) \/ (\E found \in BOOLEAN : ReadMirror(o, found)) \/ WriteMirror(o)
             \/ MirrorUnwritten(o) \/ CommitChange(o) \/ RollBackChange(o)
      PROVE  SwitchesInv'
  <2>1. SwitchesTypeOK'
    BY <1>1, <1>5, ChangeTypes
  <2>2. Together'
    BY <1>5, ChangeFlushKeeps, MirrorKeeps, EndKeeps
  <2> QED
    BY <2>1, <2>2 DEF SwitchesInv, Together
<1> QED
  BY <1>2, <1>3, <1>4, <1>5 DEF SwitchesNext

(* The inductive invariant holds in every reachable state. *)
THEOREM SwitchesInvariant == SwitchesSpec => []SwitchesInv
<1>1. SwitchesInit => SwitchesInv
  BY SwitchesInitInv
<1>2. SwitchesInv /\ [SwitchesNext]_switchVars => SwitchesInv'
  BY SwitchesStepInv
<1> QED
  BY <1>1, <1>2, PTL DEF SwitchesSpec

(* For any number of operators and readers the mirror is wrong between two changes
   only after one of the mishaps that leave it in doubt.                      *)
THEOREM MirrorIsWrongOnlyByCause == SwitchesSpec => []MirrorWrongOnlyByCause
<1>1. SwitchesInv => MirrorWrongOnlyByCause
  BY DEF SwitchesInv, MirrorFollows, MirrorWrongOnlyByCause, MirrorIsRight
<1> QED
  BY <1>1, SwitchesInvariant, PTL

-----------------------------------------------------------------------------
(* OrgTree: the walk is well defined.  It is defined by a recursion on the   *)
(* rows left, which are fewer at each step: a smallest set of rows on which   *)
(* two walks differed, or on which there was none, would not be one.          *)

\* A finite set of ids.
RowSet(nodes) == nodes \in SUBSET Nat /\ IsFiniteSet(nodes)

Sub(nodes) == (SUBSET nodes) \X (SUBSET nodes)

\* One step of the walk, with the walk that continues it.
WalkStep(p, walk, t) ==
  LET left == t[1]
      siblings == t[2] \intersect left
      x == Min(siblings)
      rest == left \ {x}
  IN  IF siblings = {} THEN <<>>
      ELSE <<x>> \o walk[<<rest, Children(rest, p, x)>>]
             \o <<x>> \o walk[<<rest, siblings \ {x}>>]

\* g is the walk of the subsets of left.
Solves(nodes, p, g, left) ==
  \A t \in Sub(nodes) : t[1] \subseteq left => g[t] = WalkStep(p, g, t)

LEMMA WalkDef == ASSUME NEW nodes, NEW p
  PROVE Walks(nodes, p) = CHOOSE walk : walk = [t \in Sub(nodes) |-> WalkStep(p, walk, t)]
BY DEF Walks, WalkStep, Sub

LEMMA WalkFound == ASSUME NEW nodes, NEW p, NEW g, g = [t \in Sub(nodes) |-> WalkStep(p, g, t)]
  PROVE Walks(nodes, p) = [t \in Sub(nodes) |-> WalkStep(p, Walks(nodes,p), t)]
BY WalkDef

\* Minimal element of a set of finite sets
LEMMA SmallestSet ==
  ASSUME NEW nodes, RowSet(nodes), NEW T, T \subseteq SUBSET nodes, T # {}
  PROVE \E L \in T : \A K \in T : K \subseteq L => K = L
<1>1. T \subseteq FiniteSubsetsOf(nodes)
  BY FS_Subset DEF FiniteSubsetsOf, RowSet
<1>2. \E L \in T : \A K \in T : ~(<<K, L>> \in StrictSubsetOrdering(nodes))
  BY <1>1, WFMin, FS_StrictSubsetOrderingWellFounded
<1> QED
  BY <1>2 DEF StrictSubsetOrdering

LEMMA SmallestNumber == ASSUME NEW T \in SUBSET Nat, T # {}
  PROVE \E n \in T : \A k \in T : n <= k
<1> DEFINE below == {1 .. n : n \in T}
<1>1. below \subseteq FiniteSubsetsOf(Nat) /\ below # {}
  <2>1. \A n \in T : IsFiniteSet(1 .. n) /\ 1 .. n \subseteq Nat
    BY FS_Interval
  <2> QED
    BY <2>1 DEF FiniteSubsetsOf
<1>2. PICK L \in below : \A K \in below : ~(<<K, L>> \in StrictSubsetOrdering(Nat))
  <2> HIDE DEF below
  <2> QED
    BY <1>1, WFMin, FS_StrictSubsetOrderingWellFounded
<1>3. PICK n \in T : L = 1 .. n
  OBVIOUS
<1>4. ASSUME NEW k \in T, k < n PROVE FALSE
  <2>1. 1 .. k \in below /\ 1 .. k \subseteq 1 .. n /\ n \in 1 .. n /\ n \notin 1 .. k
    BY <1>4
  <2>2. 1 .. k \in SUBSET Nat /\ 1 .. n \in SUBSET Nat
    OBVIOUS
  <2>3. <<1 .. k, 1 .. n>> \in StrictSubsetOrdering(Nat)
    BY <2>1, <2>2 DEF StrictSubsetOrdering
  <2> QED
    BY <1>2, <1>3, <2>1, <2>3
<1> QED
  BY <1>4

LEMMA MinIs == ASSUME NEW S \in SUBSET Nat, S # {}
  PROVE Min(S) \in S /\ \A k \in S : Min(S) <= k
BY SmallestNumber DEF Min

\* A step of the walk looks at fewer rows left only.
LEMMA StepAgrees ==
  ASSUME NEW nodes, RowSet(nodes), NEW p, NEW g, NEW h, NEW t \in Sub(nodes),
         \A s \in Sub(nodes) : s[1] \subseteq t[1] /\ s[1] # t[1] => g[s] = h[s]
  PROVE  WalkStep(p, g, t) = WalkStep(p, h, t)
<1> DEFINE siblings == t[2] \intersect t[1]
           x == Min(siblings)
           rest == t[1] \ {x}
<1>1. CASE siblings = {}
  BY <1>1 DEF WalkStep
<1>2. CASE siblings # {}
  <2>1. x \in siblings
    BY <1>2, MinIs DEF Sub, RowSet
  <2>2. <<rest, Children(rest, p, x)>> \in Sub(nodes) /\ <<rest, siblings \ {x}>> \in Sub(nodes)
    BY DEF Sub, Children
  <2>3. rest \subseteq t[1] /\ rest # t[1]
    BY <2>1
  <2>4. g[<<rest, Children(rest, p, x)>>] = h[<<rest, Children(rest, p, x)>>]
    BY <2>2, <2>3
  <2>5. g[<<rest, siblings \ {x}>>] = h[<<rest, siblings \ {x}>>]
    BY <2>2, <2>3
  <2> QED
    BY <1>2, <2>4, <2>5 DEF WalkStep
<1> QED
  BY <1>1, <1>2

LEMMA WalksAgree ==
  ASSUME NEW nodes, RowSet(nodes), NEW p, NEW g, NEW h,
         NEW K, NEW L, Solves(nodes, p, g, K), Solves(nodes, p, h, L),
         NEW t \in Sub(nodes), t[1] \subseteq K, t[1] \subseteq L
  PROVE  g[t] = h[t]
<1> DEFINE bad == {M \in SUBSET nodes : M \subseteq K /\ M \subseteq L
                      /\ \E s \in Sub(nodes) : s[1] = M /\ g[s] # h[s]}
<1>1. CASE bad = {}
  BY <1>1 DEF Sub
<1>2. CASE bad # {}
  <2>1. PICK M \in bad : \A N \in bad : N \subseteq M => N = M
    <3>1. bad \subseteq SUBSET nodes /\ bad # {}
      BY <1>2
    <3> HIDE DEF bad
    <3> QED
      BY <3>1, SmallestSet
  <2>2. PICK s \in Sub(nodes) : s[1] = M /\ g[s] # h[s]
    OBVIOUS
  <2>3. ASSUME NEW r \in Sub(nodes), r[1] \subseteq s[1], r[1] # s[1] PROVE g[r] = h[r]
    <3>1. r[1] \in SUBSET nodes /\ r[1] \subseteq K /\ r[1] \subseteq L
      BY <2>2, <2>3 DEF Sub
    <3> QED
      BY <2>1, <2>2, <2>3, <3>1
  <2>4. WalkStep(p, g, s) = WalkStep(p, h, s)
    BY <2>3, StepAgrees
  <2> QED
    BY <2>2, <2>4 DEF Solves
<1> QED
  BY <1>1, <1>2

LEMMA WalkExists ==
  ASSUME NEW nodes, RowSet(nodes), NEW p
  PROVE  \E g : Solves(nodes, p, g, nodes)
<1> DEFINE bad == {L \in SUBSET nodes : ~ \E g : Solves(nodes, p, g, L)}
<1> SUFFICES ASSUME bad # {} PROVE FALSE
  OBVIOUS
<1>1. PICK L \in bad : \A K \in bad : K \subseteq L => K = L
  <2>1. bad \subseteq SUBSET nodes /\ bad # {}
    OBVIOUS
  <2> HIDE DEF bad
  <2> QED
    BY <2>1, SmallestSet
<1> DEFINE sol(K) == CHOOSE g : Solves(nodes, p, g, K)
           inner == [t \in Sub(nodes) |-> sol(t[1])[t]]
           whole == [t \in Sub(nodes) |-> IF t[1] = L THEN WalkStep(p, inner, t) ELSE inner[t]]
<1>2. ASSUME NEW K \in SUBSET nodes, K \subseteq L, K # L PROVE Solves(nodes, p, sol(K), K)
  <2>1. \E g : Solves(nodes, p, g, K)
    BY <1>1, <1>2
  <2> QED
    BY <2>1
<1> HIDE DEF sol
<1>3. ASSUME NEW t \in Sub(nodes), t[1] \subseteq L PROVE whole[t] = WalkStep(p, whole, t)
  <2>1. CASE t[1] = L
    <3>1. \A s \in Sub(nodes) : s[1] \subseteq t[1] /\ s[1] # t[1] => inner[s] = whole[s]
      BY <2>1
    <3>2. WalkStep(p, inner, t) = WalkStep(p, whole, t)
      <4> HIDE DEF inner, whole
      <4> QED
        BY <3>1, StepAgrees
    <3> QED
      BY <2>1, <3>2
  <2>2. CASE t[1] # L
    <3> DEFINE own == sol(t[1])
    <3>1. Solves(nodes, p, own, t[1]) /\ t[1] \in SUBSET nodes
      BY <1>2, <1>3, <2>2 DEF Sub
    <3>2. ASSUME NEW s \in Sub(nodes), s[1] \subseteq t[1], s[1] # t[1] PROVE own[s] = whole[s]
      <4>1. Solves(nodes, p, sol(s[1]), s[1])
        BY <1>2, <1>3, <2>2, <3>2 DEF Sub
      <4>2. own[s] = sol(s[1])[s]
        BY <3>1, <3>2, <4>1, WalksAgree
      <4> QED
        BY <1>3, <2>2, <3>2, <4>2
    <3>3. WalkStep(p, own, t) = WalkStep(p, whole, t)
      <4> HIDE DEF own, whole
      <4> QED
        BY <3>2, StepAgrees
    <3>4. own[t] = WalkStep(p, own, t)
      BY <3>1 DEF Solves
    <3> QED
      BY <2>2, <3>3, <3>4
  <2> QED
    BY <2>1, <2>2
<1>4. Solves(nodes, p, whole, L)
  BY <1>3 DEF Solves
<1> QED
  BY <1>1, <1>4

(* The recursive definition of the walk has a solution, so the walk is one. *)
LEMMA WalkUnfolds ==
  ASSUME NEW nodes, RowSet(nodes), NEW p
  PROVE  Solves(nodes, p, Walks(nodes, p), nodes)
<1>1. PICK g : Solves(nodes, p, g, nodes)
  BY WalkExists
<1> DEFINE walk == [t \in Sub(nodes) |-> g[t]]
<1>2. ASSUME NEW t \in Sub(nodes) PROVE walk[t] = WalkStep(p, walk, t)
  <2>1. \A s \in Sub(nodes) : s[1] \subseteq t[1] /\ s[1] # t[1] => g[s] = walk[s]
    OBVIOUS
  <2>2. WalkStep(p, g, t) = WalkStep(p, walk, t)
    <3> HIDE DEF walk
    <3> QED
      BY <2>1, StepAgrees
  <2>3. t[1] \subseteq nodes
    BY DEF Sub
  <2> QED
    BY <1>1, <2>2, <2>3 DEF Solves
<1>3. walk = [t \in Sub(nodes) |-> WalkStep(p, walk, t)]
  <2>1. DOMAIN walk = Sub(nodes) /\ walk = [t \in DOMAIN walk |-> walk[t]]
    OBVIOUS
  <2> HIDE DEF walk
  <2> QED
    BY <1>2, <2>1
<1>4. Walks(nodes, p) = [t \in Sub(nodes) |-> WalkStep(p, Walks(nodes, p), t)]
  <2> HIDE DEF walk
  <2> QED
    BY <1>3, WalkFound
<1> QED
  BY <1>4 DEF Solves

-----------------------------------------------------------------------------
(* OrgTree: what a walk writes.  By the same induction, it enters and leaves  *)
(* each of the rows it reaches once, and one row within another exactly if    *)
(* the parents lead from the one to the other.                                *)

Within(f, g, u, v) == f[u] < f[v] /\ g[v] < g[u]

\* w enters row v at f[v] and leaves it at g[v]; the rows it enters are the
\* siblings and their descendants among the rows left.
Marks(p, left, siblings, w, f, g) ==
  /\ DOMAIN f \subseteq left /\ siblings \subseteq DOMAIN f
  /\ \A v \in left : p[v] \in DOMAIN f => v \in DOMAIN f
  /\ \A v \in DOMAIN f : v \in siblings \/ p[v] \in DOMAIN f
  /\ w \in Seq(left) /\ Len(w) = 2 * Cardinality(DOMAIN f)
  /\ f \in [DOMAIN f -> 1 .. Len(w)] /\ g \in [DOMAIN f -> 1 .. Len(w)]
  /\ \A v \in DOMAIN f : f[v] < g[v] /\ w[f[v]] = v /\ w[g[v]] = v
  /\ \A i \in 1 .. Len(w) : w[i] \in DOMAIN f /\ (i = f[w[i]] \/ i = g[w[i]])
  /\ \A u, v \in DOMAIN f :
       Within(f, g, u, v) <=> p[v] \in DOMAIN f /\ (u = p[v] \/ Within(f, g, u, p[v]))

\* w goes from x through w1 to x again, and on through w2.
Joined(A, x, w1, w2, w) ==
  /\ w \in Seq(A) /\ Len(w) = Len(w1) + Len(w2) + 2
  /\ w[1] = x /\ w[Len(w1) + 2] = x
  /\ \A i \in 1 .. Len(w1) : w[i + 1] = w1[i]
  /\ \A i \in 1 .. Len(w2) : w[Len(w1) + 2 + i] = w2[i]
  /\ \A k \in 1 .. Len(w) : \/ k = 1 \/ k = Len(w1) + 2
                            \/ \E i \in 1 .. Len(w1) : k = i + 1
                            \/ \E i \in 1 .. Len(w2) : k = Len(w1) + 2 + i

\* Two walks side by side, the first under x.
LEMMA JoinedWalk ==
  ASSUME NEW A, NEW x, x \in A, NEW w1, w1 \in Seq(A), NEW w2, w2 \in Seq(A), NEW w,
         w = <<x>> \o w1 \o <<x>> \o w2
  PROVE  Joined(A, x, w1, w2, w)
<1> DEFINE a == <<x>> \o w1
           b == a \o <<x>>
<1>0. Len(w1) \in Nat /\ Len(w2) \in Nat /\ <<x>> \in Seq(A) /\ Len(<<x>>) = 1 /\ <<x>>[1] = x
  OBVIOUS
<1>1. a \in Seq(A) /\ Len(a) = Len(w1) + 1 /\ a[1] = x /\ \A i \in 1 .. Len(w1) : a[i + 1] = w1[i]
  BY <1>0
<1> HIDE DEF a
<1>2. /\ b \in Seq(A) /\ Len(b) = Len(w1) + 2 /\ b[1] = x /\ b[Len(w1) + 2] = x
      /\ \A i \in 1 .. Len(w1) : b[i + 1] = w1[i]
  BY <1>0, <1>1
<1>3. w = b \o w2
  BY <1>1, <1>2 DEF a
<1> HIDE DEF b
<1>4. w \in Seq(A) /\ Len(w) = Len(w1) + Len(w2) + 2
  BY <1>0, <1>2, <1>3
<1>5. \A k \in 1 .. Len(b) : w[k] = b[k]
  BY <1>0, <1>2, <1>3
<1>6. \A i \in 1 .. Len(w2) : w[Len(b) + i] = w2[i]
  BY <1>0, <1>2, <1>3
<1>7. ASSUME NEW k \in 1 .. Len(w), k # 1, k # Len(w1) + 2,
             ~ \E i \in 1 .. Len(w1) : k = i + 1
      PROVE  \E i \in 1 .. Len(w2) : k = Len(w1) + 2 + i
  <2>1. k - 1 \in 1 .. Len(w1) => k = (k - 1) + 1
    BY <1>0, <1>4, <1>7
  <2>2. k > Len(w1) + 2
    BY <1>0, <1>4, <1>7, <2>1
  <2>3. k - (Len(w1) + 2) \in 1 .. Len(w2) /\ k = Len(w1) + 2 + (k - (Len(w1) + 2))
    BY <1>0, <1>4, <2>2
  <2> QED
    BY <2>3
<1> QED
  BY <1>0, <1>2, <1>4, <1>5, <1>6, <1>7 DEF Joined

\* A row that two walks of the same rows enter would have its parent entered by both.
LEMMA WalksApart ==
  ASSUME NEW p, NEW L, NEW S, NEW x \in L, S \subseteq L, \A y \in S : p[y] \notin L,
         NEW w1, NEW f1, NEW g1, Marks(p, L \ {x}, Children(L \ {x}, p, x), w1, f1, g1),
         NEW w2, NEW f2, NEW g2, Marks(p, L \ {x}, S \ {x}, w2, f2, g2)
  PROVE  DOMAIN f1 \cap DOMAIN f2 = {}
<1> DEFINE both == DOMAIN f1 \cap DOMAIN f2
           times == {f1[v] : v \in both}
<1> SUFFICES ASSUME both # {} PROVE FALSE
  OBVIOUS
<1>1. times \in SUBSET Nat /\ times # {}
  BY DEF Marks
<1>2. PICK n \in times : \A k \in times : n <= k
  <2> HIDE DEF times
  <2> QED
    BY <1>1, SmallestNumber
<1>3. PICK v \in both : n = f1[v]
  OBVIOUS
<1>4. v \notin Children(L \ {x}, p, x)
  <2>1. ASSUME p[v] = x PROVE FALSE
    <3>1. v \in S \ {x} \/ p[v] \in DOMAIN f2
      BY DEF Marks
    <3> QED
      BY <2>1, <3>1 DEF Marks
  <2> QED
    BY <2>1 DEF Children
<1>5. p[v] \in DOMAIN f1 /\ f1[p[v]] < f1[v]
  BY <1>4 DEF Marks, Within
<1>6. p[v] \in DOMAIN f2
  BY <1>5 DEF Marks
<1>7. f1[p[v]] \in times /\ f1[p[v]] \in Nat /\ n \in Nat
  BY <1>1, <1>5, <1>6
<1> QED
  BY <1>2, <1>3, <1>5, <1>7

LEMMA MarksJoined ==
  ASSUME NEW p, NEW L, IsFiniteSet(L), NEW S, NEW x \in S, S \subseteq L, \A y \in S : p[y] \notin L,
         NEW w1, NEW f1, NEW g1, Marks(p, L \ {x}, Children(L \ {x}, p, x), w1, f1, g1),
         NEW w2, NEW f2, NEW g2, Marks(p, L \ {x}, S \ {x}, w2, f2, g2),
         NEW w, w = <<x>> \o w1 \o <<x>> \o w2
  PROVE  \E f, g : Marks(p, L, S, w, f, g)
<1> DEFINE V1 == DOMAIN f1
           V2 == DOMAIN f2
           V == {x} \cup V1 \cup V2
           n == Len(w1) + 2
           f == [v \in V |-> IF v = x THEN 1 ELSE IF v \in V1 THEN f1[v] + 1 ELSE n + f2[v]]
           g == [v \in V |-> IF v = x THEN n ELSE IF v \in V1 THEN g1[v] + 1 ELSE n + g2[v]]
<1>0. x \in L
  OBVIOUS
<1>1. V1 \cap V2 = {} /\ x \notin V1 /\ x \notin V2 /\ V \subseteq L
  <2>1. V1 \cap V2 = {}
    BY <1>0, WalksApart
  <2>2. V1 \subseteq L \ {x} /\ V2 \subseteq L \ {x}
    BY DEF Marks
  <2> QED
    BY <1>0, <2>1, <2>2
<1>2. w1 \in Seq(L) /\ w2 \in Seq(L) /\ Len(w1) \in Nat /\ Len(w2) \in Nat
  <2>1. w1 \in Seq(L \ {x}) /\ w2 \in Seq(L \ {x})
    BY DEF Marks
  <2> QED
    BY <2>1
<1>3. /\ w \in Seq(L) /\ Len(w) = Len(w1) + Len(w2) + 2
      /\ w[1] = x /\ w[n] = x
      /\ \A i \in 1 .. Len(w1) : w[i + 1] = w1[i]
      /\ \A i \in 1 .. Len(w2) : w[n + i] = w2[i]
      /\ \A k \in 1 .. Len(w) : \/ k = 1 \/ k = n
                                \/ \E i \in 1 .. Len(w1) : k = i + 1
                                \/ \E i \in 1 .. Len(w2) : k = n + i
  <2>1. Joined(L, x, w1, w2, w)
    BY <1>0, <1>2, JoinedWalk
  <2> QED
    BY <2>1 DEF Joined
<1>4. Len(w) = 2 * Cardinality(V)
  <2>1. IsFiniteSet(V1) /\ IsFiniteSet(V2)
    BY <1>1, FS_Subset
  <2>2. IsFiniteSet(V1 \cup V2) /\ Cardinality(V1 \cup V2) = Cardinality(V1) + Cardinality(V2)
    <3>1. Cardinality(V1 \cap V2) = 0
      BY <1>1, FS_EmptySet
    <3>2. Cardinality(V1) \in Nat /\ Cardinality(V2) \in Nat
      BY <2>1, FS_CardinalityType
    <3>3. Cardinality(V1 \cup V2) = Cardinality(V1) + Cardinality(V2) - Cardinality(V1 \cap V2)
      <4> HIDE DEF V1, V2
      <4> QED
        BY <2>1, FS_Union
    <3>4. IsFiniteSet(V1 \cup V2)
      BY <2>1, FS_Union
    <3> HIDE DEF V1, V2
    <3> QED
      BY <3>1, <3>2, <3>3, <3>4
  <2>3. V = (V1 \cup V2) \cup {x} /\ x \notin V1 \cup V2
    BY <1>1
  <2>4. Cardinality(V) = Cardinality(V1) + Cardinality(V2) + 1
    BY <2>2, <2>3, FS_AddElement
  <2>5. Cardinality(V1) \in Nat /\ Cardinality(V2) \in Nat
    BY <2>1, FS_CardinalityType
  <2>6. Len(w1) = 2 * Cardinality(V1) /\ Len(w2) = 2 * Cardinality(V2)
    BY DEF Marks
  <2> QED
    BY <1>3, <2>4, <2>5, <2>6
<1>5. ASSUME NEW v \in V1
      PROVE  /\ v # x /\ f1[v] \in 1 .. Len(w1) /\ g1[v] \in 1 .. Len(w1) /\ f1[v] < g1[v]
             /\ f[v] = f1[v] + 1 /\ g[v] = g1[v] + 1 /\ w1[f1[v]] = v /\ w1[g1[v]] = v
  BY <1>1 DEF Marks
<1>6. ASSUME NEW v \in V2
      PROVE  /\ v # x /\ f2[v] \in 1 .. Len(w2) /\ g2[v] \in 1 .. Len(w2) /\ f2[v] < g2[v]
             /\ f[v] = n + f2[v] /\ g[v] = n + g2[v] /\ w2[f2[v]] = v /\ w2[g2[v]] = v
  BY <1>1 DEF Marks
<1>7. f[x] = 1 /\ g[x] = n /\ n \in Nat /\ n = Len(w1) + 2
  BY <1>2
<1>8. DOMAIN f = V /\ DOMAIN g = V
  OBVIOUS
<1>a. ASSUME NEW v \in V1
      PROVE  f[v] \in Nat /\ g[v] \in Nat /\ 1 < f[v] /\ f[v] < n /\ 1 < g[v] /\ g[v] < n
  BY <1>2, <1>5
<1>b. ASSUME NEW v \in V2 PROVE f[v] \in Nat /\ g[v] \in Nat /\ n < f[v] /\ n < g[v]
  BY <1>2, <1>6, <1>7
<1>c. ASSUME NEW u \in V1, NEW v \in V1 PROVE Within(f, g, u, v) <=> Within(f1, g1, u, v)
  BY <1>2, <1>5 DEF Within
<1>d. ASSUME NEW u \in V2, NEW v \in V2 PROVE Within(f, g, u, v) <=> Within(f2, g2, u, v)
  BY <1>2, <1>6, <1>7 DEF Within
<1> HIDE DEF f, g, n
<1>e. ASSUME NEW v \in V1 PROVE Within(f, g, x, v) /\ ~ Within(f, g, v, x) /\ \A u \in V2 : ~ Within(f, g, u, v)
  BY <1>7, <1>a, <1>b, <1>e DEF Within
<1>f. ASSUME NEW v \in V2 PROVE ~ Within(f, g, x, v) /\ ~ Within(f, g, v, x) /\ \A u \in V1 : ~ Within(f, g, u, v)
  BY <1>7, <1>a, <1>b, <1>f DEF Within
<1>g. ~ Within(f, g, x, x)
  BY <1>7 DEF Within
<1>9. \A v \in L : p[v] \in V => v \in V
  BY <1>1 DEF Marks, Children
<1>10. \A v \in V : v \in S \/ p[v] \in V
  BY DEF Marks, Children
<1>11. \A v \in V : f[v] \in 1 .. Len(w) /\ g[v] \in 1 .. Len(w) /\ f[v] < g[v]
  <2>1. 1 \in 1 .. Len(w) /\ n \in 1 .. Len(w) /\ 1 < n
    BY <1>2, <1>3, <1>7
  <2>2. ASSUME NEW v \in V1 PROVE f[v] \in 1 .. Len(w) /\ g[v] \in 1 .. Len(w) /\ f[v] < g[v]
    <3>1. /\ f1[v] \in 1 .. Len(w1) /\ g1[v] \in 1 .. Len(w1) /\ f1[v] < g1[v]
          /\ f[v] = f1[v] + 1 /\ g[v] = g1[v] + 1
      BY <1>5, <2>2
    <3>2. Len(w) = Len(w1) + Len(w2) + 2
      BY <1>3
    <3> QED
      BY <1>2, <3>1, <3>2
  <2>3. ASSUME NEW v \in V2 PROVE f[v] \in 1 .. Len(w) /\ g[v] \in 1 .. Len(w) /\ f[v] < g[v]
    <3>1. /\ f2[v] \in 1 .. Len(w2) /\ g2[v] \in 1 .. Len(w2) /\ f2[v] < g2[v]
          /\ f[v] = n + f2[v] /\ g[v] = n + g2[v]
      BY <1>6, <2>3
    <3>2. Len(w) = Len(w1) + Len(w2) + 2
      BY <1>3
    <3> QED
      BY <1>2, <1>7, <3>1, <3>2
  <2> QED
    BY <1>7, <2>1, <2>2, <2>3
<1>12. \A v \in V : w[f[v]] = v /\ w[g[v]] = v
  <2>1. ASSUME NEW v \in V1 PROVE w[f[v]] = v /\ w[g[v]] = v
    <3>1. f1[v] \in 1 .. Len(w1) /\ g1[v] \in 1 .. Len(w1)
      BY <1>5, <2>1
    <3>2. w[f1[v] + 1] = w1[f1[v]] /\ w[g1[v] + 1] = w1[g1[v]]
      BY <1>3, <3>1
    <3> QED
      BY <1>5, <2>1, <3>2
  <2>2. ASSUME NEW v \in V2 PROVE w[f[v]] = v /\ w[g[v]] = v
    <3>1. f2[v] \in 1 .. Len(w2) /\ g2[v] \in 1 .. Len(w2)
      BY <1>6, <2>2
    <3>2. w[n + f2[v]] = w2[f2[v]] /\ w[n + g2[v]] = w2[g2[v]]
      BY <1>3, <3>1
    <3> QED
      BY <1>6, <2>2, <3>2
  <2> QED
    BY <1>3, <1>7, <2>1, <2>2
<1>13. ASSUME NEW i \in 1 .. Len(w) PROVE w[i] \in V /\ (i = f[w[i]] \/ i = g[w[i]])
  <2>1. CASE i = 1 \/ i = n
    BY <1>3, <1>7, <2>1
  <2>2. ASSUME NEW j \in 1 .. Len(w1), i = j + 1 PROVE w[i] \in V /\ (i = f[w[i]] \/ i = g[w[i]])
    <3>1. w[i] = w1[j] /\ w1[j] \in V1 /\ (j = f1[w1[j]] \/ j = g1[w1[j]])
      BY <1>3, <2>2 DEF Marks
    <3> QED
      BY <1>5, <2>2, <3>1
  <2>3. ASSUME NEW j \in 1 .. Len(w2), i = n + j PROVE w[i] \in V /\ (i = f[w[i]] \/ i = g[w[i]])
    <3>1. w[i] = w2[j] /\ w2[j] \in V2 /\ (j = f2[w2[j]] \/ j = g2[w2[j]])
      BY <1>3, <2>3 DEF Marks
    <3> QED
      BY <1>6, <2>3, <3>1
  <2> QED
    BY <1>3, <2>1, <2>2, <2>3
<1>14. ASSUME NEW u \in V, NEW v \in V
       PROVE  Within(f, g, u, v) <=> p[v] \in V /\ (u = p[v] \/ Within(f, g, u, p[v]))
  <2>1. CASE v = x
    <3>1. p[v] \notin V
      BY <1>1, <2>1
    <3> QED
      BY <1>e, <1>f, <1>g, <2>1, <3>1
  <2>2. CASE v \in V1
    <3>1. p[v] = x \/ p[v] \in V1
      BY <2>2 DEF Marks, Children
    <3>2. CASE u = x
      BY <1>e, <2>2, <3>1, <3>2
    <3>3. CASE u \in V1 /\ p[v] \in V1
      <4>1. Within(f1, g1, u, v) <=> (u = p[v] \/ Within(f1, g1, u, p[v]))
        BY <2>2, <3>3 DEF Marks
      <4> QED
        BY <1>c, <2>2, <3>3, <4>1
    <3>4. CASE u \in V1 /\ p[v] = x
      <4>1. ~ Within(f1, g1, u, v)
        BY <1>1, <2>2, <3>4 DEF Marks
      <4> QED
        BY <1>1, <1>c, <1>e, <2>2, <3>4, <4>1
    <3>5. CASE u \in V2
      BY <1>1, <1>e, <1>f, <2>2, <3>1, <3>5
    <3> QED
      BY <3>1, <3>2, <3>3, <3>4, <3>5
  <2>3. CASE v \in V2
    <3>1. p[v] # x /\ p[v] \notin V1
      BY <1>1, <2>3 DEF Marks, Children
    <3>2. CASE u \notin V2
      BY <1>f, <2>3, <3>1, <3>2
    <3>3. CASE u \in V2
      <4>1. Within(f2, g2, u, v) <=> p[v] \in V2 /\ (u = p[v] \/ Within(f2, g2, u, p[v]))
        BY <2>3, <3>3 DEF Marks
      <4> QED
        BY <1>d, <2>3, <3>1, <3>3, <4>1
    <3> QED
      BY <3>2, <3>3
  <2> QED
    BY <2>1, <2>2, <2>3
<1>15. S \subseteq V
  BY DEF Marks
<1>16. f \in [V -> 1 .. Len(w)] /\ g \in [V -> 1 .. Len(w)]
  BY <1>11 DEF f, g
<1>17. Marks(p, L, S, w, f, g)
  BY <1>1, <1>3, <1>4, <1>8, <1>9, <1>10, <1>11, <1>12, <1>13, <1>14, <1>15, <1>16 DEF Marks
<1> QED
  BY <1>17

Reaches(nodes, p, t) == \E f, g : Marks(p, t[1], t[2] \intersect t[1], Walks(nodes, p)[t], f, g)

LEMMA NothingMarked == ASSUME NEW p, NEW L PROVE \E f, g : Marks(p, L, {}, <<>>, f, g)
<1> DEFINE e == [v \in {} |-> 0]
<1>1. DOMAIN e = {} /\ <<>> \in Seq(L) /\ Len(<<>>) = 0 /\ Cardinality({}) = 0
  BY FS_EmptySet
<1>2. e \in [{} -> 1 .. 0]
  OBVIOUS
<1> HIDE DEF e
<1>3. Marks(p, L, {}, <<>>, e, e)
  BY <1>1, <1>2 DEF Marks
<1> QED
  BY <1>3

LEMMA WalkMarks ==
  ASSUME NEW nodes, RowSet(nodes), NEW p, NEW t \in Sub(nodes),
         \A y \in t[2] \intersect t[1] : p[y] \notin t[1]
  PROVE  Reaches(nodes, p, t)
<1> DEFINE Top(s) == \A y \in s[2] \intersect s[1] : p[y] \notin s[1]
           bad == {L \in SUBSET nodes : \E s \in Sub(nodes) : s[1] = L /\ Top(s) /\ ~ Reaches(nodes, p, s)}
<1> SUFFICES ASSUME bad # {} PROVE FALSE
  BY DEF Sub
<1>1. PICK L \in bad : \A K \in bad : K \subseteq L => K = L
  <2>1. bad \subseteq SUBSET nodes /\ bad # {}
    OBVIOUS
  <2> HIDE DEF bad
  <2> QED
    BY <2>1, SmallestSet
<1>2. PICK s \in Sub(nodes) : s[1] = L /\ Top(s) /\ ~ Reaches(nodes, p, s)
  OBVIOUS
<1>3. ASSUME NEW r \in Sub(nodes), r[1] \subseteq L, r[1] # L, Top(r) PROVE Reaches(nodes, p, r)
  BY <1>1, <1>3 DEF Sub
<1> DEFINE S == s[2] \intersect s[1]
           x == Min(S)
           rest == L \ {x}
           kids == Children(rest, p, x)
           under == <<rest, kids>>
           others == S \ {x}
           after == <<rest, others>>
           walk == Walks(nodes, p)
<1>4. walk[s] = WalkStep(p, walk, s) /\ L \subseteq nodes
  BY <1>2, WalkUnfolds DEF Solves, Sub
<1>5. CASE S = {}
  <2>1. walk[s] = <<>>
    BY <1>4, <1>5 DEF WalkStep
  <2>2. PICK f, g : Marks(p, L, {}, <<>>, f, g)
    BY NothingMarked
  <2>3. s[1] = L /\ s[2] \intersect s[1] = {}
    BY <1>2, <1>5
  <2>4. Marks(p, s[1], s[2] \intersect s[1], walk[s], f, g)
    BY <2>1, <2>2, <2>3
  <2> QED
    BY <1>2, <2>4 DEF Reaches
<1>6. CASE S # {}
  <2>1. x \in S /\ x \in L /\ S \subseteq L
    BY <1>2, <1>4, <1>6, MinIs DEF RowSet
  <2>2. walk[s] = <<x>> \o walk[under] \o <<x>> \o walk[after]
    BY <1>2, <1>4, <1>6 DEF WalkStep
  <2>3. under \in Sub(nodes) /\ after \in Sub(nodes) /\ rest \subseteq L /\ rest # L
    BY <1>2, <1>4, <2>1 DEF Sub, Children
  <2>4. under[2] \intersect under[1] = kids /\ after[2] \intersect after[1] = others
    BY <2>1 DEF Children
  <2>5. Top(under) /\ Top(after)
    BY <1>2, <2>4 DEF Children
  <2>a. under[1] = rest /\ after[1] = rest
    OBVIOUS
  <2>b. Reaches(nodes, p, under) /\ Reaches(nodes, p, after)
    <3> HIDE DEF under, after, rest, Top
    <3> QED
      BY <1>3, <2>3, <2>5, <2>a
  <2>6. PICK f1, g1 : Marks(p, rest, kids, walk[under], f1, g1)
    <3> HIDE DEF under, rest, kids
    <3> QED
      BY <2>4, <2>a, <2>b DEF Reaches
  <2>7. PICK f2, g2 : Marks(p, rest, others, walk[after], f2, g2)
    <3> HIDE DEF after, rest, others
    <3> QED
      BY <2>4, <2>a, <2>b DEF Reaches
  <2>8. IsFiniteSet(L) /\ \A y \in S : p[y] \notin L
    BY <1>2, <1>4, FS_Subset DEF RowSet
  <2>9. \E f, g : Marks(p, L, S, walk[s], f, g)
    <3> HIDE DEF walk, under, after, S, x
    <3> QED
      BY <2>1, <2>2, <2>6, <2>7, <2>8, MarksJoined
  <2> QED
    BY <1>2, <2>9 DEF Reaches
<1> QED
  BY <1>5, <1>6

LEMMA MaxIs == ASSUME NEW a \in Nat, NEW b \in Nat, a < b
  PROVE Min({a, b}) = a /\ Max({a, b}) = b
BY DEF Min, Max

(* What the layout gives when it does not end in a TreeError. *)
LEMMA LayoutMarks ==
  ASSUME NEW nodes, RowSet(nodes), NEW p, IsForest(nodes, Walk(nodes, p))
  PROVE  \E f, g : /\ Marks(p, nodes, Roots(nodes, p), Walk(nodes, p), f, g) /\ DOMAIN f = nodes
                   /\ Layout(nodes, Walk(nodes, p)) = [x \in nodes |-> <<f[x], g[x]>>]
<1> DEFINE t == <<nodes, Roots(nodes, p)>>
           w == Walk(nodes, p)
<1>1. t \in Sub(nodes) /\ t[2] \intersect t[1] = Roots(nodes, p) /\ t[1] = nodes
  BY DEF Sub, Roots
<1>2. \A y \in Roots(nodes, p) : p[y] \notin nodes
  BY DEF Roots
<1>3. Reaches(nodes, p, t)
  <2> HIDE DEF t
  <2> QED
    BY <1>1, <1>2, WalkMarks
<1>4. PICK f, g : Marks(p, nodes, Roots(nodes, p), w, f, g)
  BY <1>1, <1>3 DEF Reaches, Walk
<1> HIDE DEF w
<1>5. DOMAIN w = 1 .. Len(w)
  BY <1>4 DEF Marks
<1>6. DOMAIN f = nodes
  <2>1. ASSUME NEW x \in nodes PROVE x \in DOMAIN f
    <3>1. PICK i \in DOMAIN w : w[i] = x
      BY DEF IsForest, w
    <3> QED
      BY <1>4, <1>5, <3>1 DEF Marks
  <2>2. DOMAIN f \subseteq nodes
    BY <1>4 DEF Marks
  <2> QED
    BY <2>1, <2>2
<1>7. ASSUME NEW x \in nodes
      PROVE  LET steps == {i \in DOMAIN w : w[i] = x} IN <<Min(steps), Max(steps)>> = <<f[x], g[x]>>
  <2>1. f[x] \in 1 .. Len(w) /\ g[x] \in 1 .. Len(w) /\ f[x] < g[x] /\ w[f[x]] = x /\ w[g[x]] = x
    BY <1>4, <1>6 DEF Marks
  <2>2. {i \in DOMAIN w : w[i] = x} = {f[x], g[x]}
    BY <1>4, <1>5, <2>1 DEF Marks
  <2>3. f[x] \in Nat /\ g[x] \in Nat
    BY <2>1
  <2>4. Min({f[x], g[x]}) = f[x] /\ Max({f[x], g[x]}) = g[x]
    BY <2>1, <2>3, MaxIs
  <2> QED
    BY <2>2, <2>4
<1>8. Layout(nodes, w) = [x \in nodes |-> <<f[x], g[x]>>]
  BY <1>7 DEF Layout
<1> QED
  BY <1>4, <1>6, <1>8 DEF w

-----------------------------------------------------------------------------
(* OrgTree: a request that has loaded nothing that changed since lays out the *)
(* rows exactly as it leaves them.                                            *)

\* What a request is doing, without what it has loaded.
EditTypes(e) ==
  /\ edit[e].op \in {"none", "create", "rename", "move", "delete"}
  /\ edit[e].row \in Ids \union {top} /\ edit[e].to \in Ids \union {top}
  /\ edit[e].op # "none" => edit[e].row \in Ids
  /\ DOMAIN edit[e].was \subseteq Ids

\* The bounds are the layout of the walk, as recompute_bounds() has written them.
LaidOut ==
  fresh => LET walk == Walk(LiveNodes, [x \in LiveNodes |-> parent[x]])
           IN  /\ IsForest(LiveNodes, walk)
               /\ [x \in LiveNodes |-> bounds[x]] = Layout(LiveNodes, walk)

TreeInv ==
  /\ OrgTreeTypeOK /\ DOMAIN edit = Editors /\ \A e \in Editors : EditTypes(e)
  /\ LaidOut

LEMMA IdRows == ASSUME NEW nodes \in SUBSET Ids PROVE RowSet(nodes) /\ Cardinality(nodes) \in 0 .. Size
<1>1. IsFiniteSet(1 .. Size) /\ Cardinality(1 .. Size) = Size
  BY OrgTreeAssumption, FS_Interval
<1>2. IsFiniteSet(nodes) /\ Cardinality(nodes) <= Size
  BY <1>1, FS_Subset DEF Ids
<1>3. Cardinality(nodes) \in Nat /\ nodes \in SUBSET Nat
  BY <1>2, FS_CardinalityType DEF Ids
<1> QED
  BY <1>2, <1>3, OrgTreeAssumption DEF RowSet

LEMMA LayoutType ==
  ASSUME NEW nodes \in SUBSET Ids, NEW p, IsForest(nodes, Walk(nodes, p))
  PROVE  Layout(nodes, Walk(nodes, p)) \in [nodes -> (1 .. 2 * Size) \X (1 .. 2 * Size)]
<1>1. RowSet(nodes) /\ Cardinality(nodes) \in 0 .. Size
  BY IdRows
<1>2. PICK f, g : /\ Marks(p, nodes, Roots(nodes, p), Walk(nodes, p), f, g) /\ DOMAIN f = nodes
                  /\ Layout(nodes, Walk(nodes, p)) = [x \in nodes |-> <<f[x], g[x]>>]
  BY <1>1, LayoutMarks
<1>3. Len(Walk(nodes, p)) \in 0 .. 2 * Size
  BY <1>1, <1>2, OrgTreeAssumption DEF Marks
<1>4. f \in [nodes -> 1 .. Len(Walk(nodes, p))] /\ g \in [nodes -> 1 .. Len(Walk(nodes, p))]
  BY <1>2 DEF Marks
<1>5. \A x \in nodes : f[x] \in 1 .. 2 * Size /\ g[x] \in 1 .. 2 * Size
  BY <1>3, <1>4, OrgTreeAssumption
<1> QED
  BY <1>2, <1>5

(* The layout of a walk that enters every row is a nested set. *)
LEMMA LayoutNests ==
  ASSUME NEW nodes \in SUBSET Ids, NEW p, NEW b, LET above == [x \in nodes |-> p[x]]
                                                     walk == Walk(nodes, above)
                                                 IN  /\ IsForest(nodes, walk)
                                                     /\ [x \in nodes |-> b[x]] = Layout(nodes, walk)
  PROVE  NestedSet(nodes, p, b)
<1> DEFINE above == [x \in nodes |-> p[x]]
           w == Walk(nodes, above)
<1>1. PICK f, g : /\ Marks(above, nodes, Roots(nodes, above), w, f, g) /\ DOMAIN f = nodes
                  /\ Layout(nodes, w) = [x \in nodes |-> <<f[x], g[x]>>]
  <2>1. RowSet(nodes)
    BY IdRows
  <2>2. IsForest(nodes, Walk(nodes, above))
    OBVIOUS
  <2> HIDE DEF above
  <2> QED
    BY <2>1, <2>2, LayoutMarks
<1> HIDE DEF w
<1>2. \A x \in nodes : b[x][1] = f[x] /\ b[x][2] = g[x]
  BY <1>1 DEF w
<1>3. Len(w) = 2 * Cardinality(nodes)
  BY <1>1 DEF Marks
<1>4. UNION {{b[x][1], b[x][2]} : x \in nodes} = 1 .. Len(w)
  <2>1. \A x \in nodes : f[x] \in 1 .. Len(w) /\ g[x] \in 1 .. Len(w)
    BY <1>1 DEF Marks
  <2>2. \A i \in 1 .. Len(w) : w[i] \in nodes /\ (i = f[w[i]] \/ i = g[w[i]])
    BY <1>1 DEF Marks
  <2>3. UNION {{f[x], g[x]} : x \in nodes} = 1 .. Len(w)
    BY <2>1, <2>2
  <2> QED
    BY <1>2, <2>3
<1>5. \A x \in nodes : b[x][1] < b[x][2]
  BY <1>1, <1>2 DEF Marks
<1>6. ASSUME NEW x \in nodes, NEW y \in nodes
      PROVE  Encloses(b, x, y) <=> p[y] \in nodes /\ (x = p[y] \/ Encloses(b, x, p[y]))
  <2>1. \A u, v \in nodes : Encloses(b, u, v) <=> Within(f, g, u, v)
    BY <1>2 DEF Encloses, Within
  <2>2. Within(f, g, x, y) <=> above[y] \in nodes /\ (x = above[y] \/ Within(f, g, x, above[y]))
    <3> HIDE DEF above
    <3> QED
      BY <1>1 DEF Marks
  <2> QED
    BY <2>1, <2>2
<1> QED
  BY <1>3, <1>4, <1>5, <1>6 DEF NestedSet

LEMMA TreeInitInv == OrgTreeInit => TreeInv
<1> SUFFICES ASSUME OrgTreeInit PROVE TreeInv
  OBVIOUS
<1>1. LiveNodes = {}
  BY DEF OrgTreeInit, LiveNodes
<1>2. \A walk : IsForest({}, walk) /\ [x \in {} |-> bounds[x]] = Layout({}, walk)
  BY DEF IsForest, Layout
<1>3. LaidOut
  BY <1>1, <1>2 DEF LaidOut
<1>4. DOMAIN <<>> = {}
  OBVIOUS
<1>5. OrgTreeTypeOK
  BY <1>4, OrgTreeAssumption DEF OrgTreeInit, OrgTreeTypeOK, NoEdit
<1> QED
  BY <1>3, <1>4, <1>5 DEF OrgTreeInit, TreeInv, EditTypes, NoEdit

\* A request that loads, or gives up, leaves the tree alone.
LEMMA TreeAlone ==
  ASSUME TreeInv, UNCHANGED <<node, parent, bounds, fresh>>,
         late' \in SUBSET Editors, DOMAIN edit' = Editors, \A e \in Editors : EditTypes(e)'
  PROVE  TreeInv'
<1>1. LiveNodes' = LiveNodes
  BY DEF LiveNodes
<1>2. LaidOut'
  BY <1>1 DEF TreeInv, LaidOut
<1>3. OrgTreeTypeOK'
  BY DEF TreeInv, OrgTreeTypeOK, EditTypes
<1> QED
  BY <1>2, <1>3 DEF TreeInv

LEMMA LoadsKeepsTree ==
  ASSUME TreeInv, NEW e \in Editors, NEW op \in {"create", "rename", "move", "delete"},
         NEW x \in Ids, NEW to \in Ids \union {top}, NEW xs \in SUBSET Ids, Loads(e, op, x, to, xs)
  PROVE  TreeInv'
<1>1. EditTypes(e)'
  BY DEF Loads, EditTypes, TreeInv
<1>2. ASSUME NEW f \in Editors \ {e} PROVE EditTypes(f)'
  BY DEF Loads, EditTypes, TreeInv
<1> QED
  BY <1>1, <1>2, TreeAlone DEF Loads, TreeInv, OrgTreeTypeOK

LEMMA RollBackKeepsTree == ASSUME TreeInv, NEW e \in Editors, RollBackEdit(e) PROVE TreeInv'
<1>1. EditTypes(e)'
  BY DEF RollBackEdit, EditTypes, TreeInv, NoEdit
<1>2. ASSUME NEW f \in Editors \ {e} PROVE EditTypes(f)'
  BY DEF RollBackEdit, EditTypes, TreeInv
<1> QED
  BY <1>1, <1>2, TreeAlone DEF RollBackEdit, TreeInv, OrgTreeTypeOK

LEMMA RecomputeKeepsTree == ASSUME TreeInv, NEW e \in Editors, Recompute(e) PROVE TreeInv'
<1> DEFINE t == edit[e]
           laid == SeenRows(e)
           above == [x \in laid |-> SeenParent(e, x)]
           walk == Walk(laid, above)
           new == Layout(laid, walk)
<1>1. /\ t.op \in {"create", "rename", "move", "delete"} /\ t.row \in Ids /\ t.to \in Ids \union {top}
      /\ DOMAIN t.was \subseteq Ids
  BY DEF Recompute, TreeInv, EditTypes
<1>2. IsForest(laid, walk)
  BY DEF Recompute
<1>3. bounds' = [x \in Ids |-> CASE x \in Changed(e, new) -> new[x]
                               [] x \notin laid -> <<0, 0>>
                               [] OTHER -> bounds[x]]
  BY DEF Recompute
<1>4. /\ node' = [x \in Ids |-> SeenNode(e, x)]
      /\ parent' = [parent EXCEPT ![t.row] = IF t.op = "delete" THEN top ELSE t.to]
      /\ fresh' = \A x \in DOMAIN t.was : t.was[x] = Copy(x)
      /\ edit' = [edit EXCEPT ![e] = NoEdit]
  BY DEF Recompute
<1> HIDE DEF walk, new
<1>5. LiveNodes' = laid /\ laid \subseteq Ids
  BY <1>4 DEF LiveNodes, SeenRows
<1>6. DOMAIN new = laid
  BY DEF new, Layout
<1>7. ASSUME fresh' PROVE LaidOut'
  <2>1. ASSUME NEW x \in DOMAIN t.was PROVE t.was[x].parent = parent[x] /\ t.was[x].bounds = bounds[x]
    <3>1. t.was[x] = Copy(x)
      BY <1>4, <1>7, <2>1, Zenon
    <3> QED
      BY <3>1 DEF Copy
  <2>2. ASSUME NEW x \in laid PROVE SeenParent(e, x) = parent'[x]
    <3>1. CASE x = t.row
      <4>1. t.op # "delete"
        BY <2>2, <3>1, <1>5 DEF SeenRows, SeenNode
      <4> QED
        BY <1>1, <1>4, <3>1, <4>1 DEF SeenParent, TreeInv, OrgTreeTypeOK
    <3>2. CASE x # t.row
      BY <1>1, <1>4, <1>5, <2>1, <3>2 DEF SeenParent, TreeInv, OrgTreeTypeOK
    <3> QED
      BY <3>1, <3>2
  <2>3. [x \in LiveNodes |-> parent[x]]' = above
    BY <1>5, <2>2
  <2>4. ASSUME NEW x \in laid PROVE bounds'[x] = new[x]
    <3>1. SeenBounds(e, x) = bounds[x]
      BY <2>1 DEF SeenBounds
    <3>2. CASE x \in Changed(e, new)
      BY <1>3, <1>5, <3>2
    <3>3. CASE x \notin Changed(e, new)
      BY <1>3, <1>5, <1>6, <3>1, <3>3 DEF Changed
    <3> QED
      BY <3>2, <3>3
  <2>5. [x \in LiveNodes |-> bounds[x]]' = new
    BY <1>5, <2>4 DEF new, Layout
  <2> QED
    BY <1>2, <1>5, <2>3, <2>5 DEF LaidOut, walk, new
<1>8. EditTypes(e)'
  <2>1. DOMAIN <<>> = {}
    OBVIOUS
  <2> QED
    BY <1>4, <2>1 DEF EditTypes, TreeInv, NoEdit
<1>9. ASSUME NEW f \in Editors \ {e} PROVE EditTypes(f)'
  BY <1>4 DEF EditTypes, TreeInv
<1>10. LaidOut'
  BY <1>7 DEF LaidOut
<1>11. OrgTreeTypeOK'
  <2>1. node' \in [Ids -> {"absent", "live", "deleted"}]
    BY <1>4 DEF SeenNode, TreeInv, OrgTreeTypeOK
  <2>2. parent' \in [Ids -> Ids \union {top}]
    BY <1>1, <1>4 DEF TreeInv, OrgTreeTypeOK
  <2>3. bounds' \in [Ids -> (0 .. 2 * Size) \X (0 .. 2 * Size)]
    <3>1. new \in [laid -> (1 .. 2 * Size) \X (1 .. 2 * Size)]
      <4> HIDE DEF above, laid
      <4> QED
        BY <1>2, <1>5, LayoutType DEF new, walk
    <3>2. ASSUME NEW x \in laid PROVE new[x] \in (0 .. 2 * Size) \X (0 .. 2 * Size)
      <4>1. new[x] \in (1 .. 2 * Size) \X (1 .. 2 * Size)
        BY <3>1
      <4> QED
        BY <4>1, OrgTreeAssumption
    <3>3. <<0, 0>> \in (0 .. 2 * Size) \X (0 .. 2 * Size)
      BY OrgTreeAssumption
    <3>4. \A x \in Ids : bounds[x] \in (0 .. 2 * Size) \X (0 .. 2 * Size)
      BY DEF TreeInv, OrgTreeTypeOK
    <3>5. Changed(e, new) \subseteq laid
      BY <1>6 DEF Changed
    <3> DEFINE pairs == (0 .. 2 * Size) \X (0 .. 2 * Size)
    <3>6. \A x \in Ids : bounds'[x] \in pairs
      <4> HIDE DEF pairs
      <4>1. ASSUME NEW x \in Ids PROVE bounds'[x] \in pairs
        <5>1. bounds'[x] = CASE x \in Changed(e, new) -> new[x]
                             [] x \notin laid -> <<0, 0>>
                             [] OTHER -> bounds[x]
          BY <1>3
        <5>2. CASE x \in Changed(e, new)
          BY <5>1, <5>2, <3>2, <3>5 DEF pairs
        <5>3. CASE x \notin laid
          BY <5>1, <5>3, <3>3, <3>5 DEF pairs
        <5>4. CASE x \notin Changed(e, new) /\ x \in laid
          BY <5>1, <5>4, <3>4 DEF pairs
        <5> QED
          BY <5>2, <5>3, <5>4
      <4> QED
        BY <4>1
    <3> QED
      BY <1>3, <3>6
  <2>4. late' \in SUBSET Editors /\ fresh' \in BOOLEAN
    <3>1. late' = (late \union {f \in Editors : edit[f].row = t.row}) \ {e}
      BY DEF Recompute
    <3>2. fresh' \in BOOLEAN
      BY <1>4
    <3> QED
      BY <3>1, <3>2 DEF TreeInv, OrgTreeTypeOK
  <2>5. \A f \in Editors : EditTypes(f)'
    BY <1>8, <1>9
  <2> QED
    BY <2>1, <2>2, <2>3, <2>4, <2>5 DEF OrgTreeTypeOK, EditTypes
<1> QED
  BY <1>4, <1>8, <1>9, <1>10, <1>11 DEF TreeInv, OrgTreeTypeOK

LEMMA TreeStepInv == TreeInv /\ [OrgTreeNext]_orgTreeVars => TreeInv'
<1> SUFFICES ASSUME TreeInv, [OrgTreeNext]_orgTreeVars PROVE TreeInv'
  OBVIOUS
<1>1. ASSUME NEW e \in Editors, NEW x \in Ids, BeginRename(e, x) \/ BeginDelete(e, x) PROVE TreeInv'
  <2>1. parent[x] \in Ids \union {top} /\ {x} \in SUBSET Ids
    BY DEF TreeInv, OrgTreeTypeOK
  <2> QED
    BY <1>1, <2>1, LoadsKeepsTree DEF BeginRename, BeginDelete
<1>2. ASSUME NEW e \in Editors, NEW x \in Ids, NEW to \in Ids \union {top},
             BeginCreate(e, x, to) \/ BeginMove(e, x, to)
      PROVE  TreeInv'
  BY <1>2, LoadsKeepsTree DEF BeginCreate, BeginMove
<1>3. CASE UNCHANGED orgTreeVars
  BY <1>3, TreeAlone DEF orgTreeVars, TreeInv, OrgTreeTypeOK, EditTypes
<1> QED
  BY <1>1, <1>2, <1>3, RecomputeKeepsTree, RollBackKeepsTree DEF OrgTreeNext

(* The bounds and rows of trees of any size, and what any number of requests are
   doing to them, keep their types: a layout stays within twice the nodes.     *)
THEOREM OrgTreeTypes == OrgTreeSpec => []OrgTreeTypeOK
<1>1. TreeInv => OrgTreeTypeOK
  BY DEF TreeInv
<1> QED
  BY <1>1, TreeInitInv, TreeStepInv, PTL DEF OrgTreeSpec

(* For any number of nodes and of requests at once, the bounds are a nested set of
   the tree as long as the last request had loaded nothing stale.            *)
THEOREM BoundsFollow == OrgTreeSpec => []BoundsAreTheTree
<1>1. TreeInv => BoundsAreTheTree
  <2>1. LiveNodes \in SUBSET Ids
    BY DEF LiveNodes
  <2> QED
    BY <2>1, LayoutNests DEF TreeInv, LaidOut, BoundsAreTheTree
<1> QED
  BY <1>1, TreeInitInv, TreeStepInv, PTL DEF OrgTreeSpec

-----------------------------------------------------------------------------
(* The five parts side by side. *)

(* A behaviour of the composite run is one of each of its parts. *)
LEMMA RequestsParts ==
  RequestsSpec => Spec /\ SignInSpec /\ OrgTreeSpec /\ SwitchesSpec /\ MediaSpec
<1>1. RequestsInit => Init /\ SignInInit /\ OrgTreeInit /\ SwitchesInit /\ MediaInit
  BY DEF RequestsInit
<1>2. [RequestsNext]_allVars => /\ [Next]_vars /\ [SignInNext]_signInVars /\ [OrgTreeNext]_orgTreeVars
                                /\ [SwitchesNext]_switchVars /\ [MediaNext]_mediaVars
  BY DEF RequestsNext, allVars, fieldVars
<1> QED
  BY <1>1, <1>2, PTL DEF RequestsSpec, Spec, SignInSpec, OrgTreeSpec, SwitchesSpec, MediaSpec

Chosen == part \in {"field day", "sign-in", "org tree", "switches", "images"}

(* Every variable of the five parts keeps its type. *)
THEOREM RequestsTypes == RequestsSpec => []RequestsTypeOK
<1>1. RequestsInit => Chosen
  BY DEF RequestsInit, Chosen
<1>2. Chosen /\ [RequestsNext]_allVars => Chosen'
  BY DEF RequestsNext, allVars, Chosen
<1>3. SignInInv => SignInTypeOK
  BY DEF SignInInv
<1>4. SwitchesInv => SwitchesTypeOK
  BY DEF SwitchesInv
<1>5. TypeOK /\ SignInTypeOK /\ OrgTreeTypeOK /\ SwitchesTypeOK /\ MediaTypeOK /\ Chosen => RequestsTypeOK
  BY DEF RequestsTypeOK, Chosen
<1> QED
  BY <1>1, <1>2, <1>3, <1>4, <1>5, RequestsParts, DayTypes, SignInInvariant, OrgTreeTypes,
     SwitchesInvariant, RowsMatch, PTL DEF RequestsSpec
===============================================================================
