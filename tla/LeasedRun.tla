------------------------------ MODULE LeasedRun ------------------------------
(***************************************************************************)
(* One lane of one module: the run rows that lease it, the cursor that     *)
(* remembers where its scan stands, and the Celery workers that execute    *)
(* slices of the scan (modules/zoho/control/runs.py, the runner            *)
(* _execute_leased_run in tasks/zoho_sync.py and the page loop of          *)
(* sync/engine.py).  Workers die, stall past their lease and wake up       *)
(* again.  Each database transaction is one action: a page, its cursor and *)
(* nothing else commit together, then the lease is heartbeated.            *)
(***************************************************************************)
EXTENDS Naturals

CONSTANTS
  Runs,      \* executions of sync_module_run on this lane, each with its own run id
  Modes,     \* strategies a run may be asked for
  LastPage,  \* pages of the list endpoint
  nobody     \* the owner of a cursor no run has claimed

ASSUME LeasedRunAssumption ==
  /\ LastPage \in Nat \ {0}
  /\ nobody \notin Runs

VARIABLES
  row,       \* row[w]: status of w's row in zoho_sync_runs
  lapsed,    \* the runs whose lease_expires_at is in the past
  cursor,    \* the row of zoho_sync_cursors
  pc,        \* where each worker stands in _execute_leased_run
  mode,      \* mode[w]: the strategy w was asked for ("none" outside the runner)
  scan,      \* scan[w]: the scan w works on, numbered by scan_started_at
  page,      \* page[w]: the page w lists next
  verdict,   \* verdict[w]: the status w will close its row with
  scans,     \* history: scans started so far
  applied,   \* history: <<scan, mode, page>> committed
  late       \* late[w]: history: pages w committed after its row was closed by others

vars == <<row, lapsed, cursor, pc, mode, scan, page, verdict, scans, applied, late>>

\* "succeeded" stands for partial too, and "stopped" for yielded, suspended and
\* failed: the planner tells them apart, the lease and the cursor do not.
Closed == {"succeeded", "stopped", "abandoned"}
Pages == 1 .. LastPage
Live(w) == pc[w] \in {"acquired", "loaded", "scanning", "committed", "finishing"}

TypeOK ==
  /\ row \in [Runs -> {"none", "running"} \union Closed]
  /\ lapsed \in SUBSET Runs
  /\ cursor \in [owner : Runs \union {nobody}, next : Pages, scan : Nat, mode : Modes]
  /\ pc \in [Runs -> {"idle", "retry", "skipped", "acquired", "loaded", "scanning",
                      "committed", "finishing", "fenced", "done", "dead"}]
  /\ mode \in [Runs -> Modes \union {"none"}]
  /\ scan \in [Runs -> Nat]
  /\ page \in [Runs -> Pages]
  /\ verdict \in [Runs -> {"none"} \union Closed]
  /\ scans \in Nat
  /\ applied \in SUBSET (Nat \X Modes \X Pages)
  /\ late \in [Runs -> Nat]

Init ==
  /\ row = [w \in Runs |-> "none"] /\ lapsed = {}
  /\ \E m \in Modes : cursor = [owner |-> nobody, next |-> 1, scan |-> 0, mode |-> m]
  /\ pc = [w \in Runs |-> "idle"]
  /\ mode = [w \in Runs |-> "none"]
  /\ scan = [w \in Runs |-> 0] /\ page = [w \in Runs |-> 1]
  /\ verdict = [w \in Runs |-> "none"]
  /\ scans = 0 /\ applied = {} /\ late = [w \in Runs |-> 0]

\* The worker leaves _execute_leased_run; its local variables are gone.
Return(w, how) ==
  /\ pc' = [pc EXCEPT ![w] = how]
  /\ mode' = [mode EXCEPT ![w] = "none"] /\ scan' = [scan EXCEPT ![w] = 0]
  /\ page' = [page EXCEPT ![w] = 1] /\ verdict' = [verdict EXCEPT ![w] = "none"]

-----------------------------------------------------------------------------
(* acquire_run(): the partial unique index lets one RUNNING row in. *)

Running == {w \in Runs : row[w] = "running"}

ExpiredOwners == {w \in Running : w \in lapsed /\ cursor.owner = w}
Expired == {w \in Running : w \in lapsed}

Acquire(w, m) ==
  /\ pc[w] \in {"idle", "retry"}
  /\ Running = {}
  /\ row' = [row EXCEPT ![w] = "running"]
  /\ mode' = [mode EXCEPT ![w] = m]
  /\ pc' = [pc EXCEPT ![w] = "acquired"]
  /\ UNCHANGED <<lapsed, cursor, scan, page, verdict, scans, applied, late>>

\* The lane is held by an expired lease: abandon it (its own transaction),
\* then try the INSERT once more.
TakeOver(w) ==
  /\ pc[w] = "idle"
  /\ Expired # {}
  /\ row' = [v \in Runs |-> IF v \in Expired THEN "abandoned" ELSE row[v]]
  /\ pc' = [pc EXCEPT ![w] = "retry"]
  /\ UNCHANGED <<lapsed, cursor, mode, scan, page, verdict, scans, applied, late>>

\* lane_busy: a duplicate enqueue, or the second INSERT lost as well.
Skip(w) ==
  /\ Running # {}
  /\ pc[w] = "retry" \/ (pc[w] = "idle" /\ Expired = {})
  /\ pc' = [pc EXCEPT ![w] = "skipped"]
  /\ UNCHANGED <<row, lapsed, cursor, mode, scan, page, verdict, scans, applied, late>>

-----------------------------------------------------------------------------
(* load_cursor(), the decision to resume, and claim_cursor(). *)

ResumableAnyMode(w) == cursor.next > 1
Resumable(w) == cursor.next > 1 /\ cursor.mode = mode[w]

\* tooOld: the scan started more than _SCAN_MAX_AGE_HOURS ago.
Load(w, tooOld) ==
  /\ pc[w] = "acquired"
  /\ pc' = [pc EXCEPT ![w] = "loaded"]
  /\ IF Resumable(w) /\ ~tooOld
     THEN /\ page' = [page EXCEPT ![w] = cursor.next]
          /\ scan' = [scan EXCEPT ![w] = cursor.scan]
          /\ UNCHANGED scans
     ELSE /\ page' = [page EXCEPT ![w] = 1]
          /\ scans' = scans + 1
          /\ scan' = [scan EXCEPT ![w] = scans + 1]
  /\ UNCHANGED <<row, lapsed, cursor, mode, verdict, applied, late>>

\* The fencing token is written whatever became of the lease meanwhile.
Claim(w) ==
  /\ pc[w] = "loaded"
  /\ cursor' = [cursor EXCEPT !.owner = w]
  /\ pc' = [pc EXCEPT ![w] = "scanning"]
  /\ UNCHANGED <<row, lapsed, mode, scan, page, verdict, scans, applied, late>>

-----------------------------------------------------------------------------
(* The page loop. *)

Unfenced(w) == TRUE
Held(w) == cursor.owner = w

\* What the cursor says after page p: 1 once Zoho has no more pages.
PageAfter(p) == p + 1
NextPage(p) == IF p < LastPage THEN p + 1 ELSE 1

\* page_hook: the applied page and the cursor commit together. A slice budget
\* may stop the run while Zoho has more pages.
CommitPage(w, stop) ==
  /\ pc[w] = "scanning" /\ Held(w)
  /\ stop => page[w] < LastPage
  /\ LET next == NextPage(page[w]) IN
     /\ cursor' = [cursor EXCEPT !.next = next, !.scan = scan[w], !.mode = mode[w]]
     /\ verdict' = [verdict EXCEPT ![w] = IF stop THEN "stopped"
                                          ELSE IF next = 1 THEN "succeeded" ELSE "none"]
     /\ page' = [page EXCEPT ![w] = next]
  /\ applied' = applied \union {<<scan[w], mode[w], page[w]>>}
  /\ late' = [late EXCEPT ![w] = IF row[w] = "running" THEN @ ELSE @ + 1]
  /\ pc' = [pc EXCEPT ![w] = "committed"]
  /\ UNCHANGED <<row, lapsed, mode, scan, scans>>

\* Zoho throttles the detail phase: what the page applied so far commits with
\* the cursor left on this page, and the error is raised after the heartbeat.
HaltPage(w) ==
  /\ pc[w] = "scanning" /\ Held(w)
  /\ cursor' = [cursor EXCEPT !.next = page[w], !.scan = scan[w], !.mode = mode[w]]
  /\ verdict' = [verdict EXCEPT ![w] = "stopped"]
  /\ late' = [late EXCEPT ![w] = IF row[w] = "running" THEN @ ELSE @ + 1]
  /\ pc' = [pc EXCEPT ![w] = "committed"]
  /\ UNCHANGED <<row, lapsed, mode, scan, page, scans, applied>>

\* advance_cursor() updates zero rows: roll the page back and leave the row.
FencedPage(w) ==
  /\ pc[w] = "scanning" /\ ~Held(w)
  /\ Return(w, "fenced")
  /\ UNCHANGED <<row, lapsed, cursor, scans, applied, late>>

\* A refusal or an error: before the page commits, or after the last page while
\* the engine reconciles deletions. What is uncommitted is rolled back.
FailPage(w) ==
  /\ pc[w] = "scanning" \/ (pc[w] = "finishing" /\ verdict[w] = "succeeded")
  /\ verdict' = [verdict EXCEPT ![w] = "stopped"]
  /\ pc' = [pc EXCEPT ![w] = "finishing"]
  /\ UNCHANGED <<row, lapsed, cursor, mode, scan, page, scans, applied, late>>

LeaseAssumed(w) == TRUE
KeepsLease(w) == row[w] = "running"

\* heartbeat() renews the lease of a row that is still RUNNING, expired or not.
Heartbeat(w) ==
  /\ pc[w] = "committed" /\ KeepsLease(w)
  /\ lapsed' = lapsed \ {w}
  /\ pc' = [pc EXCEPT ![w] = IF verdict[w] = "none" THEN "scanning" ELSE "finishing"]
  /\ UNCHANGED <<row, cursor, mode, scan, page, verdict, scans, applied, late>>

FencedHeartbeat(w) ==
  /\ pc[w] = "committed" /\ ~KeepsLease(w)
  /\ Return(w, "fenced")
  /\ UNCHANGED <<row, lapsed, cursor, scans, applied, late>>

\* finish_run(): only a row that is still RUNNING is closed.
Finish(w) ==
  /\ pc[w] = "finishing"
  /\ row' = [row EXCEPT ![w] = IF @ = "running" THEN verdict[w] ELSE @]
  /\ lapsed' = lapsed \ {w}
  /\ Return(w, "done")
  /\ UNCHANGED <<cursor, scans, applied, late>>

-----------------------------------------------------------------------------
(* Crashes, time, and the planner's housekeeping. *)

Crash(w) ==
  /\ Live(w) \/ pc[w] = "retry"
  /\ Return(w, "dead")
  /\ UNCHANGED <<row, lapsed, cursor, scans, applied, late>>

Lapse(w) ==
  /\ row[w] = "running" /\ w \notin lapsed
  /\ lapsed' = lapsed \union {w}
  /\ UNCHANGED <<row, cursor, pc, mode, scan, page, verdict, scans, applied, late>>

\* reap_expired(), on every planner tick.
Reap ==
  /\ Expired # {}
  /\ row' = [v \in Runs |-> IF v \in Expired THEN "abandoned" ELSE row[v]]
  /\ UNCHANGED <<lapsed, cursor, pc, mode, scan, page, verdict, scans, applied, late>>

Execute(w) ==
  \/ TakeOver(w) \/ Skip(w) \/ \E m \in Modes : Acquire(w, m)
  \/ \E tooOld \in BOOLEAN : Load(w, tooOld)
  \/ Claim(w)
  \/ \E stop \in BOOLEAN : CommitPage(w, stop)
  \/ HaltPage(w) \/ FailPage(w) \/ FencedPage(w) \/ Heartbeat(w) \/ FencedHeartbeat(w) \/ Finish(w)

Next ==
  \/ \E w \in Runs : Execute(w) \/ Crash(w) \/ Lapse(w)
  \/ Reap

Spec == Init /\ [][Next]_vars

\* Leases run out unless they are renewed and Celery beat keeps ticking; nothing
\* is assumed of the workers.
LaneFairness == WF_vars(Reap) /\ \A w \in Runs : WF_vars(Lapse(w))
FairSpec == Spec /\ LaneFairness

-----------------------------------------------------------------------------
(* Properties. *)

(* _execute_leased_run: "a yielded full scan resumes where it stopped". A
   cursor past page 1 proves that every earlier page was committed by the same
   scan in the same mode, whoever wrote it, and a run that is about to close
   as succeeded ends a scan of which every page was committed.             *)
ScanIsWhole ==
  /\ \A p \in Pages : p < cursor.next => <<cursor.scan, cursor.mode, p>> \in applied
  /\ \A w \in Runs : verdict[w] = "succeeded" =>
       \A p \in Pages : <<scan[w], mode[w], p>> \in applied

(* _execute_leased_run: "a run that lost its lease stops at the next page
   boundary": whatever is paused where, it commits at most one more page.  *)
ZombieStopsAtPage == \A w \in Runs : late[w] =< 1

(* runs.py "Only the lease owner may close it": once another worker or the
   planner has abandoned a run, the worker waking up rewrites nothing.     *)
ClosedStaysClosed ==
  [][\A w \in Runs : row[w] \in Closed => row'[w] = row[w]]_vars

(* runs.py:3-12, the lane as a whole: whatever stalls, dies and wakes up again,
   what is committed to the lane is one log of scans (ScanLog), of which the cursor
   marks the place, and a run row says succeeded only of a scan in it.       *)
Claimed == {w \in Runs : pc[w] \in {"scanning", "committed", "finishing", "fenced", "done", "dead"}}
Log == INSTANCE ScanLog WITH
         log <- applied, mark <- [scan |-> cursor.scan, mode |-> cursor.mode, page |-> cursor.next],
         writer <- cursor.owner, barred <- Claimed,
         ready <- {<<w, scan[w]>> : w \in {v \in Runs : verdict[v] = "succeeded"}},
         spent <- {w \in Runs : late[w] > 0}
LaneIsALog == Log!Spec

(* runs.py "A dead worker never blocks a lane forever": a lane somebody holds
   is free again later, wherever its holder died or was fenced.            *)
LaneIsFreed == \A w \in Runs : row[w] = "running" ~> row[w] # "running"

(* runs.py "A zombie cannot corrupt progress ... a run that lost its lease
   updates zero rows": the cursor never returns to an older scan.          *)
ProgressNeverGoesBack == [][cursor'.scan >= cursor.scan]_vars
=============================================================================
