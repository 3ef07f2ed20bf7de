---------------------------- MODULE WorkersProofs ----------------------------
(***************************************************************************)
(* Proofs about what the Celery workers rely on, for every number of them: *)
(* the runs they lease (LeasedRun) and the planner starts (Planner), the   *)
(* mail they send (Outbox), and the three side by side (MCWorkers).        *)
(***************************************************************************)
EXTENDS MCWorkers, TLAPS


-----------------------------------------------------------------------------
(* LeasedRun: what a worker knows while it scans (the pages behind it are   *)
(* committed) and what a late page costs it (its heartbeat fails, because   *)
(* only an idle worker can open a run row).                                 *)

Behind(w) == \A p \in Pages : p < page[w] => <<scan[w], mode[w], p>> \in applied

\* The pages behind a scanning worker, and behind the cursor, are committed.
Whole(w) ==
  /\ pc[w] \in {"loaded", "scanning"} \/ (pc[w] = "committed" /\ verdict[w] = "none") => Behind(w)
  /\ verdict[w] = "succeeded" => \A p \in Pages : <<scan[w], mode[w], p>> \in applied
  /\ pc[w] \in {"idle", "retry", "skipped", "acquired", "loaded", "scanning"} => verdict[w] = "none"
  /\ pc[w] \in {"acquired", "loaded", "scanning", "committed"} => mode[w] \in Modes

CursorWhole == \A p \in Pages : p < cursor.next => <<cursor.scan, cursor.mode, p>> \in applied

\* A worker without a run row has never had one; a late page is its last.
Late(w) ==
  /\ pc[w] \in {"idle", "retry", "skipped"} => row[w] = "none"
  /\ late[w] \in {0, 1}
  /\ late[w] = 1 => row[w] # "running" /\ pc[w] \in {"committed", "fenced", "dead"}

RunInv == TypeOK /\ CursorWhole /\ \A w \in Runs : Whole(w) /\ Late(w)

(* The initial state satisfies the invariant. *)
LEMMA RunInitInv == Init => RunInv
  BY LeasedRunAssumption DEF Init, RunInv, TypeOK, CursorWhole, Whole, Behind, Late, Pages

(* Every step keeps the types: NextPage never leaves the listing. *)
LEMMA NextTypes == ASSUME RunInv, Next PROVE TypeOK'
<1> USE LeasedRunAssumption DEF RunInv, TypeOK, Late, Whole, Pages, Closed
<1>1. ASSUME NEW w \in Runs, NEW m \in Modes, Acquire(w, m) PROVE TypeOK'
  BY <1>1 DEF Acquire
<1>2. ASSUME NEW w \in Runs, TakeOver(w) \/ Skip(w) PROVE TypeOK'
  BY <1>2 DEF TakeOver, Skip
<1>3. ASSUME NEW w \in Runs, NEW tooOld \in BOOLEAN, Load(w, tooOld) PROVE TypeOK'
  BY <1>3 DEF Load
<1>4. ASSUME NEW w \in Runs, Claim(w) PROVE TypeOK'
  BY <1>4 DEF Claim
<1>5. ASSUME NEW w \in Runs, NEW stop \in BOOLEAN, CommitPage(w, stop) PROVE TypeOK'
  <2>1. NextPage(page[w]) \in Pages
    BY DEF NextPage
  <2>2. mode[w] \in Modes /\ scan[w] \in Nat
    BY <1>5 DEF CommitPage
  <2>3. applied' \in SUBSET (Nat \X Modes \X Pages)
    BY <1>5, <2>2 DEF CommitPage
  <2>4. cursor' \in [owner : Runs \union {nobody}, next : Pages, scan : Nat, mode : Modes]
    BY <1>5, <2>1, <2>2 DEF CommitPage
  <2>5. page' \in [Runs -> Pages] /\ verdict' \in [Runs -> {"none"} \union Closed]
    BY <1>5, <2>1 DEF CommitPage
  <2>6. pc' = [pc EXCEPT ![w] = "committed"] /\ late' \in [Runs -> Nat]
        /\ UNCHANGED <<row, lapsed, mode, scan, scans>>
    BY <1>5 DEF CommitPage
  <2> QED  BY <2>3, <2>4, <2>5, <2>6
<1>6. ASSUME NEW w \in Runs, HaltPage(w) PROVE TypeOK'
  <2>1. mode[w] \in Modes /\ scan[w] \in Nat
    BY <1>6 DEF HaltPage
  <2>2. cursor' \in [owner : Runs \union {nobody}, next : Pages, scan : Nat, mode : Modes]
    BY <1>6, <2>1 DEF HaltPage
  <2>3. verdict' = [verdict EXCEPT ![w] = "stopped"] /\ late' \in [Runs -> Nat]
    BY <1>6 DEF HaltPage
  <2>4. pc' = [pc EXCEPT ![w] = "committed"]
        /\ UNCHANGED <<row, lapsed, mode, scan, page, scans, applied>>
    BY <1>6 DEF HaltPage
  <2> QED  BY <2>2, <2>3, <2>4
<1>7. ASSUME NEW w \in Runs, FencedPage(w) \/ FencedHeartbeat(w) PROVE TypeOK'
  BY <1>7 DEF FencedPage, FencedHeartbeat, Return
<1>8. ASSUME NEW w \in Runs, FailPage(w) \/ Heartbeat(w) PROVE TypeOK'
  BY <1>8 DEF FailPage, Heartbeat
<1>9. ASSUME NEW w \in Runs, Finish(w) PROVE TypeOK'
  BY <1>9 DEF Finish, Return
<1>10. ASSUME NEW w \in Runs, Crash(w) PROVE TypeOK'
  BY <1>10 DEF Crash, Return
<1>11. ASSUME NEW w \in Runs, Lapse(w) PROVE TypeOK'
  BY <1>11 DEF Lapse
<1>12. CASE Reap
  BY <1>12 DEF Reap
<1> QED
  BY <1>1, <1>2, <1>3, <1>4, <1>5, <1>6, <1>7, <1>8, <1>9, <1>10, <1>11, <1>12
     DEF Next, Execute

(* A worker that resumes does so behind committed pages, and only a worker
   that committed them moves the cursor past them.                         *)
LEMMA NextWhole == ASSUME RunInv, Next PROVE CursorWhole' /\ \A w \in Runs : Whole(w)'
<1> USE LeasedRunAssumption DEF RunInv, TypeOK, Pages, Whole, Behind, CursorWhole
<1>1. ASSUME NEW w \in Runs, NEW m \in Modes, Acquire(w, m)
      PROVE  CursorWhole' /\ \A v \in Runs : Whole(v)'
  BY <1>1 DEF Acquire
<1>2. ASSUME NEW w \in Runs, TakeOver(w) \/ Skip(w)
      PROVE  CursorWhole' /\ \A v \in Runs : Whole(v)'
  BY <1>2 DEF TakeOver, Skip
<1>3. ASSUME NEW w \in Runs, NEW tooOld \in BOOLEAN, Load(w, tooOld)
      PROVE  CursorWhole' /\ \A v \in Runs : Whole(v)'
  <2>1. CursorWhole'
    BY <1>3 DEF Load
  <2>2. Whole(w)'
    BY <1>3 DEF Load, Resumable
  <2>3. ASSUME NEW v \in Runs, v # w PROVE Whole(v)'
    BY <1>3, <2>3 DEF Load
  <2> QED  BY <2>1, <2>2, <2>3
<1>4. ASSUME NEW w \in Runs, Claim(w) PROVE CursorWhole' /\ \A v \in Runs : Whole(v)'
  BY <1>4 DEF Claim
<1>5. ASSUME NEW w \in Runs, NEW stop \in BOOLEAN, CommitPage(w, stop)
      PROVE  CursorWhole' /\ \A v \in Runs : Whole(v)'
  <2>1. /\ applied' = applied \union {<<scan[w], mode[w], page[w]>>}
        /\ cursor'.next = NextPage(page[w]) /\ cursor'.scan = scan[w] /\ cursor'.mode = mode[w]
        /\ page'[w] = NextPage(page[w]) /\ scan' = scan /\ mode' = mode
        /\ pc[w] = "scanning" /\ Behind(w)
    BY <1>5 DEF CommitPage
  <2>2. \A p \in Pages : p < NextPage(page[w]) => <<scan[w], mode[w], p>> \in applied'
    BY <2>1 DEF NextPage
  <2>3. NextPage(page[w]) = 1 => \A p \in Pages : <<scan[w], mode[w], p>> \in applied'
    BY <2>1 DEF NextPage
  <2>4. CursorWhole'
    BY <2>1, <2>2
  <2>5. Whole(w)'
    <3>1. pc'[w] = "committed" /\ verdict'[w] \in {"stopped", "succeeded", "none"}
      BY <1>5 DEF CommitPage
    <3>2. verdict'[w] = "succeeded" => NextPage(page[w]) = 1
      BY <1>5 DEF CommitPage
    <3>3. mode[w] \in Modes
      BY <2>1
    <3> QED  BY <2>1, <2>2, <2>3, <3>1, <3>2, <3>3
  <2>6. ASSUME NEW v \in Runs, v # w PROVE Whole(v)'
    <3>1. /\ pc'[v] = pc[v] /\ verdict'[v] = verdict[v] /\ page'[v] = page[v]
          /\ mode'[v] = mode[v] /\ scan'[v] = scan[v] /\ applied \subseteq applied'
      BY <1>5, <2>6 DEF CommitPage
    <3> QED  BY <3>1
  <2> QED  BY <2>4, <2>5, <2>6
<1>6. ASSUME NEW w \in Runs, HaltPage(w) PROVE CursorWhole' /\ \A v \in Runs : Whole(v)'
  BY <1>6 DEF HaltPage
<1>7. ASSUME NEW w \in Runs, FencedPage(w) \/ FencedHeartbeat(w) \/ Finish(w) \/ Crash(w)
      PROVE  CursorWhole' /\ \A v \in Runs : Whole(v)'
  <2>1. /\ UNCHANGED <<cursor, applied>>
        /\ \E how \in {"fenced", "done", "dead"} : Return(w, how)
    BY <1>7 DEF FencedPage, FencedHeartbeat, Finish, Crash
  <2> QED  BY <2>1 DEF Return
<1>8. ASSUME NEW w \in Runs, FailPage(w) \/ Heartbeat(w)
      PROVE  CursorWhole' /\ \A v \in Runs : Whole(v)'
  BY <1>8 DEF FailPage, Heartbeat
<1>9. ASSUME NEW w \in Runs, Lapse(w) PROVE CursorWhole' /\ \A v \in Runs : Whole(v)'
  BY <1>9 DEF Lapse
<1>10. ASSUME Reap PROVE CursorWhole' /\ \A v \in Runs : Whole(v)'
  BY <1>10 DEF Reap
<1> HIDE DEF RunInv, TypeOK, Pages, Whole, Behind, CursorWhole
<1> QED
  BY <1>1, <1>2, <1>3, <1>4, <1>5, <1>6, <1>7, <1>8, <1>9, <1>10 DEF Next, Execute

(* No step opens a row twice, and a page committed late is followed by a
   heartbeat that fails.                                                   *)
LEMMA NextLate == ASSUME RunInv, Next PROVE \A w \in Runs : Late(w)'
<1> USE DEF RunInv, TypeOK, Late
<1>1. ASSUME NEW w \in Runs, NEW m \in Modes, Acquire(w, m) PROVE \A v \in Runs : Late(v)'
  BY <1>1 DEF Acquire
<1>2. ASSUME NEW w \in Runs, TakeOver(w) \/ Skip(w) PROVE \A v \in Runs : Late(v)'
  BY <1>2 DEF TakeOver, Skip, Expired, Running
<1>3. ASSUME NEW w \in Runs, NEW tooOld \in BOOLEAN, Load(w, tooOld)
      PROVE  \A v \in Runs : Late(v)'
  BY <1>3 DEF Load
<1>4. ASSUME NEW w \in Runs, Claim(w) PROVE \A v \in Runs : Late(v)'
  BY <1>4 DEF Claim
<1>5. ASSUME NEW w \in Runs, NEW stop \in BOOLEAN, CommitPage(w, stop) \/ HaltPage(w)
      PROVE  \A v \in Runs : Late(v)'
  BY <1>5 DEF CommitPage, HaltPage
<1>6. ASSUME NEW w \in Runs, FencedPage(w) \/ FencedHeartbeat(w) \/ Crash(w)
      PROVE  \A v \in Runs : Late(v)'
  BY <1>6 DEF FencedPage, FencedHeartbeat, Crash, Return, Live
<1>7. ASSUME NEW w \in Runs, FailPage(w) PROVE \A v \in Runs : Late(v)'
  BY <1>7 DEF FailPage
<1>8. ASSUME NEW w \in Runs, Heartbeat(w) PROVE \A v \in Runs : Late(v)'
  BY <1>8 DEF Heartbeat, KeepsLease
<1>9. ASSUME NEW w \in Runs, Finish(w) PROVE \A v \in Runs : Late(v)'
  BY <1>9 DEF Finish, Return, Whole, Closed
<1>10. ASSUME NEW w \in Runs, Lapse(w) PROVE \A v \in Runs : Late(v)'
  BY <1>10 DEF Lapse
<1>11. ASSUME Reap PROVE \A v \in Runs : Late(v)'
  BY <1>11 DEF Reap, Expired, Running
<1> QED
  BY <1>1, <1>2, <1>3, <1>4, <1>5, <1>6, <1>7, <1>8, <1>9, <1>10, <1>11 DEF Next, Execute

(* The invariant holds in every reachable state. *)
LEMMA RunInvariance == Spec => []RunInv
<1>1. RunInv /\ [Next]_vars => RunInv'
  <2> SUFFICES ASSUME RunInv, [Next]_vars PROVE RunInv'
    OBVIOUS
  <2>1. CASE Next
    BY <2>1, NextTypes, NextWhole, NextLate DEF RunInv
  <2>2. CASE UNCHANGED vars
    BY <2>2 DEF vars, RunInv, TypeOK, CursorWhole, Whole, Behind, Late, Pages
  <2> QED  BY <2>1, <2>2
<1> QED  BY <1>1, RunInitInv, PTL DEF Spec

(* Every reachable state of a lane is well typed. *)
THEOREM LeasedRunTypeOK == Spec => []TypeOK
<1>1. RunInv => TypeOK
  BY DEF RunInv
<1> QED  BY <1>1, RunInvariance, PTL

(* However many workers stall, die and resume each other's scan, the cursor
   and a successful run have every page behind them committed.             *)
THEOREM ResumedScansAreWhole == Spec => []ScanIsWhole
<1>1. RunInv => ScanIsWhole
  BY DEF RunInv, CursorWhole, Whole, ScanIsWhole
<1> QED  BY <1>1, RunInvariance, PTL

(* A run that lost its lease commits at most one more page. *)
THEOREM ZombiesStop == Spec => []ZombieStopsAtPage
<1>1. RunInv => ZombieStopsAtPage
  <2>1. ASSUME RunInv, NEW w \in Runs PROVE late[w] =< 1
    <3>1. late[w] = 0 \/ late[w] = 1
      BY <2>1 DEF RunInv, Late
    <3> QED  BY <3>1
  <2> QED  BY <2>1 DEF ZombieStopsAtPage
<1> QED  BY <1>1, RunInvariance, PTL

(* A run row, once closed, is never rewritten. *)
THEOREM ClosedRunsStayClosed == Spec => ClosedStaysClosed
<1>1. ASSUME RunInv, [Next]_vars, NEW v \in Runs, row[v] \in Closed PROVE row'[v] = row[v]
  <2> USE <1>1 DEF RunInv, TypeOK, Closed, Late
  <2>1. CASE UNCHANGED vars
    BY <2>1 DEF vars
  <2>2. ASSUME NEW w \in Runs, NEW m \in Modes, Acquire(w, m) PROVE row'[v] = row[v]
    BY <2>2 DEF Acquire
  <2>3. ASSUME NEW w \in Runs, TakeOver(w) PROVE row'[v] = row[v]
    BY <2>3 DEF TakeOver, Expired, Running
  <2>4. ASSUME NEW w \in Runs, Finish(w) PROVE row'[v] = row[v]
    BY <2>4 DEF Finish
  <2>5. CASE Reap
    BY <2>5 DEF Reap, Expired, Running
  <2>6. ASSUME NEW w \in Runs, NEW flag \in BOOLEAN,
               \/ Skip(w) \/ Load(w, flag) \/ Claim(w) \/ CommitPage(w, flag) \/ HaltPage(w)
               \/ FailPage(w) \/ FencedPage(w) \/ Heartbeat(w) \/ FencedHeartbeat(w)
               \/ Crash(w) \/ Lapse(w)
        PROVE  row'[v] = row[v]
    BY <2>6 DEF Skip, Load, Claim, CommitPage, HaltPage, FailPage, FencedPage, Heartbeat,
                FencedHeartbeat, Crash, Lapse
  <2> QED  BY <2>1, <2>2, <2>3, <2>4, <2>5, <2>6 DEF Next, Execute
<1>2. RunInv /\ [Next]_vars => [\A w \in Runs : row[w] \in Closed => row'[w] = row[w]]_vars
  BY <1>1
<1> QED  BY <1>2, RunInvariance, PTL DEF Spec, ClosedStaysClosed

-----------------------------------------------------------------------------
(* A lane implements ScanLog: two more invariants, that scans are apart     *)
(* and that a verdict is for the end of a run, map every action to a step   *)
(* of the log or to nothing.                                                *)

AtScan(w) == pc[w] \in {"loaded", "scanning", "committed", "finishing"}

\* A scan is begun once, and goes on in the mode it was begun in.
ScansApart ==
  /\ \A t \in applied : t[1] \in 1 .. scans
  /\ \A t, u \in applied : t[1] = u[1] => t[2] = u[2]
  /\ \A w \in Runs : AtScan(w) =>
       /\ scan[w] \in 1 .. scans
       /\ \A t \in applied : t[1] = scan[w] => t[2] = mode[w]
       /\ \A v \in Runs : AtScan(v) /\ scan[v] = scan[w] => mode[v] = mode[w]

\* What a run closes its row with is decided when it is done with its pages.
Decided ==
  \A w \in Runs :
    /\ verdict[w] \in {"none", "succeeded", "stopped"}
    /\ verdict[w] # "none" => pc[w] \in {"committed", "finishing"}
    /\ pc[w] = "finishing" => verdict[w] # "none"

LogInv == RunInv /\ ScansApart /\ Decided

LEMMA LogInitInv == Init => LogInv
<1>1. Init => ScansApart /\ Decided
  BY DEF Init, ScansApart, Decided, AtScan
<1> QED
  BY <1>1, RunInitInv DEF LogInv

(* A new scan has a new number, and one is resumed in the mode of its pages. *)
LEMMA NextScansApart == ASSUME RunInv, ScansApart, Next PROVE ScansApart'
<1> USE DEF RunInv, TypeOK
<1>1. ASSUME NEW w \in Runs, NEW m \in Modes, Acquire(w, m) PROVE ScansApart'
  BY <1>1 DEF Acquire, ScansApart, AtScan
<1>2. ASSUME NEW w \in Runs, TakeOver(w) \/ Skip(w) PROVE ScansApart'
  BY <1>2 DEF TakeOver, Skip, ScansApart, AtScan
<1>3. ASSUME NEW w \in Runs, NEW tooOld \in BOOLEAN, Load(w, tooOld) PROVE ScansApart'
  <2>1. /\ pc[w] = "acquired" /\ pc' = [pc EXCEPT ![w] = "loaded"]
        /\ mode' = mode /\ applied' = applied /\ cursor' = cursor
    BY <1>3 DEF Load
  <2>2. scans' \in {scans, scans + 1} /\ scans' \in Nat
    BY <1>3 DEF Load
  <2>3. \A v \in Runs \ {w} : scan'[v] = scan[v] /\ (AtScan(v)' <=> AtScan(v))
    BY <1>3, <2>1 DEF Load, AtScan
  <2>4. CASE Resumable(w) /\ ~ tooOld
    <3>1. scan'[w] = cursor.scan /\ mode[w] = cursor.mode /\ scans' = scans
      BY <1>3, <2>4 DEF Load, Resumable
    <3>2. <<cursor.scan, cursor.mode, 1>> \in applied
      BY <2>4, LeasedRunAssumption DEF Resumable, CursorWhole, Pages
    <3>3. cursor.scan \in 1 .. scans /\ \A t \in applied : t[1] = cursor.scan => t[2] = cursor.mode
      BY <3>2 DEF ScansApart
    <3>4. \A v \in Runs : AtScan(v) /\ scan[v] = cursor.scan => mode[v] = cursor.mode
      BY <3>2 DEF ScansApart
    <3> QED
      BY <2>1, <2>3, <3>1, <3>3, <3>4 DEF ScansApart
  <2>5. CASE ~ (Resumable(w) /\ ~ tooOld)
    <3>1. scan'[w] = scans + 1 /\ scans' = scans + 1
      BY <1>3, <2>5 DEF Load
    <3>2. \A t \in applied : t[1] \in 1 .. scans' /\ t[1] # scans + 1
      BY <3>1 DEF ScansApart
    <3>3. \A v \in Runs : AtScan(v) => scan[v] \in 1 .. scans' /\ scan[v] # scans + 1
      BY <3>1 DEF ScansApart
    <3>4. scans + 1 \in 1 .. scans'
      BY <3>1
    <3> QED
      BY <2>1, <2>3, <3>1, <3>2, <3>3, <3>4 DEF ScansApart
  <2> QED
    BY <2>4, <2>5
<1>4. ASSUME NEW w \in Runs, Claim(w) PROVE ScansApart'
  BY <1>4 DEF Claim, ScansApart, AtScan
<1>5. ASSUME NEW w \in Runs, NEW stop \in BOOLEAN, CommitPage(w, stop) PROVE ScansApart'
  <2>1. /\ applied' = applied \union {<<scan[w], mode[w], page[w]>>}
        /\ AtScan(w) /\ \A v \in Runs : AtScan(v)' <=> AtScan(v)
        /\ UNCHANGED <<scans, scan, mode>>
    BY <1>5 DEF CommitPage, AtScan
  <2> QED
    BY <2>1 DEF ScansApart
<1>6. ASSUME NEW w \in Runs, HaltPage(w) \/ FailPage(w) \/ Heartbeat(w) PROVE ScansApart'
  <2>1. UNCHANGED <<scans, scan, mode, applied>> /\ \A v \in Runs : AtScan(v)' => AtScan(v)
    BY <1>6 DEF HaltPage, FailPage, Heartbeat, AtScan
  <2> QED
    BY <2>1 DEF ScansApart
<1>7. ASSUME NEW w \in Runs, FencedPage(w) \/ FencedHeartbeat(w) \/ Finish(w) \/ Crash(w) PROVE ScansApart'
  <2>1. /\ UNCHANGED <<scans, applied>>
        /\ \E how \in {"fenced", "done", "dead"} : Return(w, how)
    BY <1>7 DEF FencedPage, FencedHeartbeat, Finish, Crash
  <2>2. /\ ~ AtScan(w)'
        /\ \A v \in Runs \ {w} : (AtScan(v)' <=> AtScan(v)) /\ scan'[v] = scan[v] /\ mode'[v] = mode[v]
    BY <2>1 DEF Return, AtScan
  <2> QED
    BY <2>1, <2>2 DEF ScansApart
<1>8. ASSUME NEW w \in Runs, Lapse(w) PROVE ScansApart'
  BY <1>8 DEF Lapse, ScansApart, AtScan
<1>9. CASE Reap
  BY <1>9 DEF Reap, ScansApart, AtScan
<1> HIDE DEF RunInv, TypeOK
<1> QED
  BY <1>1, <1>2, <1>3, <1>4, <1>5, <1>6, <1>7, <1>8, <1>9 DEF Next, Execute

LEMMA NextDecided == ASSUME RunInv, Decided, Next PROVE Decided'
<1> USE DEF RunInv, TypeOK, Decided
<1>1. ASSUME NEW w \in Runs, NEW m \in Modes, Acquire(w, m) PROVE Decided'
  BY <1>1 DEF Acquire
<1>2. ASSUME NEW w \in Runs, TakeOver(w) \/ Skip(w) PROVE Decided'
  BY <1>2 DEF TakeOver, Skip
<1>3. ASSUME NEW w \in Runs, NEW flag \in BOOLEAN, Load(w, flag) \/ Claim(w) PROVE Decided'
  BY <1>3 DEF Load, Claim
<1>4. ASSUME NEW w \in Runs, NEW stop \in BOOLEAN, CommitPage(w, stop) \/ HaltPage(w) PROVE Decided'
  BY <1>4 DEF CommitPage, HaltPage
<1>5. ASSUME NEW w \in Runs, FailPage(w) \/ Heartbeat(w) PROVE Decided'
  BY <1>5 DEF FailPage, Heartbeat
<1>6. ASSUME NEW w \in Runs, FencedPage(w) \/ FencedHeartbeat(w) \/ Finish(w) \/ Crash(w) PROVE Decided'
  BY <1>6 DEF FencedPage, FencedHeartbeat, Finish, Crash, Return
<1>7. ASSUME NEW w \in Runs, Lapse(w) \/ Reap PROVE Decided'
  BY <1>7 DEF Lapse, Reap
<1>8. ASSUME Reap PROVE Decided'
  BY <1>8 DEF Reap
<1> HIDE DEF RunInv, TypeOK, Decided
<1> QED
  BY <1>1, <1>2, <1>3, <1>4, <1>5, <1>6, <1>7, <1>8 DEF Next, Execute

LEMMA LogInvariance == Spec => []LogInv
<1>1. LogInv /\ RunInv' /\ [Next]_vars => LogInv'
  <2> SUFFICES ASSUME LogInv, RunInv', [Next]_vars PROVE LogInv'
    OBVIOUS
  <2>1. CASE Next
    BY <2>1, NextScansApart, NextDecided DEF LogInv
  <2>2. CASE UNCHANGED vars
    BY <2>2 DEF vars, LogInv, ScansApart, Decided, AtScan
  <2> QED
    BY <2>1, <2>2
<1> QED
  BY <1>1, LogInitInv, RunInvariance, PTL DEF Spec

\* The ready runs of the log, said once.
ReadyScans == {<<w, scan[w]>> : w \in {v \in Runs : verdict[v] = "succeeded"}}

LEMMA LogInit == LogInv /\ Init => Log!Init
<1> SUFFICES ASSUME LogInv, Init PROVE Log!Init
  OBVIOUS
<1>1. PICK m \in Modes : cursor = [owner |-> nobody, next |-> 1, scan |-> 0, mode |-> m]
  BY DEF Init
<1>2. [scan |-> cursor.scan, mode |-> cursor.mode, page |-> cursor.next]
        = [scan |-> 0, mode |-> m, page |-> 1] /\ cursor.owner = nobody
  BY <1>1
<1>3. {v \in Runs : verdict[v] = "succeeded"} = {} /\ {v \in Runs : late[v] > 0} = {}
  BY DEF Init
<1> QED
  BY <1>2, <1>3 DEF Init, Log!Init, Claimed

\* A step of which the log sees nothing.
LEMMA LogStutters ==
  ASSUME UNCHANGED <<row, cursor, scans, applied, late>>, Claimed' = Claimed, ReadyScans' = ReadyScans
  PROVE  UNCHANGED Log!vars
BY DEF Log!vars, ReadyScans

\* A run that leaves: its lane, and what it would have closed its row with, are gone.
LEMMA LogWithdraws ==
  ASSUME LogInv, NEW w \in Runs, NEW how \in {"fenced", "done", "dead"}, Return(w, how),
         UNCHANGED <<cursor, scans, applied, late>>
  PROVE  /\ Claimed' = Claimed \union {w}
         /\ ReadyScans' = {t \in ReadyScans : t[1] # w}
<1> USE DEF LogInv, RunInv, TypeOK
<1>1. Claimed' = Claimed \union {w}
  BY DEF Return, Claimed
<1>2. \A v \in Runs \ {w} : verdict'[v] = verdict[v] /\ scan'[v] = scan[v]
  BY DEF Return
<1>3. verdict'[w] = "none"
  BY DEF Return
<1>4. ReadyScans' = {t \in ReadyScans : t[1] # w}
  BY <1>2, <1>3 DEF ReadyScans
<1> QED
  BY <1>1, <1>4

LEMMA LogWithdrawal ==
  ASSUME LogInv, NEW w \in Runs, NEW how \in {"fenced", "done", "dead"}, Return(w, how),
         UNCHANGED <<row, cursor, scans, applied, late>>
  PROVE  Log!Withdraw(w)
BY LogWithdraws DEF Log!Withdraw, Log!Without, ReadyScans

\* A page is committed by the run that claimed the lane last, in order and in the mode of its scan.
LEMMA LogWrites ==
  ASSUME LogInv, NEW w \in Runs, pc[w] = "scanning", Held(w),
         late' = [late EXCEPT ![w] = IF row[w] = "running" THEN @ ELSE @ + 1],
         pc' = [pc EXCEPT ![w] = "committed"], UNCHANGED <<row, scans>>, cursor'.owner = cursor.owner
  PROVE  /\ scan[w] \in 1 .. scans /\ mode[w] \in Modes /\ page[w] \in 1 .. LastPage
         /\ Log!Writes(w, scan[w], mode[w], page[w])
<1> USE DEF LogInv, RunInv, TypeOK
<1>1. scan[w] \in 1 .. scans /\ \A t \in applied : t[1] = scan[w] => t[2] = mode[w]
  BY DEF ScansApart, AtScan
<1>2. mode[w] \in Modes /\ Behind(w) /\ page[w] \in 1 .. LastPage
  BY DEF Whole, Pages
<1>3. \A q \in 1 .. page[w] - 1 : <<scan[w], mode[w], q>> \in applied
  BY <1>2, LeasedRunAssumption DEF Behind, Pages
<1>4. late[w] = 0
  BY DEF Late
<1>5. Claimed' = Claimed
  BY DEF Claimed
<1>6. {v \in Runs : late'[v] > 0}
        = IF row[w] = "running" THEN {v \in Runs : late[v] > 0} ELSE {v \in Runs : late[v] > 0} \union {w}
  BY <1>4
<1>7. w \notin {v \in Runs : late[v] > 0} /\ cursor.owner = w
  BY <1>4 DEF Held
<1> QED
  BY <1>1, <1>2, <1>3, <1>5, <1>6, <1>7 DEF Log!Writes

LEMMA LogCommit ==
  ASSUME LogInv, NEW w \in Runs, NEW stop \in BOOLEAN, CommitPage(w, stop)
  PROVE  Log!Next
<1> USE DEF LogInv, RunInv, TypeOK
<1>1. /\ pc[w] = "scanning" /\ verdict[w] = "none" /\ page[w] \in 1 .. LastPage
      /\ stop => page[w] < LastPage
  BY DEF CommitPage, Whole, Pages
<1>2. /\ scan[w] \in 1 .. scans /\ mode[w] \in Modes
      /\ Log!Writes(w, scan[w], mode[w], page[w])
  BY LogWrites DEF CommitPage
<1>3. [scan |-> cursor'.scan, mode |-> cursor'.mode, page |-> cursor'.next]
        = [scan |-> scan[w], mode |-> mode[w], page |-> IF page[w] = LastPage THEN 1 ELSE page[w] + 1]
  <2>1. NextPage(page[w]) = IF page[w] = LastPage THEN 1 ELSE page[w] + 1
    BY <1>1, LeasedRunAssumption DEF NextPage
  <2>2. cursor'.scan = scan[w] /\ cursor'.mode = mode[w] /\ cursor'.next = NextPage(page[w])
    BY DEF CommitPage
  <2> QED
    BY <2>1, <2>2
<1>4. /\ scan' = scan /\ \A v \in Runs \ {w} : verdict'[v] = verdict[v]
      /\ verdict'[w] = "succeeded" <=> page[w] = LastPage
  <2>1. NextPage(page[w]) = 1 <=> page[w] = LastPage
    BY <1>1, LeasedRunAssumption DEF NextPage
  <2> QED
    BY <1>1, <2>1 DEF CommitPage
<1>5. ReadyScans' = IF page[w] = LastPage THEN ReadyScans \union {<<w, scan[w]>>} ELSE ReadyScans
  BY <1>1, <1>4 DEF ReadyScans
<1>6. applied' = applied \union {<<scan[w], mode[w], page[w]>>}
  BY DEF CommitPage
<1>7. PICK s \in 1 .. scans, m \in Modes, p \in 1 .. LastPage : s = scan[w] /\ m = mode[w] /\ p = page[w]
  BY <1>1, <1>2
<1>8. Log!Apply(w, s, m, p)
  BY <1>2, <1>3, <1>5, <1>6, <1>7 DEF Log!Apply, Log!Writes, ReadyScans
<1> QED
  BY <1>7, <1>8 DEF Log!Next

LEMMA LogHalt == ASSUME LogInv, NEW w \in Runs, HaltPage(w) PROVE Log!Next
<1> USE DEF LogInv, RunInv, TypeOK
<1>1. pc[w] = "scanning" /\ verdict[w] = "none"
  BY DEF HaltPage, Whole
<1>2. /\ scan[w] \in 1 .. scans /\ mode[w] \in Modes /\ page[w] \in 1 .. LastPage
      /\ Log!Writes(w, scan[w], mode[w], page[w])
  BY LogWrites DEF HaltPage
<1>3. [scan |-> cursor'.scan, mode |-> cursor'.mode, page |-> cursor'.next]
        = [scan |-> scan[w], mode |-> mode[w], page |-> page[w]]
  BY DEF HaltPage
<1>4. ReadyScans' = ReadyScans /\ applied' = applied
  BY <1>1 DEF HaltPage, ReadyScans
<1>5. PICK s \in 1 .. scans, m \in Modes, p \in 1 .. LastPage : s = scan[w] /\ m = mode[w] /\ p = page[w]
  BY <1>2
<1>6. Log!Halt(w, s, m, p)
  BY <1>2, <1>3, <1>4, <1>5 DEF Log!Halt, Log!Writes, ReadyScans
<1> QED
  BY <1>5, <1>6 DEF Log!Next

LEMMA LogFinish == ASSUME LogInv, NEW w \in Runs, Finish(w) PROVE Log!Next
<1> USE DEF LogInv, RunInv, TypeOK
<1>1. pc[w] = "finishing" /\ verdict[w] \in {"succeeded", "stopped"} /\ w \in Claimed
  BY DEF Finish, Decided, Claimed
<1>2. Claimed' = Claimed /\ ReadyScans' = {t \in ReadyScans : t[1] # w}
  BY <1>1, LogWithdraws DEF Finish
<1>3. CASE row[w] = "running"
  <2>1. row' = [row EXCEPT ![w] = verdict[w]]
    BY <1>3 DEF Finish
  <2>2. verdict[w] = "succeeded" => <<w, scan[w]>> \in ReadyScans /\ scan[w] \in 1 .. scans
    BY <1>1 DEF ReadyScans, ScansApart, AtScan
  <2>3. PICK how \in {"succeeded", "stopped"} : how = verdict[w]
    BY <1>1
  <2>4. Log!EndRun(w, how)
    BY <1>2, <1>3, <2>1, <2>2, <2>3 DEF Log!EndRun, Log!Without, Log!Open, ReadyScans, Finish
  <2> QED
    BY <2>3, <2>4 DEF Log!Next
<1>4. CASE row[w] # "running"
  <2>1. row' = row
    BY <1>4 DEF Finish
  <2>2. Log!Withdraw(w)
    BY <2>1, LogWithdrawal DEF Finish
  <2> QED
    BY <2>2 DEF Log!Next
<1> QED
  BY <1>3, <1>4

(* Every step of the lane is a step of the log, or nothing to it. *)
LEMMA LogStep == ASSUME LogInv, Next PROVE [Log!Next]_Log!vars
<1> USE DEF LogInv, RunInv, TypeOK
<1>1. ASSUME NEW w \in Runs, NEW m \in Modes, Acquire(w, m) PROVE Log!Next
  <2>1. row[w] = "none" /\ Claimed' = Claimed /\ ReadyScans' = ReadyScans
    BY <1>1 DEF Acquire, Late, Claimed, ReadyScans
  <2>2. Log!OpenRow(w)
    BY <1>1, <2>1 DEF Acquire, Running, Log!OpenRow, Log!Open, ReadyScans
  <2> QED
    BY <2>2 DEF Log!Next
<1>2. ASSUME NEW w \in Runs, TakeOver(w) PROVE Log!Next
  <2>1. Claimed' = Claimed /\ ReadyScans' = ReadyScans
    BY <1>2 DEF TakeOver, Claimed, ReadyScans
  <2>2. Log!Abandon(Expired) /\ Expired \in SUBSET Runs
    BY <1>2, <2>1 DEF TakeOver, Log!Abandon, Log!Open, Expired, Running, ReadyScans
  <2> QED
    BY <2>2 DEF Log!Next
<1>3. ASSUME Reap PROVE Log!Next
  <2>1. Log!Abandon(Expired) /\ Expired \in SUBSET Runs
    BY <1>3 DEF Reap, Log!Abandon, Log!Open, Expired, Running, Claimed
  <2> QED
    BY <2>1 DEF Log!Next
<1>4. ASSUME NEW w \in Runs, NEW tooOld \in BOOLEAN, Load(w, tooOld) PROVE [Log!Next]_Log!vars
  <2>1. verdict[w] = "none" /\ verdict' = verdict /\ \A v \in Runs \ {w} : scan'[v] = scan[v]
    BY <1>4 DEF Load, Whole
  <2>2. Claimed' = Claimed
    BY <1>4 DEF Load, Claimed
  <2>3. ReadyScans' = ReadyScans
    BY <2>1 DEF ReadyScans
  <2>4. CASE scans' = scans
    <3>1. UNCHANGED <<row, cursor, scans, applied, late>>
      BY <1>4, <2>4 DEF Load
    <3> QED
      BY <2>2, <2>3, <3>1, LogStutters
  <2>5. CASE scans' = scans + 1
    <3>1. Log!BeginScan
      BY <1>4, <2>2, <2>3, <2>5 DEF Load, Log!BeginScan, ReadyScans
    <3> QED
      BY <3>1 DEF Log!Next
  <2> QED
    BY <1>4, <2>4, <2>5 DEF Load
<1>5. ASSUME NEW w \in Runs, Claim(w) PROVE Log!Next
  <2>1. w \notin Claimed /\ Claimed' = Claimed \union {w} /\ ReadyScans' = ReadyScans
    BY <1>5 DEF Claim, Claimed, ReadyScans
  <2>2. cursor'.owner = w /\ cursor'.scan = cursor.scan /\ cursor'.mode = cursor.mode /\ cursor'.next = cursor.next
    BY <1>5 DEF Claim
  <2>3. Log!ClaimLane(w)
    BY <1>5, <2>1, <2>2 DEF Claim, Log!ClaimLane, ReadyScans
  <2> QED
    BY <2>3 DEF Log!Next
<1>6. ASSUME NEW w \in Runs, FailPage(w) PROVE Log!Next
  <2>1. w \in Claimed /\ Claimed' = Claimed
    BY <1>6 DEF FailPage, Claimed
  <2>2. ReadyScans' = {t \in ReadyScans : t[1] # w}
    <3>1. scan' = scan /\ verdict'[w] = "stopped" /\ \A v \in Runs \ {w} : verdict'[v] = verdict[v]
      BY <1>6 DEF FailPage
    <3> QED
      BY <3>1 DEF ReadyScans
  <2>3. Log!Withdraw(w)
    BY <1>6, <2>1, <2>2 DEF FailPage, Log!Withdraw, Log!Without, ReadyScans
  <2> QED
    BY <2>3 DEF Log!Next
<1>7. ASSUME NEW w \in Runs, FencedPage(w) \/ FencedHeartbeat(w) \/ Crash(w) PROVE Log!Next
  <2>1. /\ UNCHANGED <<row, cursor, scans, applied, late>>
        /\ \E how \in {"fenced", "done", "dead"} : Return(w, how)
    BY <1>7 DEF FencedPage, FencedHeartbeat, Crash
  <2>2. Log!Withdraw(w)
    BY <2>1, LogWithdrawal
  <2> QED
    BY <2>2 DEF Log!Next
<1>8. ASSUME NEW w \in Runs, Skip(w) \/ Heartbeat(w) \/ Lapse(w) PROVE UNCHANGED Log!vars
  <2>1. UNCHANGED <<row, cursor, scans, applied, late>> /\ Claimed' = Claimed /\ ReadyScans' = ReadyScans
    BY <1>8 DEF Skip, Heartbeat, Lapse, Claimed, ReadyScans
  <2> QED
    BY <2>1, LogStutters
<1> HIDE DEF LogInv, RunInv, TypeOK
<1> QED
  BY <1>1, <1>2, <1>3, <1>4, <1>5, <1>6, <1>7, <1>8, LogCommit, LogHalt, LogFinish DEF Next, Execute

(* LeasedRun implements ScanLog: however many workers stall, die and resume each
   other, what they commit to the lane is one log of scans.                  *)
THEOREM LaneImplementsLog == Spec => LaneIsALog
<1>1. LogInv /\ [Next]_vars => [Log!Next]_Log!vars
  <2> SUFFICES ASSUME LogInv, [Next]_vars PROVE [Log!Next]_Log!vars
    OBVIOUS
  <2>1. CASE UNCHANGED vars
    <3>1. UNCHANGED <<row, cursor, scans, applied, late>> /\ Claimed' = Claimed /\ ReadyScans' = ReadyScans
      BY <2>1 DEF vars, Claimed, ReadyScans
    <3> QED
      BY <3>1, LogStutters
  <2> QED
    BY <2>1, LogStep
<1> QED
  BY <1>1, LogInit, LogInvariance, PTL DEF Spec, LaneIsALog, Log!Spec

(* What a log promises is kept by its own steps. *)
LEMMA LogWritesWhole ==
  ASSUME Log!LogIsWhole, NEW w \in Runs, NEW s \in 1 .. scans, NEW m \in Modes, NEW p \in 1 .. LastPage,
         Log!Apply(w, s, m, p) \/ Log!Halt(w, s, m, p)
  PROVE  Log!LogIsWhole'
<1> USE DEF Log!LogIsWhole, ReadyScans
<1>1. Log!Open' = Log!Open
  BY DEF Log!Apply, Log!Halt, Log!Writes, Log!Open
<1>2. \A q \in 1 .. p - 1 : <<s, m, q>> \in applied
  BY DEF Log!Apply, Log!Halt, Log!Writes
<1>3. CASE Log!Apply(w, s, m, p)
  <2>1. /\ applied' = applied \union {<<s, m, p>>}
        /\ \A t \in applied : t[1] = s => t[2] = m
    BY <1>3 DEF Log!Apply, Log!Writes
  <2>2. \A t \in applied' : \A q \in 1 .. t[3] : <<t[1], t[2], q>> \in applied'
    <3>1. \A q \in 1 .. p : q = p \/ q \in 1 .. p - 1
      OBVIOUS
    <3>2. \A q \in 1 .. p : <<s, m, q>> \in applied'
      BY <1>2, <2>1, <3>1
    <3>3. \A t \in applied : \A q \in 1 .. t[3] : <<t[1], t[2], q>> \in applied'
      BY <2>1
    <3>4. ASSUME NEW t \in applied', t = <<s, m, p>> PROVE \A q \in 1 .. t[3] : <<t[1], t[2], q>> \in applied'
      BY <3>2, <3>4
    <3> QED  BY <2>1, <3>3, <3>4
  <2>3. \A q \in 1 .. cursor'.next - 1 : <<cursor'.scan, cursor'.mode, q>> \in applied'
    <3>1. cursor'.scan = s /\ cursor'.mode = m /\ (cursor'.next = 1 \/ cursor'.next = p + 1)
      BY <1>3 DEF Log!Apply
    <3>2. \A q \in 1 .. cursor'.next - 1 : q = p \/ q \in 1 .. p - 1
      BY <3>1
    <3> QED  BY <1>2, <2>1, <3>1, <3>2
  <2>4. \A r \in ReadyScans' : \E n \in Modes : <<r[2], n, LastPage>> \in applied'
    <3>1. ReadyScans' = IF p = LastPage THEN ReadyScans \union {<<w, s>>} ELSE ReadyScans
      BY <1>3 DEF Log!Apply
    <3>2. \A r \in ReadyScans : \E n \in Modes : <<r[2], n, LastPage>> \in applied
      OBVIOUS
    <3>3. p = LastPage => <<s, m, LastPage>> \in applied'
      BY <2>1
    <3>4. \A r \in ReadyScans' : r \in ReadyScans \/ (p = LastPage /\ r = <<w, s>>)
      BY <3>1
    <3> HIDE DEF ReadyScans
    <3> QED  BY <2>1, <3>2, <3>3, <3>4
  <2> QED  BY <1>1, <2>1, <2>2, <2>3, <2>4
<1>4. CASE Log!Halt(w, s, m, p)
  <2>1. applied' = applied /\ ReadyScans' = ReadyScans /\ cursor'.scan = s /\ cursor'.mode = m /\ cursor'.next = p
    BY <1>4 DEF Log!Halt
  <2> QED  BY <1>1, <1>2, <2>1
<1> QED  BY <1>3, <1>4

LEMMA LogStepWhole == Log!LogIsWhole /\ [Log!Next]_Log!vars => Log!LogIsWhole'
<1> SUFFICES ASSUME Log!LogIsWhole, [Log!Next]_Log!vars PROVE Log!LogIsWhole'
  OBVIOUS
<1> USE DEF Log!LogIsWhole, Log!Open
<1>1. CASE UNCHANGED Log!vars
  BY <1>1 DEF Log!vars
<1>2. CASE Log!BeginScan
  BY <1>2 DEF Log!BeginScan
<1>3. ASSUME NEW w \in Runs, Log!OpenRow(w) PROVE Log!LogIsWhole'
  BY <1>3 DEF Log!OpenRow
<1>4. ASSUME NEW w \in Runs, Log!ClaimLane(w) \/ Log!Withdraw(w) PROVE Log!LogIsWhole'
  BY <1>4 DEF Log!ClaimLane, Log!Withdraw, Log!Without
<1>5. ASSUME NEW w \in Runs, NEW how \in {"succeeded", "stopped"}, Log!EndRun(w, how) PROVE Log!LogIsWhole'
  BY <1>5 DEF Log!EndRun, Log!Without
<1>6. ASSUME NEW ws \in SUBSET Runs, Log!Abandon(ws) PROVE Log!LogIsWhole'
  BY <1>6 DEF Log!Abandon
<1> HIDE DEF Log!LogIsWhole, Log!Open
<1> QED
  BY <1>1, <1>2, <1>3, <1>4, <1>5, <1>6, LogWritesWhole DEF Log!Next

LEMMA LogInitWhole == Log!Init => Log!LogIsWhole
<1> SUFFICES ASSUME Log!Init PROVE Log!LogIsWhole
  OBVIOUS
<1>1. PICK m \in Modes : [scan |-> cursor.scan, mode |-> cursor.mode, page |-> cursor.next] = [scan |-> 0, mode |-> m, page |-> 1]
  BY DEF Log!Init
<1>2. cursor.next = 1
  BY <1>1
<1> QED
  BY <1>2 DEF Log!Init, Log!LogIsWhole, Log!Open

(* The log of a lane is whole, by its own steps alone: one run is open at a time, a
   scan has one mode and its pages are a beginning of the list, the cursor stands
   behind applied pages and a run that may succeed has its last page applied. *)
THEOREM LanesLogIsWhole == Spec => []Log!LogIsWhole
BY LaneImplementsLog, LogInitWhole, LogStepWhole, PTL DEF LaneIsALog, Log!Spec

-----------------------------------------------------------------------------
(* Outbox: one commit moves the row to "processing" and every copy read     *)
(* before it is overtaken: so an attempt is alone with the row, and the row *)
(* is pending again only when the attempt brought no answer.                *)

Attempting == {"sending", "answered", "refused"}

\* An attempt has the row to itself.
Alone ==
  \A d \in Deliveries : task[d] \in Attempting =>
    /\ email = "processing" /\ d \notin overtaken
    /\ \A e \in Deliveries \ {d} : task[e] \notin Attempting

\* Who has read the row and may still write it has read it as pending.
ReadPending == \A d \in Deliveries : task[d] = "read" /\ d \notin overtaken => email = "pending"

Composed == composing # "over" => email = "absent"

\* Nothing accepted is answered while the row may still be sent.
Unanswered ==
  /\ email \in {"absent", "pending"} => accepted =< unanswered /\ attempts < MaxAttempts
  /\ \A d \in Deliveries : task[d] \in {"sending", "refused"} => accepted =< unanswered
  /\ \A d \in Deliveries : task[d] = "sending" => accepted < attempts

OutboxInv ==
  OutboxTypeOK /\ Alone /\ ReadPending /\ Composed /\ Unanswered /\ SentAgainOnlyUnanswered

(* The initial state satisfies the invariant. *)
LEMMA OutboxInitInv == OutboxInit => OutboxInv
<1> SUFFICES ASSUME OutboxInit PROVE OutboxInv
  OBVIOUS
<1> USE OutboxAssumption DEF OutboxInit
<1>1. OutboxTypeOK
  <2>1. dropped \in BOOLEAN
    BY Zenon
  <2>2. retries \in [Deliveries -> 0 .. MaxRetries]
    BY 0 \in 0 .. MaxRetries
  <2> QED
    BY <2>1, <2>2 DEF OutboxTypeOK, InHand
<1>2. Alone /\ ReadPending /\ Composed
  BY DEF Alone, ReadPending, Composed, Attempting
<1>3. Unanswered /\ SentAgainOnlyUnanswered
  BY DEF Unanswered, SentAgainOnlyUnanswered
<1> QED
  BY <1>1, <1>2, <1>3 DEF OutboxInv

-----------------------------------------------------------------------------
(* A commit by the one who may: what it makes of the copies of the others. *)
LEMMA Overtaken ==
  ASSUME OutboxTypeOK, NEW d \in Deliveries, Overtakes(d)
  PROVE  /\ overtaken' \in SUBSET Deliveries /\ d \notin overtaken'
         /\ \A e \in Deliveries \ {d} : task[e] \in InHand => e \in overtaken'
BY DEF Overtakes, OutboxTypeOK

(* Every step of a delivery keeps the invariant. *)
LEMMA DeliverKeeps == ASSUME OutboxInv, NEW d \in Deliveries, Deliver(d) PROVE OutboxInv'
<1> USE OutboxAssumption DEF OutboxInv
<1>1. CASE Read(d)
  <2> USE <1>1 DEF Read, GoesOn, provider, faults, OutboxTypeOK, Sendable
  <2>1. OutboxTypeOK'
    BY DEF InHand, Settled
  <2>2. Alone' /\ ReadPending' /\ Composed'
    BY DEF Alone, ReadPending, Composed, Attempting, Settled
  <2>3. Unanswered' /\ SentAgainOnlyUnanswered'
    BY DEF Unanswered, SentAgainOnlyUnanswered
  <2> QED
    BY <2>1, <2>2, <2>3
<1>2. CASE Suppress(d)
  <2> USE <1>2 DEF Suppress, GoesOn, provider, faults
  <2>1. overtaken' \in SUBSET Deliveries /\ \A e \in Deliveries \ {d} : task[e] \in InHand => e \in overtaken'
    BY Overtaken
  <2>2. \A e \in Deliveries : task[e] \notin Attempting
    BY DEF Alone, UpToDate, ReadPending
  <2>3. OutboxTypeOK'
    BY <2>1 DEF OutboxTypeOK, InHand, Settled
  <2>4. Alone' /\ ReadPending' /\ Composed'
    BY <2>1, <2>2 DEF Alone, ReadPending, Composed, Attempting, OutboxTypeOK, InHand, UpToDate
  <2>5. Unanswered' /\ SentAgainOnlyUnanswered'
    BY <2>2 DEF Unanswered, SentAgainOnlyUnanswered, OutboxTypeOK, Attempting
  <2> QED
    BY <2>3, <2>4, <2>5
<1>3. CASE Process(d)
  <2> USE <1>3 DEF Process, GoesOn, provider, faults
  <2>1. /\ overtaken' \in SUBSET Deliveries /\ d \notin overtaken'
        /\ \A e \in Deliveries \ {d} : task[e] \in InHand => e \in overtaken'
    BY Overtaken
  <2>2. email = "pending" /\ \A e \in Deliveries : task[e] \notin Attempting
    BY DEF Alone, UpToDate, ReadPending
  <2>3. OutboxTypeOK'
    BY <2>1, <2>2 DEF OutboxTypeOK, InHand, Unanswered
  <2>4. Alone' /\ ReadPending' /\ Composed'
    BY <2>1, <2>2 DEF Alone, ReadPending, Composed, Attempting, OutboxTypeOK, InHand
  <2>5. Unanswered' /\ SentAgainOnlyUnanswered'
    BY <2>2 DEF Unanswered, SentAgainOnlyUnanswered, OutboxTypeOK, Attempting
  <2> QED
    BY <2>3, <2>4, <2>5
<1>4. CASE LogOnly(d) \/ Refuse(d)
  <2> USE <1>4 DEF LogOnly, Refuse, GoesOn, provider, faults, OutboxTypeOK
  <2>1. OutboxTypeOK'
    BY DEF InHand
  <2>2. Alone' /\ ReadPending' /\ Composed'
    BY DEF Alone, ReadPending, Composed, Attempting
  <2>3. Unanswered' /\ SentAgainOnlyUnanswered'
    BY DEF Unanswered, SentAgainOnlyUnanswered
  <2> QED
    BY <2>1, <2>2, <2>3
<1>5. ASSUME NEW heard \in BOOLEAN, Accept(d, heard) PROVE OutboxInv'
  <2> USE <1>5 DEF Accept, GoesOn, faults
  <2>1. accepted =< unanswered /\ accepted < attempts /\ email = "processing"
    BY DEF Unanswered, Alone, Attempting
  <2>2. \A e \in Deliveries \ {d} : task[e] \notin Attempting
    BY DEF Alone, Attempting
  <2>3. OutboxTypeOK'
    BY <2>1 DEF OutboxTypeOK, InHand
  <2>4. Alone' /\ ReadPending' /\ Composed'
    BY <2>1, <2>2 DEF Alone, ReadPending, Composed, Attempting, OutboxTypeOK
  <2>5. Unanswered' /\ SentAgainOnlyUnanswered'
    BY <2>1, <2>2 DEF Unanswered, SentAgainOnlyUnanswered, OutboxTypeOK, Attempting
  <2> QED
    BY <2>3, <2>4, <2>5
<1>6. CASE Sent(d)
  <2> USE <1>6 DEF Sent, GoesOn, provider, faults
  <2>1. overtaken' \in SUBSET Deliveries /\ \A e \in Deliveries \ {d} : task[e] \in InHand => e \in overtaken'
    BY Overtaken
  <2>2. email = "processing" /\ \A e \in Deliveries \ {d} : task[e] \notin Attempting
    BY DEF Alone, Attempting
  <2>3. OutboxTypeOK'
    BY <2>1 DEF OutboxTypeOK, InHand, Settled
  <2>4. Alone' /\ ReadPending' /\ Composed'
    BY <2>1, <2>2 DEF Alone, ReadPending, Composed, Attempting, OutboxTypeOK, InHand
  <2>5. Unanswered' /\ SentAgainOnlyUnanswered'
    BY <2>2 DEF Unanswered, SentAgainOnlyUnanswered, OutboxTypeOK, Attempting
  <2> QED
    BY <2>3, <2>4, <2>5
<1>7. CASE Failed(d)
  <2> USE <1>7 DEF Failed, AfterFailure, LastAttempt, GoesOn, provider, faults
  <2>1. overtaken' \in SUBSET Deliveries /\ \A e \in Deliveries \ {d} : task[e] \in InHand => e \in overtaken'
    BY Overtaken
  <2>2. email = "processing" /\ \A e \in Deliveries \ {d} : task[e] \notin Attempting
    BY DEF Alone, Attempting
  <2>3. accepted =< unanswered
    BY DEF Unanswered
  <2>4. OutboxTypeOK'
    BY <2>1 DEF OutboxTypeOK, InHand, Settled
  <2>5. Alone' /\ ReadPending' /\ Composed'
    BY <2>1, <2>2 DEF Alone, ReadPending, Composed, Attempting, OutboxTypeOK, InHand
  <2>6. Unanswered' /\ SentAgainOnlyUnanswered'
    BY <2>2, <2>3 DEF Unanswered, SentAgainOnlyUnanswered, OutboxTypeOK, Attempting
  <2> QED
    BY <2>4, <2>5, <2>6
<1>8. CASE Retry(d)
  <2> USE <1>8 DEF Retry, provider, faults, OutboxTypeOK
  <2>1. OutboxTypeOK'
    BY DEF InHand
  <2>2. Alone' /\ ReadPending' /\ Composed'
    BY DEF Alone, ReadPending, Composed, Attempting
  <2>3. Unanswered' /\ SentAgainOnlyUnanswered'
    BY DEF Unanswered, SentAgainOnlyUnanswered
  <2> QED
    BY <2>1, <2>2, <2>3
<1>9. CASE Raise(d)
  <2> USE <1>9 DEF Raise, GoesOn, provider, OutboxTypeOK
  <2>1. OutboxTypeOK'
    BY DEF InHand, UpToDate
  <2>2. Alone' /\ ReadPending' /\ Composed'
    BY DEF Alone, ReadPending, Composed, Attempting
  <2>3. Unanswered' /\ SentAgainOnlyUnanswered'
    BY DEF Unanswered, SentAgainOnlyUnanswered
  <2> QED
    BY <2>1, <2>2, <2>3
<1> QED
  BY <1>1, <1>2, <1>3, <1>4, <1>5, <1>6, <1>7, <1>8, <1>9 DEF Deliver

(* The composing request, the broker, crashes and the webhook keep it. *)
LEMMA EnvironmentKeeps ==
  ASSUME OutboxInv, NEW d \in Deliveries,
         \/ ComposeCommits \/ ComposeRollsBack \/ Webhook \/ Compose(d) \/ Die(d)
         \/ \E e \in Deliveries : DeliverAgain(d, e)
  PROVE  OutboxInv'
<1> USE OutboxAssumption DEF OutboxInv, OutboxTypeOK, provider, faults
<1>1. CASE ComposeCommits
  <2> USE <1>1 DEF ComposeCommits
  <2>1. email = "absent"
    BY DEF Composed
  <2> QED
    BY <2>1 DEF Alone, ReadPending, Composed, Unanswered, SentAgainOnlyUnanswered, Attempting
<1>2. CASE ComposeRollsBack
  BY <1>2 DEF ComposeRollsBack, Alone, ReadPending, Composed, Unanswered, SentAgainOnlyUnanswered
<1>3. CASE Webhook
  <2> USE <1>3 DEF Webhook
  <2>1. \A e \in Deliveries : task[e] \notin Attempting
    BY DEF Alone
  <2>2. OutboxTypeOK'
    BY DEF Settled
  <2>3. Alone' /\ ReadPending' /\ Composed'
    BY <2>1 DEF Alone, ReadPending, Composed, InHand, Attempting
  <2>4. Unanswered' /\ SentAgainOnlyUnanswered'
    BY <2>1 DEF Unanswered, SentAgainOnlyUnanswered, Attempting
  <2> QED
    BY <2>2, <2>3, <2>4
<1>4. CASE Compose(d)
  <2> USE <1>4 DEF Compose
  <2>1. OutboxTypeOK'
    OBVIOUS
  <2>2. Alone' /\ ReadPending' /\ Composed'
    BY DEF Alone, ReadPending, Composed, Attempting
  <2>3. Unanswered' /\ SentAgainOnlyUnanswered'
    BY DEF Unanswered, SentAgainOnlyUnanswered
  <2> QED
    BY <2>1, <2>2, <2>3
<1>5. CASE Die(d)
  <2> USE <1>5 DEF Die
  <2>1. OutboxTypeOK'
    OBVIOUS
  <2>2. Alone' /\ ReadPending' /\ Composed'
    BY DEF Alone, ReadPending, Composed, Attempting
  <2>3. Unanswered' /\ SentAgainOnlyUnanswered'
    BY DEF Unanswered, SentAgainOnlyUnanswered
  <2> QED
    BY <2>1, <2>2, <2>3
<1>6. ASSUME NEW e \in Deliveries, DeliverAgain(d, e) PROVE OutboxInv'
  <2> USE <1>6 DEF DeliverAgain
  <2>1. OutboxTypeOK'
    OBVIOUS
  <2>2. Alone' /\ ReadPending' /\ Composed'
    BY DEF Alone, ReadPending, Composed, Attempting
  <2>3. Unanswered' /\ SentAgainOnlyUnanswered'
    BY DEF Unanswered, SentAgainOnlyUnanswered
  <2> QED
    BY <2>1, <2>2, <2>3
<1> QED
  BY <1>1, <1>2, <1>3, <1>4, <1>5, <1>6

-----------------------------------------------------------------------------
(* Every step keeps the invariant; where there is no delivery only the
   composing request and the webhook can move.                             *)
LEMMA OutboxStepInv == OutboxInv /\ [OutboxNext]_outboxVars => OutboxInv'
<1> SUFFICES ASSUME OutboxInv, [OutboxNext]_outboxVars PROVE OutboxInv'
  OBVIOUS
<1>1. CASE UNCHANGED outboxVars
  BY <1>1 DEF OutboxInv, OutboxTypeOK, Alone, ReadPending, Composed, Unanswered, SentAgainOnlyUnanswered,
              outboxVars, provider, faults
<1>2. CASE OutboxNext /\ Deliveries = {}
  <2> USE <1>2 DEF OutboxInv, OutboxTypeOK, Composed, Unanswered, SentAgainOnlyUnanswered, Settled,
               Alone, ReadPending, provider, faults
  <2>1. CASE ComposeCommits
    BY <2>1 DEF ComposeCommits
  <2>2. CASE ComposeRollsBack
    BY <2>2 DEF ComposeRollsBack
  <2>3. CASE Webhook
    BY <2>3 DEF Webhook
  <2> QED
    BY <2>1, <2>2, <2>3 DEF OutboxNext
<1>3. ASSUME OutboxNext, NEW d \in Deliveries PROVE OutboxInv'
  BY <1>3, DeliverKeeps, EnvironmentKeeps DEF OutboxNext
<1> QED
  BY <1>1, <1>2, <1>3

(* The inductive invariant holds in every reachable state. *)
THEOREM OutboxInvariant == OutboxSpec => []OutboxInv
<1>1. OutboxInit => OutboxInv
  BY OutboxInitInv
<1>2. OutboxInv /\ [OutboxNext]_outboxVars => OutboxInv'
  BY OutboxStepInv
<1> QED
  BY <1>1, <1>2, PTL DEF OutboxSpec

(* Every reachable state of an e-mail is well typed: the attempts never exceed
   max_attempts, however the retries of its deliveries are counted.          *)
THEOREM OutboxTypes == OutboxSpec => []OutboxTypeOK
<1>1. OutboxInv => OutboxTypeOK
  BY DEF OutboxInv
<1> QED
  BY <1>1, OutboxInvariant, PTL

(* However often the message is delivered, retried or redelivered after a crash,
   the provider accepts it again only if the answer to an earlier attempt was
   lost, and never more often than the row counts attempts.                  *)
THEOREM MailSentAgainOnlyUnanswered == OutboxSpec => []SentAgainOnlyUnanswered
<1>1. OutboxInv => SentAgainOnlyUnanswered
  BY DEF OutboxInv
<1> QED
  BY <1>1, OutboxInvariant, PTL

-----------------------------------------------------------------------------
(* Outbox: while nobody died with the row in hand, the e-mail that is not   *)
(* settled has a delivery that will go on with it.                          *)

\* Only a copy of the row that is in use can be an old one.
CopiesInUse == \A d \in overtaken : task[d] \in InHand

\* While the composing request is open, a delivery waits for its row.
Awaited ==
  deaths = 0 /\ ~dropped /\ composing = "open" =>
    \E d \in Deliveries : d \notin overtaken /\ task[d] \in {"queued", "missing"}

Begun == composing = "no" => \A d \in Deliveries : task[d] = "none"

HandInv == CopiesInUse /\ Begun /\ Awaited /\ MailIsInHand

(* A delivery that moves on hands the e-mail over to itself, or leaves it to another. *)
LEMMA DeliveryKeepsHand ==
  ASSUME OutboxInv, HandInv, NEW d \in Deliveries, Deliver(d) PROVE HandInv'
<1> USE DEF OutboxInv, OutboxTypeOK, HandInv, GoesOn, provider, faults, UpToDate
<1>1. CASE Read(d)
  <2> USE <1>1 DEF Read, Sendable
  <2>1. CopiesInUse' /\ Begun'
    BY DEF CopiesInUse, Begun
  <2>2. Awaited'
    BY DEF Awaited, Composed
  <2>3. MailIsInHand'
    BY DEF MailIsInHand
  <2> QED
    BY <2>1, <2>2, <2>3
<1>2. CASE Suppress(d)
  <2> USE <1>2 DEF Suppress
  <2>1. CopiesInUse' /\ Begun'
    BY DEF CopiesInUse, Begun, Overtakes
  <2>2. Awaited' /\ MailIsInHand'
    BY DEF Awaited, MailIsInHand, ReadPending, Composed
  <2> QED
    BY <2>1, <2>2
<1>3. CASE Process(d)
  <2> USE <1>3 DEF Process
  <2>1. CopiesInUse' /\ Begun'
    BY DEF CopiesInUse, Begun, Overtakes, InHand
  <2>2. d \notin overtaken' /\ task'[d] = "sending"
    BY Overtaken
  <2>3. Awaited' /\ MailIsInHand'
    BY <2>2 DEF Awaited, MailIsInHand, ReadPending, Composed
  <2> QED
    BY <2>1, <2>3
<1>4. CASE LogOnly(d) \/ Refuse(d)
  <2> USE <1>4 DEF LogOnly, Refuse
  <2>1. CopiesInUse' /\ Begun'
    BY DEF CopiesInUse, Begun, InHand
  <2>2. email = "processing" /\ d \notin overtaken
    BY DEF Alone, Attempting
  <2>3. Awaited' /\ MailIsInHand'
    BY <2>2 DEF Awaited, MailIsInHand, Composed
  <2> QED
    BY <2>1, <2>3
<1>5. ASSUME NEW heard \in BOOLEAN, Accept(d, heard) PROVE HandInv'
  <2> USE <1>5 DEF Accept
  <2>1. CopiesInUse' /\ Begun'
    BY DEF CopiesInUse, Begun, InHand
  <2>2. email = "processing" /\ d \notin overtaken
    BY DEF Alone, Attempting
  <2>3. Awaited' /\ MailIsInHand'
    BY <2>2 DEF Awaited, MailIsInHand, Composed
  <2> QED
    BY <2>1, <2>3
<1>6. CASE Sent(d)
  <2> USE <1>6 DEF Sent
  <2>1. CopiesInUse' /\ Begun'
    BY DEF CopiesInUse, Begun, Overtakes
  <2>2. email = "processing"
    BY DEF Alone, Attempting
  <2>3. Awaited' /\ MailIsInHand'
    BY <2>2 DEF Awaited, MailIsInHand, Composed
  <2> QED
    BY <2>1, <2>3
<1>7. CASE Failed(d)
  <2> USE <1>7 DEF Failed, AfterFailure
  <2>1. CopiesInUse' /\ Begun'
    BY DEF CopiesInUse, Begun, Overtakes, InHand
  <2>2. email = "processing"
    BY DEF Alone, Attempting
  <2>3. d \notin overtaken'
    BY Overtaken
  <2>4. Awaited' /\ MailIsInHand'
    BY <2>2, <2>3 DEF Awaited, MailIsInHand, Composed
  <2> QED
    BY <2>1, <2>4
<1>8. CASE Retry(d)
  <2> USE <1>8 DEF Retry
  <2>1. CopiesInUse' /\ Begun'
    BY DEF CopiesInUse, Begun
  <2>2. Awaited' /\ MailIsInHand'
    BY DEF Awaited, MailIsInHand
  <2> QED
    BY <2>1, <2>2
<1>9. CASE Raise(d)
  <2> USE <1>9 DEF Raise
  <2>1. CopiesInUse' /\ Begun'
    BY DEF CopiesInUse, Begun
  <2>2. ~dropped' => ~dropped /\ d \in overtaken
    OBVIOUS
  <2>3. Awaited' /\ MailIsInHand'
    BY <2>2 DEF Awaited, MailIsInHand
  <2> QED
    BY <2>1, <2>3
<1> QED
  BY <1>1, <1>2, <1>3, <1>4, <1>5, <1>6, <1>7, <1>8, <1>9 DEF Deliver

(* The composing request, the broker and the webhook keep it in hand. *)
LEMMA EnvironmentKeepsHand ==
  ASSUME OutboxInv, HandInv, NEW d \in Deliveries,
         \/ ComposeCommits \/ ComposeRollsBack \/ Webhook \/ Compose(d) \/ Die(d)
         \/ \E e \in Deliveries : DeliverAgain(d, e)
  PROVE  HandInv'
<1> USE DEF OutboxInv, OutboxTypeOK, HandInv, provider, faults, UpToDate
<1>1. CASE ComposeCommits
  BY <1>1 DEF ComposeCommits, CopiesInUse, Begun, Awaited, MailIsInHand
<1>2. CASE ComposeRollsBack
  BY <1>2 DEF ComposeRollsBack, CopiesInUse, Begun, Awaited, MailIsInHand
<1>3. CASE Webhook
  BY <1>3 DEF Webhook, CopiesInUse, Begun, Awaited, MailIsInHand, Composed
<1>4. CASE Compose(d)
  <2>1. email = "absent"
    BY <1>4 DEF Compose, Composed
  <2>2. overtaken = {}
    BY <1>4 DEF Compose, CopiesInUse, Begun, InHand
  <2> QED
    BY <1>4, <2>1, <2>2 DEF Compose, CopiesInUse, Begun, Awaited, MailIsInHand
<1>5. CASE Die(d)
  <2>1. deaths' # 0
    BY <1>5, OutboxAssumption DEF Die
  <2> QED
    BY <1>5, <2>1 DEF Die, InHand, CopiesInUse, Begun, Awaited, MailIsInHand
<1>6. ASSUME NEW e \in Deliveries, DeliverAgain(d, e) PROVE HandInv'
  <2>1. \A f \in Deliveries : task[f] # "none" => task'[f] = task[f]
    BY <1>6 DEF DeliverAgain
  <2> QED
    BY <1>6, <2>1 DEF DeliverAgain, CopiesInUse, Begun, Awaited, MailIsInHand, InHand
<1> QED
  BY <1>1, <1>2, <1>3, <1>4, <1>5, <1>6

(* An e-mail to be sent is in the hands of a delivery that may write the row, and one
   that is being sent in the hands of its attempt - unless a worker died or a task
   that had the row to itself raised: nothing else can leave it behind.      *)
THEOREM MailStaysInHand == OutboxSpec => []MailIsInHand
<1>1. OutboxInit => HandInv
  BY DEF OutboxInit, HandInv, CopiesInUse, Begun, Awaited, MailIsInHand
<1>2. OutboxInv /\ HandInv /\ [OutboxNext]_outboxVars => HandInv'
  <2> SUFFICES ASSUME OutboxInv, HandInv, [OutboxNext]_outboxVars PROVE HandInv'
    OBVIOUS
  <2>1. CASE UNCHANGED outboxVars
    BY <2>1 DEF outboxVars, provider, faults, HandInv, CopiesInUse, Begun, Awaited, MailIsInHand, UpToDate
  <2>2. CASE OutboxNext /\ Deliveries = {}
    <3> USE <2>2 DEF HandInv, CopiesInUse, Begun, Awaited, MailIsInHand, OutboxInv, OutboxTypeOK, Composed,
                 provider, faults, UpToDate
    <3>1. CASE ComposeCommits
      BY <3>1 DEF ComposeCommits
    <3>2. CASE ComposeRollsBack
      BY <3>2 DEF ComposeRollsBack
    <3>3. CASE Webhook
      BY <3>3 DEF Webhook
    <3> QED
      BY <3>1, <3>2, <3>3 DEF OutboxNext
  <2>3. ASSUME OutboxNext, NEW d \in Deliveries PROVE HandInv'
    BY <2>3, DeliveryKeepsHand, EnvironmentKeepsHand DEF OutboxNext
  <2> QED
    BY <2>1, <2>2, <2>3
<1>3. HandInv => MailIsInHand
  BY DEF HandInv
<1> QED
  BY <1>1, <1>2, <1>3, OutboxInvariant, PTL DEF OutboxSpec

-----------------------------------------------------------------------------
(* Planner: every variable keeps its type. *)

LEMMA EndsTypes ==
  ASSUME PlannerTypeOK, NEW ls \in SUBSET Lanes, NEW how \in Endings, Ends(ls, how),
         UNCHANGED <<weather, marks>>, queue' \in [Lanes -> 0 .. MaxQueue]
  PROVE  PlannerTypeOK'
<1>1. lease' \in [Lanes -> {"free", "held", "lapsed"}] /\ latest' \in [Lanes -> {"none"} \union Endings]
  BY DEF Ends, PlannerTypeOK
<1>2. since' \in SUBSET {l \in Lanes : lease[l] # "free"}'
  BY DEF Ends, PlannerTypeOK
<1>3. started' \in SUBSET Lanes /\ owed' \in SUBSET Lanes
  BY DEF Ends, PlannerTypeOK
<1>4. forgotten' \in SUBSET owed'
  <2>1. how # "done" => owed' = owed
    BY DEF Ends
  <2>2. CASE how = "done"
    BY <2>2 DEF Ends, PlannerTypeOK
  <2>3. CASE how = "stopped"
    BY <2>1, <2>3 DEF Ends, PlannerTypeOK
  <2>4. CASE how \notin {"done", "stopped"}
    BY <2>1, <2>4 DEF Ends, PlannerTypeOK
  <2> QED
    BY <2>2, <2>3, <2>4
<1> QED
  BY <1>1, <1>2, <1>3, <1>4 DEF PlannerTypeOK

LEMMA PlannerStepTypes == PlannerTypeOK /\ [PlannerNext]_plannerVars => PlannerTypeOK'
<1> SUFFICES ASSUME PlannerTypeOK, [PlannerNext]_plannerVars PROVE PlannerTypeOK'
  OBVIOUS
<1> USE PlannerAssumption
<1>0. "manual" \in Lanes /\ {"done", "stopped"} \subseteq Endings
  BY DEF Lanes, Endings
<1>1. CASE Ask
  BY <1>0, <1>1 DEF Ask, PlannerTypeOK
<1>2. CASE WeatherClears
  BY <1>2 DEF WeatherClears, PlannerTypeOK
<1>3. CASE Reaping
  BY <1>0, <1>3, EndsTypes DEF Reaping, Reapable, PlannerTypeOK
<1>4. CASE Enqueue
  <2>1. PICK admitted \in Admitting :
          /\ \A l \in Planned(Due \intersect admitted) : queue[l] < MaxQueue
          /\ queue' = [l \in Lanes |-> IF l \in Planned(Due \intersect admitted) THEN queue[l] + 1 ELSE queue[l]]
    BY <1>4 DEF Enqueue
  <2>2. ASSUME NEW l \in Lanes PROVE queue'[l] \in 0 .. MaxQueue
    <3>1. queue[l] \in 0 .. MaxQueue
      BY DEF PlannerTypeOK
    <3>2. CASE l \in Planned(Due \intersect admitted)
      BY <2>1, <3>1, <3>2
    <3>3. CASE l \notin Planned(Due \intersect admitted)
      BY <2>1, <3>1, <3>3
    <3> QED
      BY <3>2, <3>3
  <2>3. queue' \in [Lanes -> 0 .. MaxQueue]
    BY <2>1, <2>2
  <2> QED
    BY <1>4, <2>3 DEF Enqueue, PlannerTypeOK
<1>5. ASSUME NEW l \in Lanes, SlotPasses(l) PROVE PlannerTypeOK'
  BY <1>5 DEF SlotPasses, PlannerTypeOK
<1>6. ASSUME NEW l \in Lanes, BackoffOver(l) PROVE PlannerTypeOK'
  BY <1>6 DEF BackoffOver, PlannerTypeOK, Endings
<1>7. ASSUME NEW l \in Lanes, TakeMessage(l) PROVE PlannerTypeOK'
  BY <1>7 DEF TakeMessage, PlannerTypeOK
<1>8. ASSUME NEW l \in Lanes, TakeOverLane(l) PROVE PlannerTypeOK'
  BY <1>0, <1>8, EndsTypes DEF TakeOverLane, PlannerTypeOK
<1>9. ASSUME NEW l \in Lanes, SkipMessage(l) PROVE PlannerTypeOK'
  BY <1>9 DEF SkipMessage, PlannerTypeOK
<1>10. ASSUME NEW l \in Lanes, NEW how \in Endings, EndRun(l, how) PROVE PlannerTypeOK'
  <2>1. queue' \in [Lanes -> 0 .. MaxQueue]
    <3>1. CASE queue' = queue
      BY <3>1 DEF PlannerTypeOK
    <3>2. CASE queue[l] < MaxQueue /\ queue' = [queue EXCEPT ![l] = @ + 1]
      BY <3>2 DEF PlannerTypeOK
    <3> QED
      BY <1>10, <3>1, <3>2 DEF EndRun
  <2> QED
    BY <1>10, <2>1, EndsTypes DEF EndRun
<1>11. ASSUME NEW l \in Lanes, RunLapses(l) PROVE PlannerTypeOK'
  BY <1>11 DEF RunLapses, PlannerTypeOK
<1>12. CASE UNCHANGED plannerVars
  BY <1>12 DEF plannerVars, PlannerTypeOK
<1> QED
  BY <1>1, <1>2, <1>3, <1>4, <1>5, <1>6, <1>7, <1>8, <1>9, <1>10, <1>11, <1>12
     DEF PlannerNext, PlannerTick, Works

(* Type correctness: a start counts of running rows only, and only what is owed is forgotten. *)
THEOREM PlannerTypes == PlannerSpec => []PlannerTypeOK
<1>1. PlannerInit => PlannerTypeOK
  BY PlannerAssumption DEF PlannerInit, PlannerTypeOK
<1> QED
  BY <1>1, PlannerStepTypes, PTL DEF PlannerSpec

-----------------------------------------------------------------------------
(* Planner: a lane is owed a run and not forgotten.  Only a start that      *)
(* counts after the slot can hide it from the planner, and the row of that  *)
(* start is then the lane's last one: it runs, yielded, or was stopped.     *)

\* A running row from before the slot does not count; a request sets no slot.
StartsCount == "manual" \in started /\ \A l \in Taken \ since : l \notin started

PlannerInv == PlannerTypeOK /\ StartsCount /\ NothingOwedIsLost

(* A run that ends leaves the lanes that are owed one in hand: done, it has answered
   the slot or started before it; yielded, it goes on; stopped, it is forgotten or due. *)
LEMMA EndsKeep ==
  ASSUME PlannerInv, NEW ls \in SUBSET Taken, NEW how \in Endings, Ends(ls, how),
         \A l \in Lanes : queue[l] > 0 => queue'[l] > 0
  PROVE  StartsCount' /\ NothingOwedIsLost'
<1> USE DEF PlannerInv, PlannerTypeOK
<1>1. started \subseteq started' /\ started' \subseteq started \union (ls \intersect since)
  BY DEF Ends
<1>2. Taken' = Taken \ ls /\ since' = since \ ls
  BY DEF Ends, Taken
<1>3. StartsCount'
  BY <1>1, <1>2 DEF StartsCount
<1>4. ASSUME NEW l \in owed' \ forgotten'
      PROVE  l \in Taken' \/ queue'[l] > 0 \/ l \in Due' \/ latest'[l] = "deferred"
  <2>1. l \in Lanes /\ l \in owed /\ (queue[l] > 0 => queue'[l] > 0)
    BY <1>4 DEF Ends
  <2>2. CASE l \notin ls
    <3>1. latest'[l] = latest[l] /\ (l \in started' <=> l \in started) /\ (l \in Taken' <=> l \in Taken)
      BY <1>1, <1>2, <2>1, <2>2 DEF Ends
    <3>2. l \notin forgotten
      BY <1>4, <2>2 DEF Ends
    <3>3. l \in Taken \/ queue[l] > 0 \/ l \in Due \/ latest[l] = "deferred"
      BY <2>1, <3>2 DEF NothingOwedIsLost
    <3>4. l \in Due => l \in Due'
      BY <2>1, <3>1 DEF Due, Continues
    <3> QED
      BY <2>1, <3>1, <3>3, <3>4, Zenon
  <2>3. CASE l \in ls
    <3>1. l \notin Taken' /\ latest'[l] = how
      BY <1>2, <2>1, <2>3 DEF Ends
    <3>2. CASE how \in {"yielded", "deferred"}
      BY <2>1, <3>1, <3>2 DEF Due, Continues
    <3>3. CASE how = "stopped"
      <4>1. l \notin started' /\ l # "manual"
        BY <1>4, <2>1, <2>3, <3>3 DEF Ends, StartsCount
      <4> QED
        BY <2>1, <3>1, <4>1 DEF Due
    <3>4. CASE how = "done"
      <4>1. l \in Taken \ since
        BY <1>4, <2>3, <3>4 DEF Ends
      <4>2. l \notin started' /\ l # "manual"
        BY <1>1, <4>1 DEF StartsCount
      <4> QED
        BY <2>1, <3>1, <4>2 DEF Due
    <3> QED
      BY <3>2, <3>3, <3>4 DEF Endings
  <2> QED
    BY <2>2, <2>3
<1> QED
  BY <1>3, <1>4 DEF NothingOwedIsLost

(* Every step keeps what is owed in hand. *)
LEMMA PlannerStepInv == PlannerInv /\ [PlannerNext]_plannerVars => PlannerInv'
<1> SUFFICES ASSUME PlannerInv, [PlannerNext]_plannerVars PROVE StartsCount' /\ NothingOwedIsLost'
  BY PlannerStepTypes DEF PlannerInv
<1> USE PlannerAssumption DEF PlannerInv, PlannerTypeOK
<1>0. /\ "manual" \in Lanes /\ {"done", "stopped"} \subseteq Endings
      /\ \A l \in Lanes : queue[l] \in Nat
  BY DEF Lanes, Endings
<1>1. CASE Ask
  BY <1>0, <1>1 DEF Ask, StartsCount, NothingOwedIsLost, Due, Taken, Continues
<1>2. CASE WeatherClears \/ UNCHANGED plannerVars
  BY <1>2 DEF WeatherClears, plannerVars, StartsCount, NothingOwedIsLost, Due, Taken, Continues
<1>3. CASE Reaping
  <2>1. Reapable \subseteq Taken
    BY DEF Reapable, Taken
  <2> QED
    BY <1>0, <1>3, <2>1, EndsKeep DEF Reaping
<1>4. CASE Enqueue
  <2>1. PICK runs : queue' = [l \in Lanes |-> IF l \in runs THEN queue[l] + 1 ELSE queue[l]]
    BY <1>4 DEF Enqueue
  <2>2. \A l \in Lanes : queue[l] > 0 => queue'[l] > 0
    BY <1>0, <2>1
  <2> QED
    BY <1>0, <1>4, <2>2 DEF Enqueue, StartsCount, NothingOwedIsLost, Due, Taken, Continues
<1>5. ASSUME NEW l \in Lanes, SlotPasses(l) PROVE StartsCount' /\ NothingOwedIsLost'
  BY <1>5 DEF SlotPasses, StartsCount, NothingOwedIsLost, Due, Taken, Continues
<1>6. ASSUME NEW l \in Lanes, BackoffOver(l) PROVE StartsCount' /\ NothingOwedIsLost'
  BY <1>6 DEF BackoffOver, StartsCount, NothingOwedIsLost, Due, Taken, Continues
<1>7. ASSUME NEW l \in Lanes, TakeMessage(l) PROVE StartsCount' /\ NothingOwedIsLost'
  <2>1. Taken' = Taken \union {l} /\ \A k \in Lanes \ {l} : queue'[k] = queue[k]
    BY <1>7 DEF TakeMessage, Taken
  <2> QED
    BY <1>7, <2>1 DEF TakeMessage, StartsCount, NothingOwedIsLost, Due, Continues
<1>8. ASSUME NEW l \in Lanes, TakeOverLane(l) PROVE StartsCount' /\ NothingOwedIsLost'
  <2>1. {l} \subseteq Taken
    BY <1>8 DEF TakeOverLane, Taken
  <2> QED
    BY <1>0, <1>8, <2>1, EndsKeep DEF TakeOverLane
<1>9. ASSUME NEW l \in Lanes, SkipMessage(l) PROVE StartsCount' /\ NothingOwedIsLost'
  <2>1. l \in Taken /\ Taken' = Taken /\ \A k \in Lanes \ {l} : queue'[k] = queue[k]
    BY <1>9 DEF SkipMessage, Taken
  <2> QED
    BY <1>9, <2>1 DEF SkipMessage, StartsCount, NothingOwedIsLost, Due, Continues
<1>10. ASSUME NEW l \in Lanes, NEW how \in Endings, EndRun(l, how) PROVE StartsCount' /\ NothingOwedIsLost'
  <2>1. {l} \subseteq Taken
    BY <1>10 DEF EndRun, Taken
  <2>2. CASE queue' = queue
    BY <1>0, <1>10, <2>1, <2>2, EndsKeep DEF EndRun
  <2>3. CASE queue' = [queue EXCEPT ![l] = @ + 1]
    <3>1. \A k \in Lanes : queue[k] > 0 => queue'[k] > 0
      BY <1>0, <2>3
    <3> QED
      BY <1>10, <2>1, <3>1, EndsKeep DEF EndRun
  <2> QED
    BY <1>10, <2>2, <2>3 DEF EndRun
<1>11. ASSUME NEW l \in Lanes, RunLapses(l) PROVE StartsCount' /\ NothingOwedIsLost'
  <2>1. Taken' = Taken
    BY <1>11 DEF RunLapses, Taken
  <2> QED
    BY <1>11, <2>1 DEF RunLapses, StartsCount, NothingOwedIsLost, Due, Continues
<1> QED
  BY <1>1, <1>2, <1>3, <1>4, <1>5, <1>6, <1>7, <1>8, <1>9, <1>10, <1>11
     DEF PlannerNext, PlannerTick, Works

(* However runs yield, fail, are suspended, die and are reaped, a lane that is owed a
   run and was not forgotten runs, has a message, is due, or will be when its backoff
   is over: no row the planner reads can hide it for good.                   *)
THEOREM OwedLanesAreInHand == PlannerSpec => []NothingOwedIsLost
<1>1. PlannerInit => PlannerInv
  BY PlannerAssumption DEF PlannerInit, PlannerInv, PlannerTypeOK, StartsCount, NothingOwedIsLost, Taken, Lanes
<1>2. PlannerInv => NothingOwedIsLost
  BY DEF PlannerInv
<1> QED
  BY <1>1, <1>2, PlannerStepInv, PTL DEF PlannerSpec

-----------------------------------------------------------------------------
(* The three parts side by side. *)

(* A behaviour of the composite run is one of each of its parts. *)
LEMMA WorkersParts == WorkersSpec => Spec /\ PlannerSpec /\ OutboxSpec
<1>1. WorkersInit => Init /\ PlannerInit /\ OutboxInit
  BY DEF WorkersInit
<1>2. [WorkersNext]_allVars => [Next]_vars /\ [PlannerNext]_plannerVars /\ [OutboxNext]_outboxVars
  BY DEF WorkersNext, allVars, laneVars
<1> QED
  BY <1>1, <1>2, PTL DEF WorkersSpec, Spec, PlannerSpec, OutboxSpec

Chosen == part \in {"lane", "planner", "e-mail"}

(* Every variable of the three parts keeps its type. *)
THEOREM WorkersTypes == WorkersSpec => []WorkersTypeOK
<1>1. WorkersInit => Chosen
  BY DEF WorkersInit, Chosen
<1>2. Chosen /\ [WorkersNext]_allVars => Chosen'
  BY DEF WorkersNext, allVars, Chosen
<1>3. TypeOK /\ PlannerTypeOK /\ OutboxTypeOK /\ Chosen => WorkersTypeOK
  BY DEF WorkersTypeOK, Chosen
<1> QED
  BY <1>1, <1>2, <1>3, WorkersParts, LeasedRunTypeOK, PlannerTypes, OutboxTypes, PTL DEF WorkersSpec
==============================================================================
