------------------------------- MODULE ScanLog -------------------------------
(***************************************************************************)
(* What the lease of a lane and its cursor promise together (runs.py:3-12, *)
(* _execute_leased_run), and nothing of how: one log of scans.  The pages  *)
(* of a scan are applied in order, in one mode, by runs that take over     *)
(* from one another; only the run that claimed the lane last writes, it    *)
(* claims it once, and once its row is closed it writes one page at most.  *)
(* The lane is marked where a scan may go on.  A run ends as succeeded     *)
(* only if it has applied the last page itself, and what has ended stays.  *)
(* LeasedRun.tla (leases that lapse, zombies, crashes) implements it.      *)
(***************************************************************************)
EXTENDS Naturals

CONSTANTS Runs, Modes, LastPage, nobody

VARIABLES
  row,     \* row[w]: has run w begun, and how has it ended
  scans,   \* the scans begun so far are 1 .. scans
  log,     \* the pages applied, <<scan, mode, page>>
  mark,    \* the page where a scan may go on
  writer,  \* the run that claimed the lane last
  barred,  \* the runs that may not claim it any more
  ready,   \* <<run, scan>>: who has applied the last page of a scan and not ended
  spent    \* the runs that have written after their row was closed

vars == <<row, scans, log, mark, writer, barred, ready, spent>>

Open == {w \in Runs : row[w] = "running"}

Init ==
  /\ row = [w \in Runs |-> "none"]
  /\ scans = 0 /\ log = {}
  /\ \E m \in Modes : mark = [scan |-> 0, mode |-> m, page |-> 1]
  /\ writer = nobody /\ barred = {} /\ ready = {} /\ spent = {}

OpenRow(w) ==
  /\ row[w] = "none" /\ Open = {}
  /\ row' = [row EXCEPT ![w] = "running"]
  /\ UNCHANGED <<scans, log, mark, writer, barred, ready, spent>>

BeginScan == scans' = scans + 1 /\ UNCHANGED <<row, log, mark, writer, barred, ready, spent>>

ClaimLane(w) ==
  /\ w \notin barred
  /\ writer' = w /\ barred' = barred \union {w}
  /\ UNCHANGED <<row, scans, log, mark, ready, spent>>

\* Run w is at page p of scan s, which is in mode m, and writes.
Writes(w, s, m, p) ==
  /\ writer = w /\ w \notin spent
  /\ \A q \in 1 .. p - 1 : <<s, m, q>> \in log
  /\ \A t \in log : t[1] = s => t[2] = m
  /\ spent' = IF row[w] = "running" THEN spent ELSE spent \union {w}
  /\ UNCHANGED <<row, scans, writer, barred>>

Apply(w, s, m, p) ==
  /\ Writes(w, s, m, p)
  /\ log' = log \union {<<s, m, p>>}
  /\ mark' = [scan |-> s, mode |-> m, page |-> IF p = LastPage THEN 1 ELSE p + 1]
  /\ ready' = IF p = LastPage THEN ready \union {<<w, s>>} ELSE ready

\* The page is to be listed again.
Halt(w, s, m, p) ==
  /\ Writes(w, s, m, p)
  /\ mark' = [scan |-> s, mode |-> m, page |-> p]
  /\ UNCHANGED <<log, ready>>

Without(w) == {t \in ready : t[1] # w}

\* A run fails, is fenced or dies.
Withdraw(w) ==
  /\ ready' = Without(w) /\ barred' = barred \union {w}
  /\ UNCHANGED <<row, scans, log, mark, writer, spent>>

EndRun(w, how) ==
  /\ w \in Open
  /\ how = "succeeded" => \E s \in 1 .. scans : <<w, s>> \in ready
  /\ row' = [row EXCEPT ![w] = how]
  /\ ready' = Without(w)
  /\ UNCHANGED <<scans, log, mark, writer, barred, spent>>

Abandon(ws) ==
  /\ ws \subseteq Open
  /\ row' = [w \in Runs |-> IF w \in ws THEN "abandoned" ELSE row[w]]
  /\ UNCHANGED <<scans, log, mark, writer, barred, ready, spent>>

Next ==
  \/ BeginScan
  \/ \E w \in Runs : OpenRow(w) \/ ClaimLane(w) \/ Withdraw(w)
  \/ \E w \in Runs, s \in 1 .. scans, m \in Modes, p \in 1 .. LastPage :
       Apply(w, s, m, p) \/ Halt(w, s, m, p)
  \/ \E w \in Runs, how \in {"succeeded", "stopped"} : EndRun(w, how)
  \/ \E ws \in SUBSET Runs : Abandon(ws)

Spec == Init /\ [][Next]_vars

-----------------------------------------------------------------------------
(* A log is whole: one run at a time is open, a scan has one mode, its pages are
   a beginning of the list, the mark stands behind pages that are applied, and a
   run is ready with a scan whose last page is applied.                       *)
LogIsWhole ==
  /\ \A v, w \in Open : v = w
  /\ \A t, u \in log : t[1] = u[1] => t[2] = u[2]
  /\ \A t \in log : \A p \in 1 .. t[3] : <<t[1], t[2], p>> \in log
  /\ \A p \in 1 .. mark.page - 1 : <<mark.scan, mark.mode, p>> \in log
  /\ \A r \in ready : \E m \in Modes : <<r[2], m, LastPage>> \in log
=============================================================================
