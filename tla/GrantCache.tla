------------------------------ MODULE GrantCache ------------------------------
(***************************************************************************)
(* One user's grants as requests see them (modules/rbac/engine.py): loaded *)
(* from Postgres, cached in Redis with the tenant's epoch and a time to    *)
(* live that the next start or end of a grant cuts short, dropped by       *)
(* forget_user() and outdated by bump_epoch().                             *)
(*                                                                         *)
(* Whoever changes what a user may do flushes, tells the cache, and        *)
(* commits when its request ends (get_db()); a load meanwhile reads table  *)
(* after table, each as committed, then the epoch, then sets the key.      *)
(* Nothing of this is done under a lock, and no failure of Redis stops a   *)
(* request.                                                                *)
(***************************************************************************)
EXTENDS Naturals

CONSTANTS
  Fillers,      \* requests of the user that load the grants
  Ttl,        \* RBAC_CACHE_TTL_SECONDS
  GrantEnd,   \* valid_to of one of the grants
  MaxClock,   \* bound: the clock
  MaxEpoch    \* bound: the epoch

ASSUME GrantCacheAssumption == {Ttl, GrantEnd, MaxClock, MaxEpoch} \subseteq Nat /\ Ttl > 0

VARIABLES
  clock,   \* seconds
  progress,\* what each kind of change is doing
  epoch,   \* rbac:epoch:{tenant}
  entry,   \* rbac:grants:{tenant}:{user}
  load,    \* what each load has read so far
  filled,  \* history: the changes that had been flushed, or told, when the key was set
  why      \* history: why the entry may be old

grantVars == <<clock, progress, epoch, entry, load, filled, why>>

\* An assignment drops the user's key; a role's permissions bump the epoch; an
\* organization that moves changes the paths the grants cover and tells nobody.
\* The loads read them in this order.
Tables == <<"assignment", "role", "organization">>
Changes == {Tables[i] : i \in DOMAIN Tables}

\* What the grants are: the changes they show, and whether the timed one is there.
Views == [shows : SUBSET Changes, timed : BOOLEAN]
NoView == [shows |-> {}, timed |-> FALSE]
NoEntry == [there |-> FALSE, epoch |-> 0, view |-> NoView, until |-> 0]
NoLoad == [at |-> 0, view |-> NoView, epoch |-> 0, now |-> 0, crossed |-> FALSE]

GrantCacheTypeOK ==
  /\ clock \in 0 .. MaxClock /\ epoch \in 0 .. MaxEpoch
  /\ progress \in [Changes -> {"none", "flushed", "told", "untold", "committed"}]
  /\ entry \in [there : BOOLEAN, epoch : 0 .. MaxEpoch, view : Views, until : 0 .. MaxClock + Ttl]
  /\ load \in [Fillers -> [at : 0 .. 5, view : Views, epoch : 0 .. MaxEpoch, now : 0 .. MaxClock,
                         crossed : BOOLEAN]]
  /\ filled \in SUBSET Changes
  /\ why \in SUBSET {"overlap", "untold", "moved", "slow"}

GrantCacheInit ==
  /\ clock = 0 /\ epoch = 0
  /\ progress = [c \in Changes |-> "none"]
  /\ entry = NoEntry
  /\ load = [l \in Fillers |-> NoLoad]
  /\ filled = {} /\ why = {}

Truth == [shows |-> {c \in Changes : progress[c] = "committed"}, timed |-> clock < GrantEnd]

\* _cache_read(): a request that reads the key now takes its grants from it.
Hit == entry.there /\ entry.epoch = epoch

-----------------------------------------------------------------------------
(* A change: its rows, the cache, the commit. *)

MakeChange(c) ==
  /\ progress[c] = "none"
  /\ progress' = [progress EXCEPT ![c] = "flushed"]
  /\ UNCHANGED <<clock, epoch, entry, load, filled, why>>

\* forget_user()
Forget ==
  /\ progress["assignment"] = "flushed"
  /\ progress' = [progress EXCEPT !["assignment"] = "told"]
  /\ entry' = NoEntry /\ why' = {} /\ filled' = {}
  /\ UNCHANGED <<clock, epoch, load>>

\* bump_epoch()
Bump ==
  /\ progress["role"] = "flushed" /\ epoch < MaxEpoch
  /\ epoch' = epoch + 1
  /\ progress' = [progress EXCEPT !["role"] = "told"]
  /\ filled' = filled \ {"role"}
  /\ UNCHANGED <<clock, entry, load, why>>

\* A Redis error is logged.
TellFails(c) ==
  /\ progress[c] = "flushed" /\ c # "organization"
  /\ progress' = [progress EXCEPT ![c] = "untold"]
  /\ filled' = filled \ {c}
  /\ UNCHANGED <<clock, epoch, entry, load, why>>

\* What a change that is committed now leaves in the cache is old because...
Leaves(c) ==
  (IF c = "organization" THEN {"moved"} ELSE {})
  \union (IF progress[c] = "untold" THEN {"untold"} ELSE {})
  \union (IF c \in filled THEN {"overlap"} ELSE {})

CommitGrants(c) ==
  /\ progress[c] \in (IF c = "organization" THEN {"flushed"} ELSE {"told", "untold"})
  /\ progress' = [progress EXCEPT ![c] = "committed"]
  /\ why' = why \union (IF entry.there THEN Leaves(c) ELSE {})
  /\ load' = [l \in Fillers |-> IF load[l].at > 0 THEN [load[l] EXCEPT !.crossed = TRUE] ELSE load[l]]
  /\ filled' = filled \ {c}
  /\ UNCHANGED <<clock, epoch, entry>>

RollBackGrants(c) ==
  /\ progress[c] \in {"flushed", "told", "untold"}
  /\ progress' = [progress EXCEPT ![c] = "none"]
  /\ filled' = filled \ {c}
  /\ UNCHANGED <<clock, epoch, entry, load, why>>

-----------------------------------------------------------------------------
(* load_grants(), when the key is not there, is of another epoch, or Redis does
   not answer.                                                               *)

\* The windows of the grants are looked at as of now.
BeginLoad(l) ==
  /\ load[l].at = 0
  /\ load' = [load EXCEPT ![l] = [NoLoad EXCEPT !.at = 1, !.now = clock,
                                                  !.view.timed = clock < GrantEnd]]
  /\ UNCHANGED <<clock, progress, epoch, entry, filled, why>>

\* Of the changes, what a query of table i shows now.
ShownBy(i) == {c \in {Tables[i]} : progress[c] = "committed"}

\* load_from_db(): the next table.
ReadTable(l) ==
  LET i == load[l].at IN
  /\ i \in DOMAIN Tables
  /\ load' = [load EXCEPT ![l].at = i + 1, ![l].view.shows = @ \union ShownBy(i)]
  /\ UNCHANGED <<clock, progress, epoch, entry, filled, why>>

ReadEpoch(l) ==
  /\ load[l].at = 4
  /\ load' = [load EXCEPT ![l].at = 5, ![l].epoch = epoch]
  /\ UNCHANGED <<clock, progress, epoch, entry, filled, why>>

\* Mutants: the time to live is not cut short; it is in milliseconds.
WholeTtl(now) == Ttl
Milliseconds(now) == 1000 * Ttl

\* _ttl_seconds()
TtlSeconds(now) == IF GrantEnd > now /\ GrantEnd - now < Ttl THEN GrantEnd - now ELSE Ttl

Fill(l) ==
  /\ load[l].at = 5
  /\ entry' = [there |-> TRUE, epoch |-> load[l].epoch, view |-> load[l].view,
               until |-> clock + TtlSeconds(load[l].now)]
  /\ why' = (IF load[l].crossed THEN {"overlap"} ELSE {}) \union (IF clock > load[l].now THEN {"slow"} ELSE {})
  /\ filled' = {c \in Changes : progress[c] \in {"flushed", "told"}}
  /\ load' = [load EXCEPT ![l] = NoLoad]
  /\ UNCHANGED <<clock, progress, epoch>>

\* Redis fails, or the request does.
FillFails(l) ==
  /\ load[l].at > 0
  /\ load' = [load EXCEPT ![l] = NoLoad]
  /\ UNCHANGED <<clock, progress, epoch, entry, filled, why>>

\* A second passes, and the key may lapse.
Tick ==
  /\ clock < MaxClock
  /\ clock' = clock + 1
  /\ IF entry.until <= clock'
       THEN entry' = NoEntry /\ why' = {} /\ filled' = {}
       ELSE UNCHANGED <<entry, why, filled>>
  /\ UNCHANGED <<progress, epoch, load>>

GrantCacheNext ==
  \/ Forget \/ Bump \/ Tick
  \/ \E c \in Changes : MakeChange(c) \/ TellFails(c) \/ CommitGrants(c) \/ RollBackGrants(c)
  \/ \E l \in Fillers : BeginLoad(l) \/ ReadTable(l) \/ ReadEpoch(l) \/ Fill(l) \/ FillFails(l)

GrantCacheSpec == GrantCacheInit /\ [][GrantCacheNext]_grantVars

-----------------------------------------------------------------------------
(* Properties. *)

(* engine.py: a grant is not honoured from the cache after it ended, and a change
   that was told is seen by the next request - unless a load overlapped the
   change or lasted into another second, Redis did not answer, or an
   organization moved (docs/rbac-module.md, "Bumped on: ... organization
   move/archive", which no code does).                                      *)
OldOnlyByCause == (Hit /\ why = {}) => entry.view = Truth
=============================================================================
