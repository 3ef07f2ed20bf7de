# TLA+ models of the THPL middleware

These modules model the core of the THPL core platform
(`src/apps/core-platform/backend/app`): the engine that synchronises Zoho Books
with the platform's own tables, and the requests and background jobs of the platform around it
(sign-in, access control, organizations and their trees, e-mail, images, the field worker's day). The engine is where the program is most concurrent,
distributed and allowed to fail: API processes and Celery workers share Redis
and PostgreSQL, every call costs a unit of a contracted daily quota, and the far
side edits, deletes, throttles and revokes when it likes.

* TLC checks every module on small instances (`MC*.cfg`, and the `.cfg` files
  named after the disagreements they show).
* TLAPS proves theorems for every value of the constants (`*Proofs.tla`).
* `PROJECT.json` lists components, runs, mutants, the map from definitions to
  source lines, findings, hazards and theorems.

Paths below are relative to `src/apps/core-platform/backend/app`;
`zoho/` stands for `modules/zoho/`.

| module | models | checked by | proofs |
| --- | --- | --- | --- |
| `QuotaLedger` | what the governor promises, abstractly | refined by `Governor` | `QuotaLedgerProofs` |
| `Governor` | `zoho/core/governor.py`, `pacing.py`, two Lua scripts, the slot in `transport.py` | `MCGovernor`, `MCGovernorDay`, `Midnight` | `GovernorProofs` |
| `Breaker` | `zoho/core/breaker.py` and its calls in `transport.py` | `MCBreaker`, `BreakerRace` | `BreakerProofs` |
| `TokenManager` | `zoho/core/auth.py`, `zoho/auth/service.py`, the 401 branch of `transport.py` | `MCTokenManager`, `StalePause` | `TokenManagerProofs` |
| `RecordMirror` | what the sync promises of one Zoho record, abstractly | refined by `Crosswalk` | `CrosswalkProofs` |
| `Crosswalk` | the apply gate, the crosswalk upsert, reconciliation and tombstones (`zoho/sync/engine.py`, `apply.py`, `modules/sync/crosswalk.py`) | `MCRecords`, `OneRow` | `CrosswalkProofs` |
| `ScanLog` | what leases and cursor promise of a lane, abstractly | refined by `LeasedRun` | `WorkersProofs` |
| `LeasedRun` | `zoho/control/runs.py`, `tasks/zoho_sync.py`, the page loop of `zoho/sync/engine.py` | `MCWorkers`, `Zombie` | `WorkersProofs` |
| `Planner` | `zoho/control/planner.py`, the queue and the run rows it reads | `MCWorkers` | `WorkersProofs` |
| `Outbox` | `modules/emails/service.py`, `tasks/emails.py` | `MCWorkers` | `WorkersProofs` |
| `FieldDay` | `modules/fieldops/service/shifts.py`, `visits.py`, the mock-fix rule of `ingest.py`, the closing sweep of `tasks/fieldops.py` | `MCRequests` | `RequestsProofs` |
| `SessionBook` | what the requests over a user's sessions promise, abstractly | refined by `SignIn` | `RequestsProofs` |
| `SignIn` | `modules/users/sessions.py` and the sign-in, password and sign-out requests over it | `MCRequests` | `RequestsProofs` |
| `OrgTree` | the trees of `modules/teams/service.py`, `common/tree.py` | `MCRequests` | `RequestsProofs` |
| `Switches` | `zoho/control/switches.py`, `zoho/admin/service.py`, `modules/system/service.py` | `MCRequests` | `RequestsProofs` |
| `MediaItems` | `modules/media/service.py`, `repository_worker.py`, `tasks/media.py` | `MCRequests` | `RequestsProofs` |
| `Owners` | the last-owner guardrail of `modules/rbac/service.py` and the requests of `rbac`, `users/service.py`, `users/moderation.py` that it guards | `MCRecords` | `TenancyProofs` |
| `GrantCache` | the cached grants of `modules/rbac/engine.py` | `MCRecords` | `TenancyProofs` |
| `OrgMoves` | `modules/organizations/service.py` | `MCRecords` | `TenancyProofs` |

`MCWorkers`, `MCRequests` and `MCRecords` put components that share no row and no key into one run: a variable
`part` chooses one of them at the start, and only its actions are enabled afterwards. The state space is the
*sum* of the parts', not their product, and each part is explored exactly as it would be alone.

## 1. The system

### How the parts interact

    Celery beat ── planner tick ──> sync_module_run (queue)          operator, API
                                        │                                  │
                          lease row + cursor (PostgreSQL)                  │
                                        │  page by page                    │
                                        v                                  v
      list page ──> gate ──> entity write ──> crosswalk upsert      push, refresh, connect
          │                                                                │
          └────────────── ZohoTransport.request() <────────────────────────┘
                switches ─> breaker.allow ─> governor.slot ─> token ─> HTTP
                              breaker.record_* <── outcome <── Zoho

1. `request()` (`zoho/core/transport.py`) asks, in this order, whether the
   engine is switched on, whether the circuit of the endpoint group admits the
   call, whether the quota day, the slot limit and the minute bucket admit it,
   and for an access token. Afterwards it settles the quota, tells the breaker
   the outcome, and on a 401 drops the token and tries once more.
2. The planner (a Celery beat task every minute) reaps dead runs and enqueues
   the lanes (module × lane) that are due.
3. A worker leases the lane by inserting its run row, takes over the cursor and
   works pages until the scan ends, its time slice ends, or it is fenced.
4. Each page is one transaction: gate, entity writes, crosswalk upserts and the
   cursor commit together. A complete scan is followed by a reconciliation that
   tombstones what the scan did not list.

### Components: state, operations, correctness

**Call governor.** State: per day the Redis hash `used`, `reserved`,
`used_background`, `exhausted`; the sorted set of leases in flight; the minute
bucket. Operations: `slot()` (admit, wait, give up), `mark_sent`, release,
`mark_quota_exhausted`, pacing and day change. Hard: two scripts that redis-py
may run twice, leases that outlive their TTL, releases that are lost, a change of
day in the middle of a call. Correct when no day sends more than the contract,
the interactive reserve stays interactive, the counters are exact, and every
imprecision is paid for by a fault.

**Circuit breaker** (one per endpoint group). State: the keys `state`, `meta`,
`window`, `probe`. Operations: `allow`, `record_success`, `record_failure`,
`reset`; all Redis failures fail open. Hard: every method is several Redis
commands, and any other caller may come in between. Correct when throttling
never opens it, only a fresh probe decides, and it closes again once Zoho is well.

**Token manager.** State: the cached access token, the refresh lock, the refresh
counter, `auth_paused` (Redis); the refresh token (PostgreSQL) and a copy of it, and of the last
access token cached, in every process. Operations: `get_token`, `_refresh`, `invalidate`, connect,
disconnect. Hard: locks that lapse during the refresh, late 401 answers, an
operator who reconnects meanwhile, Redis failing at any command. Correct when at most one refresh runs under
the lock, nobody who could look refreshes past a good token, and a late answer undoes nobody
else's work.

**Run leases and cursors.** State: run rows with a status and a lease, one
partial unique index on RUNNING rows, one cursor row per lane with an owner, a
page and a scan id. Operations: acquire (with abandonment of an expired
holder), load, claim, page commit, heartbeat, finish, reap. Hard: a worker that
stalls past its lease and wakes up next to its successor. Correct when a resumed
scan skips no page, a fenced run stops and rewrites nothing, and no dead holder
keeps the lane.

**List pipeline and crosswalk.** State: one crosswalk row per record (identity,
fence on Zoho's modification time, raw document, tombstone) and the entity rows.
Operations: gate, resolve, guarded upsert, entity insert/update/keep, conflict
retry, confirm and tombstone; user deletion through the API. Hard: gate
decisions taken on state read for a whole page, written long after; two
transactions per tombstone. Correct when the stored version never goes back,
the entity says what the crosswalk says, and only what is gone is tombstoned.

**Planner** (`zoho/control/planner.py`). State: none of its own; it reads lanes, due times, the run
rows of the last days, caps, the governor's state, and enqueues Celery messages. Hard: a queue between
decision and execution, scans that yield and are continued, runs that die. Correct when every due slot,
interval and request is answered by a run that ends.

**Switches** (`zoho/control/switches.py`). State: rows of `system_settings`, and one Redis hash that
mirrors all of them and has no expiry. Operations: set, pause and resume a module, snapshot, rebuild. Hard: every
change rewrites the whole mirror, before its own commit, and writes only what differs from a row it has read without a lock. Correct when between two changes the mirror says what
the rows say.

**Field operations** (`modules/fieldops`). State: rows of shifts, pauses and visits,
each with a `row_version`; three partial unique indexes (one open shift, one open
pause, one visit in progress). Operations: schedule, start, supersede, pause, resume,
end, cancel a shift; plan, start, end, cancel a visit; the sweep every five minutes.
Hard: offline replays and second devices overlap; some requests rest on rows they do not
write, so row versions cannot protect them (write skew). Correct when a pause is open
exactly on a paused shift, the paid minutes know every pause, what is over stays over,
and a visit is in progress only on an active shift - which the code keeps only up to
overlapping requests (hazard `shifts.py:532`).

**Sessions and sign-in** (`modules/users`). State: a row per session, the users row with a `row_version`,
one row of a one-time code, and a Redis key per session in front of its row. Operations: sign in by password or code,
check, refresh, revoke one, all others or all, change and reset the password. Hard: the
sessions of a user are counted without a lock; the key is written before the commit, if Redis answers; a check fills it from an older
read. Correct when the session rule holds, no old secret leaves a session open, and the key of a
revoked session does not say live.

**Organization trees** (`modules/teams`, `common/tree.py`). State: nodes with a parent and nested-set
bounds. Every request recomputes all bounds under an advisory lock, but loads its own rows before it
takes it. Correct when the bounds are a nested set of the tree: each number used once, a row within the
bounds of exactly those above it.

**E-mail** (`modules/emails`). State: a row with a status and a count of attempts, a Celery message with a count of its
own. Hard: the message leaves before the row commits, the provider may take a message whose answer is lost, workers die, messages are
delivered twice. Correct when a message goes out again only for want of an answer, and settles.

**Images** (`modules/media`). State: a row with a status and the variants recorded, the objects in the store, chords
of conversion tasks. Hard: chords that are lost, retried or doubled by the rescue
sweep; deletion while a conversion runs. Correct when the status says what is there, and a purge leaves nothing.

**Access control** (`modules/rbac`). State: the base role of a user, assignments of roles at a scope and for a time,
permission sets of roles; one Redis key per user with the grants it all comes to, and one epoch per tenant. Operations: assign,
revoke, set a base role, ban, deactivate, delete and restore a user, change a role; load the grants. Hard: owners are counted in
rows that are not locked; the cache is told of a change before it commits, and filled from reads that took time.
Correct when an organization always has an owner, and a request's grants are what the tables say.

**Organizations** (`modules/organizations`). State: rows with a parent, a materialized path and a `row_version`. Operations: create, move
(which rewrites the paths of the subtree), archive, reopen, delete. Hard: the new parent and the lack of children are read once and
not locked. Correct when the parents form a tree and each path is the way to the root.

**Everything else** (catalogue, parties, taxes, documents, HR, geo,
configuration, event and metric tables, routes and CLIs) is CRUD with
optimistic locking, pure lookup, or append-only; `PROJECT.json` lists each part
with its sources and why it is not modelled. The exceptions worth a later module are
idempotency keys and the geocoding budget (a smaller relative of the governor).

### Hazards

`PROJECT.json` lists what is hard to test at the line where it bites, and the
properties that would catch it, with a note where a property catches only a part of it or a run is too small. In short: admission and settlement that race or
repeat (governor); steps between two Redis commands (breaker, token manager);
verdicts applied after the state they judged has changed (midnight, cursor claim,
refresh rejection); stale gates and double inserts (crosswalk); dead workers
(leases, probes, refresh lock, deliveries, conversions); keys and mirrors written before a commit
(sessions, switches, grants); rows loaded before the lock that protects them, or never locked (trees, organizations, owners). Of six hazards no
property is claimed, and a note says why: two of these six do happen in the code, and the property of their module names them as its exception.

## 2. The modules and the code

Each module opens with a comment that says what is cut out of the code and where
one step ends. The grain is the same everywhere: one Redis command (or Lua script,
or MULTI pipeline), one database transaction, or one HTTP exchange is one action;
what a process does between two of them touches nothing shared.

### Governor and QuotaLedger

| code | model |
| --- | --- |
| Redis hash of a day | `used`, `reserved`, `usedBg`, `exhausted`, one value per day |
| sorted set of leases, score in the past | `inflight`, `expired` |
| minute bucket | `tokens` |
| `acquire()` and its loop | `Begin`, `Admit`, `Refuse`, `Throttle`, `GiveUp` |
| `governor_acquire.lua`: state, quota, pacing, rate, slots, in this order | `BudgetAllows`, `RateAllows`, `SlotFree` |
| `mark_sent`, leaving the slot, `governor_release.lua` | `MarkSent`, `Abort`/`Respond`, `RunRelease` |
| `mark_quota_exhausted` | `MarkExhausted` |
| pacing curve, day change, refill | `Unlock`, `NextDay`, `Refill` |
| worker death, lost release, lease TTL, lost replies | `Crash`, `LoseRelease`, `Outlive`/`Expire`, `Admit(c, TRUE)` |

`QuotaLedger` knows only which call holds a unit of which day and which calls left.
`Governor` implements it under the mapping `held <- HeldByDay`, `spent <- sent`,
`LimitOf <- CeilingOf`: the first `Admit` of a call is `Reserve`, `MarkSent` is `Spend`, the settlement of an unsent call is `Refund`,
everything else stutters.

A lease id is a fresh uuid4 per attempt, so a call of the model is one admission
attempt; a call that waits and tries again is the same attempt with a new id. `again`,
`counted`, `refunded` and `said45` are history variables: no guard reads them.

### Breaker

One group, four keys (`open`, `trips`/`mortal`, `window`, `probe`); `pc[w]` is the
place of a caller between two commands. `ReadState`, `ReadClosed`, `ReadHalfOpen`,
`TakeProbe`, `Refused`, `AdmitUnread` are `allow()`; `Answer`, `Dropped`, `OwnsProbe`,
`LostProbe`, `Record`, `Trip`, `Open`, `Close`, `OutcomeLost` are the recording of an
outcome; `GiveUp` is a call that is refused after its admission (governor, token) or
whose worker dies. A missing `state` with `trips > 0` is HALF_OPEN, exactly as in the
code: the model has no half-open flag either. Cool-down lengths are abstracted to
"the key lapses"; `trips` saturates at the number from which the code caps them.
`zoho` is the environment: "well" until the first outage, "ill", then "calm",
in which Zoho answers within the probe's TTL, Redis does not fail and workers live.

### TokenManager

`Begin` … `Unlock` follow `get_token` and `_refresh` command by command; `InRefresh`
is what runs under the Redis lock, `lost` the workers whose lock lapsed or could not
be taken. Each step that asks Redis (`Ask`, `Tell`) takes `answered`: every one of these commands may raise a `RedisError`, which
the code catches at that place - `_cached_token` then returns the process's own copy (`memory`) or nothing, the counter lets the refresh
proceed, a pause cannot be read or set. A command that ran although its answer was lost is the answered step, or is in the disjunction (`Count`,
`LockUnavailable`). `blind` is history: the holders whose second look, under the lock, had no answer. `Unauthorized` and `Invalidate` are the 401 branch of `request()`;
`Consent`, `KeepToken`, `StoreCredential`, `LiftPause` are connecting, `RevokeAtZoho`,
`Forget`, `RevokeStored` are disconnecting. Zoho's side is `good` and `alive`: the
tokens it accepts, from which it may drop any at any time.

### LeasedRun

`Acquire`/`TakeOver`/`Skip` are `acquire_run` (with the abandonment of an expired
holder, and the skip when the unique index refuses), `Load` reads the cursor and
decides whether to resume, `Claim` writes its owner, `CommitPage`, `HaltPage`,
`FailPage`, `FencedPage` are the page loop, `Heartbeat`, `FencedHeartbeat` the renewal
after a page, `Finish` the closing transaction, `Reap` the planner's sweep. `Lapse`
lets any lease of a stalled or dead worker run out. `applied` and `late` are history.

`ScanLog` is the promise of the lane: one log of scans, each in one mode, whose pages are applied in order by runs that take over from
one another. Only the run that claimed the lane last writes, it claims it once, and after its row is closed it writes one page at
most; a run succeeds only if it has applied the last page itself. `LeasedRun` implements it (`LaneIsALog`) under `log <- applied`,
`mark <-` the cursor's place, `writer <- cursor.owner`, `barred <- Claimed`, `ready <-` the runs with verdict "succeeded" and their scans.
`CommitPage` is `Apply`, `HaltPage` is `Halt`, `Finish` is `EndRun`, `Reap` and taking over are `Abandon`, an idle worker that
begins is `OpenRow`; reading the cursor is `BeginScan` or a stutter, and a heartbeat or a lapse is nothing.

### Crosswalk

One record. `Fetch`, `ReadGate`, `Resolve` are the three places where a lane's
transaction reads; from the guarded upsert on it holds the row lock, so
`InsertEntity`, `UpdateEntity`, `KeepEntity`, `LoseRace` end the transaction.
`Rollback`/`Abandon` are its failures and their bounded retry.
`ScanMisses`, `ConfirmMissing`, `LoadMissing`, `Tombstone`, `PurgeFails` are the
reconciliation; `RemoteEdit`, `RemoteDelete`, `UserDelete` the outside. `contract` is
chosen once per behaviour: `echo` (an entity column with a unique index that repeats
Zoho's id: parties, accounting, categories, price lists; not taxes) and `confirm`
(a deletion is believed only when the detail endpoint says so).

`RecordMirror` is the promise: the crosswalk row and the entities as if each payload, each tombstone and each delete took effect at
once, on the rows as they are at that moment. It has no lanes, no gate, no read and no retry. `Crosswalk` implements it (`MirrorsTheRecord`) with
`xref` mapped to the row without its raw document: the actions that write - `InsertEntity`, `UpdateEntity`, `KeepEntity`, `Tombstone` -
are its actions, `RemoteEdit`, `RemoteDelete` and `UserDelete` are themselves, what a lane or a reconciliation reads is a stutter. The abstract
steps say what the code gives away where a module does not confirm deletions: a tombstone may be lifted by a version that is not newer
than it, and lifted although the entity stays dead (`Lift`).

### FieldDay

| code | model |
| --- | --- |
| `status` of shifts and visits, `shift_id` | `shift`, `visit`, `ofShift` |
| open rows, all rows of `shift_pauses`; the pause minutes of the shift | `resting`, `pauses`, `counted` |
| `auto_close_at` in the past | any open shift may be due: `Sweep` |
| `row_version` (`database/mixins.py:303`) | `changed[a]`: rows a task has read to write and somebody has written since |
| a request that writes all it read | one action (`Start`, `Resume`, `EndVisit`, ...) |
| a request that rests on rows it does not write | `BeginPause`/`Pause`, `BeginVisit`/`StartVisit`, `BeginPlan`/`Plan`, `BeginCancel`/`Cancel` |
| `close_shift()` and its four callers | `BeginEnd`, `BeginViolation`, `BeginSupersede`, `Sweep`; then `Collect`, `Close` |
| `FOR UPDATE` of the sweep | `Locked` |
| deadlock of `end_visit` with the sweep | `Deadlock` |
| refusal, `StaleDataError`, crash | `Rollback` |

A request of one action is a compare-and-swap on its rows: whatever it read of them still
holds when it commits. `BeginVisit` does not ask for a visit in progress although the code
looks for one: the unique index decides at the insert, and the shift may have been
read before that visit ended. `raced` is history and no guard reads it.

### Planner

`lease`, `since`, `latest`, `started` are what `_run_history()` keeps of a lane's rows: the running one
and whether it started after the last slot, how the last closed one ended, whether a start that counts
came after the last slot. `PlannerTick` is a tick: `Reaping` when there is anything to reap, otherwise `Enqueue`, with
`Due` (schedule or continuation), `Admitting` (enablement, switches, governor state, write
pressure) and `Planned` (freshness first, under the cap). `Ask` is an operator's run, `TakeMessage`, `TakeOverLane`,
`SkipMessage`, `EndRun`, `RunLapses` the Celery task seen from the run row. Of time only the order of slots and starts is left.
`owed` and `forgotten` are history.

### Outbox

`composing`/`email`/`attempts` are the row before and after its commit, `task[d]`/`retries[d]` a delivery of the
message to a worker. `Read`, `Suppress`, `Process`, `LogOnly`, `Accept`, `Refuse`, `Sent`, `Failed`, `Retry`, `Raise` are `send_email`
from one commit to the next; `overtaken` is the set of deliveries whose copy of the row has an old `row_version`. `DeliverAgain` is the broker's visibility timeout,
`Die` a worker's death with `acks_late`, `Webhook` the provider's events.

### SignIn

A request is one transaction: `BeginSignIn`, `BeginPassword`, `BeginLogout`, then `FlushUser`, `List`, `Revoke`, `AfterRevoking`
in the order of its code path (a sign-in by password lists before it updates the user, one by code after), then
`CommitRequest` or `Abort`. `holder` is the row lock on the users row that an uncommitted UPDATE holds,
`outdated` the requests whose copy of it has an old `row_version`. `Revoke` writes the Redis key at once and
the row at the commit, as `revoke()` does; when Redis fails the key stays as it is, `_cache_set` logs it, and the request goes on to the row.
`BeginCheck`/`FinishCheck` are `check()` without a key or an answer; with one it judges and writes nothing.
`Rotate` and `Reuse` are `refresh()`. `opened`, `opens`, `crossed` (keys a check wrote too late) and `unwritten` (live keys `revoke()` could
not write) are history.

`SessionBook` is the promise: the requests take effect one after another, each at once. A session rests on the password the user has at
that moment, or uses up the code there is; it is opened only where the rule leaves room, and a new password ends all sessions but the
one that asked for it. `SignIn` implements it under `sessions <- Resting` (the live rows with the password each rests on) and
`used <- Used` (`OneAfterAnother`): `CommitRequest` is `Open`, `NewPassword` or `SignOut`, sending a code is `SendCode`, everything else
stutters. Two things the code does are part of the abstract steps: a sign-in may end more sessions than it has to, and
"sign out everywhere" ends those the request has found, so a session opened by a sign-in that overlaps it goes on.

### OrgTree

`Loads` takes the copies of the rows a request reads, `Recompute` is the flush of its row, `recompute_bounds()` over what
the session sees (its copies of the rows it has loaded, all others as committed) and the commit.
`Walks` is the depth-first walk of `tree.py`, a recursive function of the rows not entered yet and the siblings at hand, `Walk` the one from the roots; `Layout` the bounds it hands out; a cycle is a `TreeError` and a
`RollBackEdit`. `NestedSet` does not mention the walk: it is what a reader of the bounds relies on. `NoCycle` asks by bounds, as the code does. `fresh` is history: were the copies still true when
the last layout was made.

### Switches

`LoadSetting` (of `CallSet` or `CallPause`), `Flush`, `ReadMirror`, `WriteMirror`/`MirrorUnwritten`, `CommitChange`/`RollBackChange` are one `set()` in its request,
`LoadSettings`/`Rebuild`/`RebuildFails` a `snapshot()` that found no mirror. `set_setting()` reads the row without a lock and assigns to it through the ORM, which
updates only the columns that differ from what was read: `writes` is "value", "name" (`updated_by` alone) or "nothing". Only an UPDATE waits for the row and
holds it (`HasRow`); only "value" changes the settings at the commit. A switch of its own is a set of one member, the list
of paused modules one key whose members are set together. `doubt` is history: one of the five things has happened after which the mirror may be wrong -
a change that met another one or a reader, a roll-back after the mirror was written, a mirror that was not there, one that could not be
written, a setting left alone on a reading that was out of date at the flush (`Stale`).

### MediaItems

`Upload`, `FailUpload`, `DeleteImage`, `Dispatch` are the requests, `StartVariant`, `SkipDeleted`, `Record`, `RecordFailure`,
`TryAgain`, `DieRecorded` a `gen_variant` task, `Finalize` the callback of the chord, `LoseChord` the broker,
`ListStuck`/`Rescue` the sweep that dispatches again what looks stuck, `Purge` the collection of
deleted images. `hasty` and `leaky` are history.

### Owners

A guarded request is `Begin` (it reads its row and counts the owners, `NotLastOwner`), then `Withdraw` (its UPDATE and the commit) or
`RollBack`; `op` is "bar" for a ban, a deactivation or a deletion, "demote" for another base role, "revoke" for the end of
an assignment. `superseded` are the requests whose row has a new `row_version`. `Assign`, `GrantStarts`, `Promote`, `Readmit` make
owners; they read only what they write, so each is one step. `OwnersOf` is who the code counts, `ActingOwners` who can act:
the two differ in grants for a part of the organization or not yet in force. `shifted` and `emptied` are
history: `emptied` names what the request that removed the last owner had against it.

### GrantCache

One user and one change of each of the three kinds that reach him: an assignment (`Forget` drops his key), a role's permissions (`Bump` raises the
epoch), the path of an organization (nothing is told). `MakeChange` … `CommitGrants`/`RollBackGrants` are the request of such a change in
the order of the code: rows, cache, commit. A load is `BeginLoad`, one `ReadTable` per table, `ReadEpoch`, `Fill`, each its own statement
under READ COMMITTED. `Hit` is what the next request takes from the key. The clock counts whole seconds, as the time to live does; a grant
that ends within the current second may be honoured up to a second more, which is finer than the model.
`crossed`, `filled` and `why` are history.

### OrgMoves

`DecideCreate`, `DecideMove`, `DecideArchive`, `DecideDelete` read and decide, `Create`, `Move`, `ChangeStatus` write: the row itself under
its `row_version` (`stale`), and for a move the rows whose path begins with the old one (`Descendants`, soft-deleted ones too: the
filter of `database/soft_delete.py` applies to SELECT only). These locks are kept to the commit, so writing is one step. `torn` is history: a request wrote although
the parent or the lack of children it had read was no longer so.

## 3. The runs

| run | instance | shows |
| --- | --- | --- |
| `governor` | 3 calls, 2 days, 2 faults | `CountersExact`, `LeakBounded`, `WireBound`, `PacingOvershootBounded`: exact counters; every leak, extra call on the wire and overshoot is one in-flight call or one fault |
| `governor_day` | 4 calls of 3 classes, 1 day, 1 fault | `CeilingHolds` and the refinement `LedgerSpec` |
| `workers`, part lane | 2 executions, 2 modes, 3 pages | `ScanIsWhole`, `ZombieStopsAtPage`, `LaneIsFreed` (liveness) and the refinement `LaneIsALog` |
| `workers`, part planner | 3 lanes, 1 slot, 2 marks | `EveryLaneIsServed` (liveness) |
| `workers`, part e-mail | 2 deliveries, 2 attempts, 3 retries, 1 death | `SentAgainOnlyUnanswered`, `EveryMailSettles` (liveness) |
| `records`, part record | 2 lanes, 2 versions, 2 entities, 3 contracts | `EntityFollowsCrosswalk`, `TombstonesAreRight` and the refinement `MirrorsTheRecord` |
| `breaker` | 2 callers, window of 2, 50 %, 2 trips | `ProbesAreFresh`, `NeverTripsOnThrottling`, `Heals` (liveness) |
| `token` | 2 processes, 2 tokens, 1 consent, 1 refresh per window, 1 `RedisError` | `SingleFlight`, `NoSecondRefresh`, `GoodTokenStays` |
| `requests`, part field day | 2 requests and the sweep, 2 shifts of 2 pauses, 1 visit | `PausesAreKept`, `DanglesOnlyByOverlap`, `ClosedIsFinal` |
| `requests`, part sign-in | 2 requests, 2 sessions, rule of 1, 2 passwords | `SessionRuleHolds`, `SeenLiveOnlyByCause` and the refinement `OneAfterAnother` |
| `requests`, part org tree | 2 requests, 3 nodes | `BoundsAreTheTree` |
| `requests`, part switches | 2 operators, 1 reader, 1 flag, 1 module | `MirrorWrongOnlyByCause` |
| `requests`, part images | 1 image, 2 variants, 2 chords | `RowsMatchTheStore` |
| `records`, part owners | 2 requests, 2 users and 1 from elsewhere | `OwnerlessOnlyByCause` |
| `records`, part grants | 1 load, 3 changes, 2 seconds | `OldOnlyByCause` |
| `records`, part organizations | 2 requests, 3 organizations | `PathsAreTheTree` |
| `midnight` | 1 call, 2 days | violation of `StopsOnlyTheRefusedDay` |
| `zombie` | 2 executions, 2 pages | violation of `ProgressNeverGoesBack` |
| `one_row` | as `records`, part record | violation of `OneRowPerRecord` |
| `breaker_race` | as `breaker` | violation of `OnlyFreshProbesClose` |
| `stale_pause` | 2 processes, 2 consents | violation of `PausedMeansRevoked` |

Each component has one type invariant. Every property of a passing run has a
mutant: a plausible bug (a dropped guard, a blind second run, a missing reset) in a
mapped definition under which TLC finds the property violated in the same run.

### Bounds and why they are enough

* Governor: `Daily = 3` with the default fractions 0.4, 0.7, 0.8 gives every state
  of the ladder a count of its own except restricted (`Essential = Hard = 2`); four calls ask for more
  than the day holds, two classes race for its last unit, and interactive calls
  meet the reserve. Two days (in `governor`) are enough for a call that spans midnight; `governor_day` has one, and of `CeilingHolds`
  across midnight, as of `WireBound` under many outlived leases, the theorem speaks. Two
  faults for a lost reply followed by a lost release. The pacing curve starts with
  nothing unlocked in `governor`, so every background call races an `Unlock`.
* LeasedRun: a zombie and its successor are two; three pages let a slice stop in
  the middle with a page before and a page after; two modes make a cursor that must not be resumed.
* Crosswalk: two lanes race each other and the reconciliation; two versions make
  a stale and a fresh payload; a second entity is the duplicate looked for. Of the four
  contracts the one with neither echo nor confirmation is left to `one_row` and to the proofs, which cover every
  contract: under it nothing is promised but that the linked entity follows.
* Breaker: one caller counts a trip while the other reads; the smallest window
  that can be judged is `MinCalls`; two trips show a re-opened group.
* TokenManager: two tokens are an old one and its successor; that a third would be needless shows before it is minted, at the
  place of its refresher. One `RedisError` at any command of any worker or of the operator; the theorems cover any number. A
  second consent is needed only for `stale_pause`, which needs no error.
* FieldDay: two requests overlap each other and the sweep, and a third is always possible
  among the one-action requests; two shifts supersede one another; a shift that is paused, resumed and
  paused again looks unchanged to a request that read it first. One visit suffices for
  every overlap with a stop, because the index admits one in progress at a time; what one visit hides
  is a second one started while the first is being cancelled.

* Planner: one slot in two is enough for every overlap, because the three lanes differ in rank only and `MaxRuns = 1`
  makes any two of them compete; `MaxMarks = 2` lets two of them be owed at once, `MaxQueue = 2` lets a lane be
  enqueued twice. A lane that has been served may be owed again, so the third mark repeats the first two.
* Outbox: two deliveries overlap; `MaxAttempts = 2` distinguishes the last attempt from one before it;
  `MaxRetries = 3` is above it, as in the code, so a row that is missing can use up the difference; one death
  suffices for a delivery that is in doubt next to one that is not.
* SignIn: two requests, two sessions under a rule of one: a sign-in that displaces and one that would exceed; two
  passwords are an old and a new one.
* OrgTree: three nodes are the smallest cycle through a stale parent with a bystander in the layout.
* Switches: two operators, one switch of its own and one module list, a reader that rebuilds; two changes of one key
  serialise on its row, two of different keys do not.
* MediaItems: one image, two variants (one done, one failed) and two chords (the first and the rescue's);
  replacing an image is a deletion of the row and an upload of another, which share nothing but the listing.
* Owners: two requests race for the last owner; of three users one is the founder, one becomes an owner, one is from elsewhere.
* GrantCache: one load, because nothing it reads or writes depends on another: what a second one would find in the key, it
  overwrites. The three kinds of changes overlap one another and the load; a time to live of two seconds, cut to one by a grant
  that ends, and a second more for either to lapse.
* OrgMoves: three organizations are a parent with a child and a place to move it to, or a chain. `UntilTorn` stops after the first
  write on a changed parent, of which `PathsAreTheTree` says nothing; after it paths may grow without end.

Symmetry: feeds of equal rank, lanes, workers, requests and shifts are interchangeable (no constant or
property names one of them), and symmetry is used only where no liveness property is checked.
`CHECK_DEADLOCK FALSE` stands where the system may stop: a governor run ends when
its calls have; an execution of a lane is one Celery task; a record that is gone
and tombstoned leaves nothing to do; a paused, exhausted fleet stops at the bounds; all organizations may have been deleted.

### Fairness

* `LaneFairness` (`LeasedRun`): weak fairness of `Reap` (Celery beat schedules the
  planner tick every minute, `tasks/celery_app.py`) and of `Lapse` (time passes).
  Nothing is assumed of workers: they may stall for ever.
* `PlannerFairness`: weak fairness of the tick, of backoffs, and of the workers of every lane (a message in the broker is
  taken, a run ends or its lease lapses: the slice budget and the heartbeat bound it). `EveryLaneIsServed` speaks of "calm" weather: from
  some moment on nothing refuses or kills a run, as any promise of service must assume. How a lane may be
  forgotten until its next slot - `forgotten` - is part of the property, because the code does forget it (section 5).
* `OutboxFairness`: the composing request ends, and every delivery goes on (Celery runs what it holds; a
  dead worker's message comes back, because of `task_acks_late`). The provider is never obliged to accept.
* `Breaker!LiveSpec`: weak fairness of each caller's next command (a live caller
  goes on) and of the TTLs. `Heals` assumes that Zoho and Redis have become well for
  good, as any promise of recovery must; nobody is obliged to reset the group.
* In `MCWorkers` the fairness of the parts that were not chosen asks for nothing: none of their fair
  actions is enabled in their initial states.
* The other specifications have no fairness, and no liveness is claimed of them. That the sweep
  closes every forgotten shift is left to the plan: it needs a bound on pauses (each may push the cap
  back) and on corrections of a visit in the window between the sweep's look and its commit.

## 4. The proofs

TLAPS checks these theorems for every value of the constants that satisfies the named assumption of the module
(`LedgerAssumption`, `GovernorAssumption`, `OrgTreeAssumption`, `BreakerAssumption`, `TokenManagerAssumption`, `CrosswalkAssumption`,
`LeasedRunAssumption`, `PlannerAssumption`, `OutboxAssumption`, `SwitchesAssumption`, `FieldDayAssumption`, `SignInAssumption`,
`MediaAssumption`, `OwnersAssumption`, `GrantCacheAssumption`, `OrgMovesAssumption`), so for any number of workers,
calls, lanes, versions, pages, tokens, deliveries, requests, shifts, sessions, trees, images, users and organizations. The
assumptions say that sets of names are disjoint, that bounds are numbers, and that what is counted is finite. `MaxDay`,
`MaxFaults`, `MaxTokens`, `MaxErrors`, `MaxTime` and the like stay in the models as arbitrary numbers.

Every safety property of a passing run is a theorem: the invariants, the type invariants of the components and of the composite runs, and all
four refinements. Only liveness is left to TLC. An invariant of a run is rarely inductive; what it needs besides is listed here.

* `QuotaLedgerProofs`: `LedgerSafe`. The invariant adds to the class ceilings that
  a call holds a unit of at most one day.
* `GovernorProofs`: `GovernorTypeOK`, then `GovernorCounters` from `Life`, which says
  how the sets of a call's life (in flight, sent, counted, refunded) stand to one another, and
  `CountersExact`, the cardinalities. `GovernorRefines` maps every step to a ledger
  step: a reservation fits the ledger because the counters are exact, so the number the script
  compares is at least the number of units held. `GovernorCeiling` then comes from
  `LedgerSafe`. `GovernorLeaks`, `GovernorWire` and `GovernorPacing` count strays:
  `StraysBounded` (each reservation without a call in the slot was paid for by a fault) and
  `SlotsBounded` (unexpired leases never exceed the limit).
* `BreakerProofs`: `ProbesAreFresh` is inductive with the types. `NeverTripsOnThrottling` needs `Good`: nobody carries a failure or
  is on the way to opening the group, and every outcome in the window is good; `GoodWindow` is the arithmetic, that such a window is
  never judged against the group. Only an outage makes a good group bad, so the same step lemma proves `HealedForGood`, the part of
  `Heals` that is a safety property: a group that holds nothing bad in the calm never opens again.
* `TokenManagerProofs`: `Holder` (who refreshes and has not lost the lock holds it)
  makes refreshes exclusive; `Issued` (cached, held and remembered tokens were minted; one about to be
  dropped has been refused) is needed for `NoSecondRefresh` and `GoodTokenStays`. `NoSecondRefresh` is about the holders who are not
  `blind`; nothing else has to be excepted of a Redis that fails at any command.
* `CrosswalkProofs`: two orders carry `EntityFollows`, `TombstonesRight` and `NothingUndone`. `InOrder`: of all versions
  that are somewhere - in Zoho, in the crosswalk row, in the hands of a lane - none is newer than Zoho's, and a later
  version shows later list columns; so the one comparison the guarded upsert makes orders the columns too.
  `Fenced`: where deletions are confirmed a tombstone stands behind the last version there will be, also in the copy a lane has read at
  the gate; so no lane revives. `LaneHolds` and `PurgeHolds` say what a lane, and the reconciliation, may
  rely on of an entity that is not locked: columns only grow, so one that has been read may be kept, and a
  copy whose `row_version` still stands is the row. `OneLive` is what the unique index of an echo gives.
* `CrosswalkProofs`, the refinement `CrosswalkMirrors`: the five actions that write must be right at the moment they write, although they decided
  on what was read before. That is what the invariant says; to it `InTime` adds three facts the promises did not need: versions
  count Zoho's time, a reconciliation stamps the version it saw, and a lane makes an entity only if it saw no row. `UpsertMirrors`
  is the common part: the version a lane applies goes forward from what was applied, on the row and on its entity. `NothingUndone`, that no
  step moves a stored version back or gives back an entity a user deleted, is the action property.
* `WorkersProofs`, `LeasedRun`: the inductive invariant adds to `ScanIsWhole` what each worker
  carries privately (`Whole`, `Behind`: the pages behind a worker's own page are committed in
  its scan and mode), because a zombie may write its position into the cursor. `Late` ties the
  number of late pages to the place of the worker, which is why the bound is one.
* `WorkersProofs`, `LeasedRun` implements `ScanLog`: `LaneImplementsLog`. The step invariant adds `ScansApart` (a scan has one mode, whoever
  goes on with it: two workers at one scan agree) and `Decided` (a verdict is for the end of a run). `LanesLogIsWhole` then carries
  what is proved of the log alone - one open row, one mode per scan, pages that are a beginning of the list - over to
  the lane. `ClosedRunsStayClosed`, the action property, says that no worker rewrites a closed row.
* `WorkersProofs`, `Outbox`: one commit moves the row to "processing" and overtakes every copy read before it. So an attempt is
  alone with the row (`Alone`), whoever else may still write has read it as pending (`ReadPending`), and a row
  that may still be sent has brought no answer yet (`Unanswered`).
  `MailStaysInHand` says why an e-mail can settle: one that is not settled has a delivery that may write its row, unless a worker died or a
  task that had the row to itself raised. It needs to know that only a copy in use can be an old one (`CopiesInUse`) and that a delivery waits
  for the row while the composing request is open (`Awaited`).
* `RequestsProofs`, `Switches`: while nothing is in doubt one change at most is under way (`OneChange`), the mirror is exactly as far as that
  change is and a change that does not write its value finds it there (`MirrorFollows`), and a reader no change has crossed holds the settings (`AloneHoldsSettings`).
* `WorkersProofs`, `Planner`: its types (`PlannerTypes`), which say that a lane is forgotten only while it is owed, and that nothing is known of the start of a run that is not there.
  `OwedLanesAreInHand` says why a lane can be served: one that is owed a run and not forgotten runs, has a message, is due, or will be when its
  backoff is over. Only a start that counts after the slot can hide it, and `StartsCount` ties that start to the lane's last row.
* `RequestsProofs`, `FieldDay`: `Known` says what a request, or the sweep, has read of each row it is going to write, and that this
  still holds unless the `row_version` has moved; the commit then finds it so. `Covers` is about the rows it does not
  write: who stops a shift has collected all its visits in progress, except those that raced with it. `PausesKept` needs only the first,
  `DanglesByOverlap` both; `ClosedFinal` is the action property.
* `RequestsProofs`, `SignIn`: the users row is the lock of the sessions, although nobody asks for it as one. Who has
  updated it is alone (`Holds`), and what a request has read of the password, the code and the live sessions is
  still true as long as its copy of the users row is current (`UpToDate`); so `start()`, which counts without
  a lock, counts right whenever it may commit. `Spares` is the counterpart for new passwords. `SeenLive` adds
  `KeysOfEnded`: from `revoke()` on, a key that says live was crossed by a check, or `revoke()` could not write it.
* `RequestsProofs`, `SignIn` implements `SessionBook`: `RequestsAreSerial`. The step that is not a stutter is the commit (`CommitIsBooked`), and what
  it wrote must be right at that moment although it was read before: to `SignInInv` the proof adds
  `Rightful` (who lists sessions has listed only rows that exist; a new password does not end the session that asked for it;
  the code that an up-to-date request rests on is still there). `OldSecrets`, proved from `SignInInv` alone, says the same of every
  state: no live session rests on a password or a code that is gone.
* `RequestsProofs`, `OrgTree`: `BoundsFollow` and `OrgTreeTypes`. That the layout of a walk is a nested set is shown by induction over the
  rows not entered yet and the siblings at hand, with the minimum principle of a well-founded order (`WFMin`), which takes a set and not an
  operator. First the recursive function is what its equation says (`WalkExists`, `WalkUnfolds`); then `Marks` says of a walk where each row
  is entered and left - each of its rows twice, those below a row in between - and `MarksJoined` puts the walks of a row's children and
  of its later siblings together, which share no row (`WalksApart`). `LayoutNests` and `LayoutType` are read off the marks. The walk looks only at
  the live rows and their parents, so what a request lays out over its copies is what it would lay out over the rows, as long as the
  copies are true.
* `RequestsProofs`, `MediaItems`: on a live row that no hasty rescue has touched one chord works at a time, its callback is still to come, and
  what its tasks have returned is what the record says (`WorkSound`, `Truthful`), so `finalize` counts right. `BytesNamed`: what is stored is
  recorded, unless a run was cut off in between, so the purge that deletes what the record names leaves nothing. `RowSound` is
  the life of the row, and keeps tasks away from a purged one.
* `TenancyProofs`, `Owners`: the guard a request has passed holds until somebody who counted too is withdrawn - then it is in
  `shifted` (`GuardsHold`). `AnotherOwner` turns the count into what it is for: who is not the only owner leaves one.
* `TenancyProofs`, `GrantCache`: a load no commit has crossed has seen all that is committed of the tables it has read (`LoadSees`); a change that has told the
  cache, and has not committed, leaves no key behind unless one was filled after it (`ToldLeavesNothing`); so a hit without a
  cause is what the tables say, and lapses before the grants end (`EntryHolds`).
* `TenancyProofs`, `OrgMoves`: what a request has read of its own row holds until the row has a new `row_version` (`Held`), and a row that is
  being created is nobody else's (`Reserved`). That rewriting the paths of a subtree keeps every path the way
  to the root is the lemma about `Rebased` on sequences, applied to each descendant.
* The composite runs: a behaviour of `MCWorkers`, `MCRequests` or `MCRecords` is a behaviour of each of its parts (`WorkersParts` and the lemmas
  like it), so `WorkersTypes`, `RequestsTypes` and `RecordsTypes` follow from the types of the parts, and every other theorem carries over.

Proving found a property that said less than it was meant to: in `PausesAreKept` the clause about the minutes of closed shifts had been
parsed, through its indentation, as part of the clause before it. It is now a conjunct of its own, and holds.

Only model-checked: liveness - `LaneIsFreed`, `EveryLaneIsServed`, `EveryMailSettles`, `Heals` - which, with fairness and ENABLED, is out of
the prover's reach. Of three of them the proofs hold what is a safety property: `OwedLanesAreInHand` and `MailStaysInHand` (there is
always a step that fairness can ask for) and `HealedForGood`. What is proved and not a property of
a run (`NothingUndone`, `ClosedRunsStayClosed`, `LanesLogIsWhole`, `OldSecrets` and these three) is implied by, or
explains, one that is.

## 5. Findings

Each is the run of the name given, with its counterexample.

1. **A refused day stops the next one** (`midnight`, `governor.py:555`). Code 45 received
   before midnight and reported after it marks the new day exhausted.
2. **A zombie can take the cursor back** (`zombie`, `runs.py:255`). `claim_cursor` does
   not ask whether the run still holds its lease. What is lost is bounded: `ScanIsWhole`
   holds all the same, so no page is skipped, but the live run is fenced.
3. **Two rows for one tax** (`one_row`, `engine.py:867`). Without an identity echo, two
   lanes that both find a record new insert it twice.
4. **A stale probe closes a group that is being opened** (`breaker_race`,
   `breaker.py:162`). The token is checked and the keys deleted in two commands, and
   a trip is counted before the state is set.
5. **A late rejection pauses a reconnected fleet** (`stale_pause`, `auth.py:509`).
   The refresh token that was rejected is not compared with the stored one.

The models also show, without a run of their own, where the code stops short of what is written. Each is
named in a property, as the one exception it allows:

* Setting a switch while the mirror is gone writes the defaults of all other switches into it
  (`switches.py:239`; `switches.py:20` says a lost mirror is rebuilt from the database): `doubt` in
  `MirrorWrongOnlyByCause`, which a roll-back after the mirror was written sets too.
* Two operators set one switch to opposite values: the second reads the row before the first commits, finds its value there, and writes
  nothing (`system/service.py:97`: no lock, no `row_version`). The first one's value is in Postgres, the second one's in the mirror: `Stale`
  in `Flush`, and `doubt`.
* A worker that has taken the refresh lock looks again before it refreshes (`auth.py:331`), but when Redis fails at that look it takes the
  error for "no token" and refreshes past the one its predecessor cached (`auth.py:429`): `blind` in `NoSecondRefresh`.
* `revoke()` writes the key so that "the next request must not see 'live'" (`sessions.py:324`), but a failure of Redis is logged and the row is
  revoked all the same (`sessions.py:141`): a key that said live goes on saying it until it expires, with no check in between: `unwritten` in
  `SeenLiveOnlyByCause`.
* A weekly scan whose first slice yielded and whose next one was abandoned or suspended waits for the next
  week (`planner.py:270`; `control-plane.md` says abandoned and suspended runs are tried again): `forgotten` in
  `EveryLaneIsServed`.
* A request loads its own row and the new parent before it holds the tree's lock (`teams/service.py:298`;
  `tree.py:6` calls the recompute under the lock provably correct): `fresh` in `BoundsAreTheTree`.
* A worker that dies with a message in hand leaves it "processing" for good (`tasks/emails.py:105`): `deaths` in
  `EveryMailSettles`.
* Two requests that remove the last two owners of an organization each count both, and no row version collides
  (`rbac/service.py:171`; `rbac/service.py:11` says "never remove the last active owner"): `emptied` "overlap" in
  `OwnerlessOnlyByCause`. An owner from another organization is counted here, but his removal is judged at his home ("outsider"), and
  a grant that covers a part or begins next month counts too ("partial").
* Moves and archivals of organizations bump no epoch (`organizations/service.py:247`; `rbac-module.md` lists them among what does):
  grants cached before cover by the old path until they lapse. `why` "moved" in `OldOnlyByCause`.
* Opposite moves of two organizations make a cycle: each passes the path test on what it read and writes another
  row (`organizations/service.py:234`; `service.py:10` says "no cycles"): `torn` in `PathsAreTheTree`.
* The revocation of a re-used refresh token is rolled back with the request that finds it; only the Redis
  key stays until it expires (`sessions.py`, `Reuse` in `SignIn`).

## 6. What is not modelled

* Governor: the in-process fallback during a Redis outage, the snapshot and the
  reseeding after a loss of Redis (planned), the headers of Zoho.
* Breaker: durations; metrics and events.
* TokenManager: a refresh token that Zoho rotates, the legacy key, a refresh token
  from the environment, the nonce of the consent URL; the copy of the access token in the operator's own process.
* LeasedRun and Planner: which of "stopped" or "succeeded" the row says in detail (the lease and the cursor do
  not tell them apart), the incremental scan of a sorted list, which saves its watermark page by page and goes on from it, at page 1 of a shorter list
  (`engine.py:1051` and `:1110`), the reconciliation after the last page (it is in `Crosswalk`).
* Crosswalk: the in-place mirror path, undated modules, merged and provisional
  links, the mass-delete guard, the detail outbox and the push path; locks inside one
  transaction (an aborted one is `Abandon`).
* FieldDay: location fixes, geofences, anomalies and metrics; the tasks of a visit and joint visits; the
  review axis; soft deletes; which hours a plan allows (a scheduled shift may start or be missed at
  any time); a request replayed with the same uuid returns the row and changes nothing.
* Planner: reseeding of the governor, the health key, the eight days rows are looked back for; other modules but
  as the capacity they take.
* Outbox: attachments, templates, opens and clicks, a webhook that arrives before the provider's id is
  committed (`emails/service.py:246`), resending by an operator.
* SignIn: the tokens themselves, expiry and `last_seen_at`, lock-out and attempt counters, registration, the mirror in
  Authentik.
* OrgTree: the rows of members and roles; categories, whose bounds are written through the ORM and move row versions.
* Switches: the validation of values; the snapshot each process caches for a few seconds, which is any list to `CallPause`; the first time a
  setting is set, when two requests would insert its row and a unique index fails the second.
* MediaItems: rendering, validation, the storage drivers, and collections that keep several images.
* Owners: hard deletion apart from deletion, bans that lapse by themselves, grants with an end (which the code does not count), and
  the owners of other organizations.
* GrantCache: departments and teams, whose changes bump the epoch like a role's; switching the cache off.
* OrgMoves: the types that restrict a place; roots that the Zoho sync inserts, and the reconciliation of the organizations module (off by
  default), which may soft-delete a root that has children (`zoho/sync/engine.py:1516`).
* Everything listed `not_modelled` in `PROJECT.json`. Most of the repository's lines are of this kind: migrations,
  table definitions, request schemas, CRUD services that read a row, check it and write it under its
  `row_version`, field mappings, a front end. They keep no protocol between two actors that a model would
  say more about than the code does; what they share (the row version check, the commit at the end of a request) is in the
  modules that need it.

## 7. Plan

Done: every module of the table in the introduction, eight proof modules.
Next, in this order:

1. Abstract specifications of the same kind as `SessionBook` for the requests of `FieldDay` and `Owners`, which hold only up to the overlaps
   their properties name.
2. `GovernorDurable` (snapshot, loss of Redis, reseed, in-process fallback) as a second implementation of
   `QuotaLedger` with a bounded error.
3. Idempotency keys over the requests of `FieldDay`.
4. The liveness of the closing sweep, under a bound on pauses and corrections.
