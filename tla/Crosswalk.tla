------------------------------ MODULE Crosswalk ------------------------------
(***************************************************************************)
(* One Zoho record and what the sync keeps of it: the crosswalk row        *)
(* (sync.sync_records: identity, fence, tombstone) and the rows of the     *)
(* entity table.  Several lanes apply payloads of the record at once (the  *)
(* scheduled scan, a manual run, a queued detail fetch), a reconciliation  *)
(* tombstones it when a complete scan did not list it, and users delete    *)
(* entities through the API.  A lane's page transaction is cut where       *)
(* another transaction can come in between: after the page was fetched,    *)
(* after the gate state was read, and after the entity was loaded.  From   *)
(* the guarded upsert on the lane holds the lock of the crosswalk row, so  *)
(* upsert, entity flush, link and commit are one step.                     *)
(*                                                                         *)
(* A payload is known by the version of the record it shows (modified) and *)
(* by its class (rank: 1 a list row, 2 a detail document).  The columns a  *)
(* list row feeds are stored as the version that last changed them, so no  *)
(* edit gives them back an earlier value.                                  *)
(***************************************************************************)
EXTENDS Naturals, FiniteSets

CONSTANTS
  Lanes,        \* the transactions that may apply the record concurrently
  MaxTime,      \* bound: the last version of the record in Zoho
  MaxEntities   \* bound: rows of the entity table the record may lead to

ASSUME CrosswalkAssumption ==
  /\ Lanes # {} /\ IsFiniteSet(Lanes)
  /\ MaxTime \in Nat \ {0}
  /\ MaxEntities \in Nat \ {0}

VARIABLES
  contract,   \* the module's contract: a unique zoho_id echo to match on, deletions confirmed by detail
  now,        \* the clock: Zoho's edits move it
  remote,     \* the record in Zoho
  xref,       \* the crosswalk row: an empty set, or the one row
  entities,   \* the rows of the entity table made for this record, by id
  lane,       \* what each lane is doing
  purge       \* what the reconciliation is doing

vars == <<contract, now, remote, xref, entities, lane, purge>>

-----------------------------------------------------------------------------
Never == 0
Times == 1..MaxTime
Ranks == {1, 2}
EntityIds == 1..MaxEntities
NoEntity == 0

Payloads == [modified: Times, fields: Times, rank: Ranks]

\* Columns of the crosswalk row the gate looks at.  rawOf, rawRank: version and
\* class of the stored raw document; fields: the list columns last applied.
Rows == [entity: EntityIds, modified: Times, fields: Times,
         rawOf: Times, rawRank: Ranks, tombstone: {Never} \cup Times]

\* An entity row; deletedBy tells, for the properties, who set deleted_at.
EntityRows == [fields: Times, deletedBy: {"nobody", "user", "sync"}]

Idle == [at |-> "idle"]

LaneStates ==
  {Idle}
  \cup [at: {"fetched"}, payload: Payloads, attempt: 0..2]
  \cup [at: {"decided"}, payload: Payloads, attempt: 0..2, saw: SUBSET Rows]
  \cup [at: {"resolved"}, payload: Payloads, attempt: 0..2, saw: SUBSET Rows,
        entity: {NoEntity} \cup EntityIds, loaded: SUBSET EntityRows, current: BOOLEAN]

PurgeStates ==
  {Idle}
  \cup [at: {"missing", "confirmed"}]
  \cup [at: {"loaded"}, time: Times, entity: EntityIds, row: EntityRows, current: BOOLEAN]

TypeOK ==
  /\ contract \in [echo: BOOLEAN, confirm: BOOLEAN]
  /\ now \in Times
  /\ remote \in [exists: BOOLEAN, modified: Times, fields: Times]
  /\ xref \in SUBSET Rows /\ Cardinality(xref) =< 1
  /\ \E k \in 0..MaxEntities : entities \in [1..k -> EntityRows]
  /\ lane \in [Lanes -> LaneStates]
  /\ purge \in PurgeStates

Init ==
  /\ contract \in [echo: BOOLEAN, confirm: BOOLEAN]
  /\ now = 1
  /\ remote = [exists |-> TRUE, modified |-> 1, fields |-> 1]
  /\ xref = {}
  /\ entities = <<>>
  /\ lane = [l \in Lanes |-> Idle]
  /\ purge = Idle

Known == DOMAIN entities
IsLive(e) == entities[e].deletedBy = "nobody"

\* Writing entity e moves its row_version: the copies others have loaded are no longer current.
LaneAfterWrite(m, e) ==
  IF lane[m].at = "resolved" /\ lane[m].entity = e THEN [lane[m] EXCEPT !.current = FALSE] ELSE lane[m]
PurgeAfterWrite(e) ==
  IF purge.at = "loaded" /\ purge.entity = e THEN [purge EXCEPT !.current = FALSE] ELSE purge

-----------------------------------------------------------------------------
(* Zoho and the users.                                                     *)

\* A user edits the record in Zoho: the columns a list row shows, or only others.
RemoteEdit ==
  /\ remote.exists /\ now < MaxTime
  /\ now' = now + 1
  /\ \E fields \in {remote.fields, now + 1} :
       remote' = [remote EXCEPT !.modified = now + 1, !.fields = fields]
  /\ UNCHANGED <<contract, xref, entities, lane, purge>>

\* A user deletes the record in Zoho; Zoho never lists its id again.
RemoteDelete ==
  /\ remote.exists
  /\ remote' = [remote EXCEPT !.exists = FALSE]
  /\ UNCHANGED <<contract, now, xref, entities, lane, purge>>

\* A user deletes the entity through the API: a flush of the row, so row_version moves.
UserDelete(e) ==
  /\ IsLive(e)
  /\ entities' = [entities EXCEPT ![e].deletedBy = "user"]
  /\ lane' = [m \in Lanes |-> LaneAfterWrite(m, e)]
  /\ purge' = PurgeAfterWrite(e)
  /\ UNCHANGED <<contract, now, remote, xref>>

-----------------------------------------------------------------------------
(* The apply gate.                                                         *)

\* The decision table for a payload p against the gate state saw.
Decide(saw, p) ==
  IF saw = {} THEN [writes |-> TRUE, raw |-> TRUE, revive |-> FALSE]
  ELSE LET row == CHOOSE r \in saw : TRUE
           fenced == row.tombstone # Never /\ p.modified =< row.tombstone
           revived == row.tombstone # Never /\ p.modified > row.tombstone
           older == p.modified < row.modified
           sameVersion == p.modified = row.modified
           sameHash == row.rawOf = p.modified /\ row.rawRank = p.rank
           thinner == p.rank < row.rawRank
       IN [writes |-> \/ revived
                      \/ (~fenced /\ ~older /\ ~(sameVersion /\ (sameHash \/ thinner))),
           raw |-> revived \/ ~thinner,
           revive |-> revived]

\* A page or a detail document arrives.
Fetch(l) ==
  /\ lane[l] = Idle
  /\ remote.exists
  /\ \E rank \in Ranks :
       lane' = [lane EXCEPT ![l] =
                 [at |-> "fetched", attempt |-> 0,
                  payload |-> [modified |-> remote.modified, fields |-> remote.fields, rank |-> rank]]]
  /\ UNCHANGED <<contract, now, remote, xref, entities, purge>>

\* The gate state is read (for a whole page at once) and the gate decides.
ReadGate(l) ==
  /\ lane[l].at = "fetched"
  /\ lane' = [lane EXCEPT ![l] =
               IF Decide(xref, @.payload).writes
               THEN [at |-> "decided", payload |-> @.payload, attempt |-> @.attempt, saw |-> xref]
               ELSE Idle]
  /\ UNCHANGED <<contract, now, remote, xref, entities, purge>>

\* The rows a payload may belong to: the linked one, else one that carries the echo.
Candidates(saw) ==
  IF saw # {} THEN {r.entity : r \in saw}
  ELSE IF contract.echo THEN Known ELSE {}

\* The entity is loaded, deleted or not, with its row_version.
Resolve(l) ==
  /\ lane[l].at = "decided"
  /\ LET found == Candidates(lane[l].saw)
     IN \E e \in IF found = {} THEN {NoEntity} ELSE found :
          lane' = [lane EXCEPT ![l] =
            [at |-> "resolved", payload |-> @.payload, attempt |-> @.attempt, saw |-> @.saw,
             entity |-> e, loaded |-> IF e = NoEntity THEN {} ELSE {entities[e]}, current |-> TRUE]]
  /\ UNCHANGED <<contract, now, remote, xref, entities, purge>>

-----------------------------------------------------------------------------
(* The write: the guarded upsert of the crosswalk row, then the entity.    *)

Ready(l) == lane[l].at = "resolved"
Gate(l) == Decide(lane[l].saw, lane[l].payload)

\* Mutant: the upsert has no guard.
GuardDropped(l) == TRUE

\* ON CONFLICT ... WHERE: the row only moves forward in the source's time.
GuardPasses(l) == \A r \in xref : lane[l].payload.modified >= r.modified

\* The ORM emits an UPDATE only when a column of the loaded object changes: a list
\* column, deleted_at on a revival, or a column only the detail document feeds.
MayFlush(l) ==
  \E row \in lane[l].loaded :
    \/ row.fields # lane[l].payload.fields
    \/ Gate(l).revive /\ row.deletedBy # "nobody"
    \/ lane[l].payload.rank = 2
MayStayClean(l) ==
  \E row \in lane[l].loaded :
    /\ row.fields = lane[l].payload.fields
    /\ ~(Gate(l).revive /\ row.deletedBy # "nobody")

\* ... WHERE row_version = :seen matches no row any more: StaleDataError.
StaleEntity(l) == lane[l].entity # NoEntity /\ ~lane[l].current

\* The unique index on the echo covers the live rows only: it stops an INSERT, and a
\* revival, beside another live row.
EchoTaken(l) ==
  /\ contract.echo
  /\ lane[l].entity = NoEntity \/ Gate(l).revive
  /\ \E e \in Known \ {lane[l].entity} : IsLive(e)

\* The crosswalk row after the upsert, linked to entity e.
Upserted(l, e) ==
  LET p == lane[l].payload
      d == Gate(l)
  IN IF xref = {}
     THEN {[entity |-> e, modified |-> p.modified, fields |-> p.fields,
            rawOf |-> p.modified, rawRank |-> p.rank, tombstone |-> Never]}
     ELSE {[entity |-> e, modified |-> p.modified, fields |-> p.fields,
            rawOf |-> IF d.raw THEN p.modified ELSE r.rawOf,
            rawRank |-> IF d.raw THEN p.rank ELSE r.rawRank,
            tombstone |-> IF d.revive THEN Never ELSE r.tombstone] : r \in xref}

\* Mutant: the entity is written before the upsert tells the lane that it lost.
EntityFirst(l) ==
  /\ Ready(l) /\ ~GuardPasses(l) /\ ~StaleEntity(l) /\ lane[l].entity # NoEntity
  /\ entities' = [entities EXCEPT ![lane[l].entity].fields = lane[l].payload.fields]
  /\ lane' = [lane EXCEPT ![l] = Idle]
  /\ UNCHANGED <<contract, now, remote, xref, purge>>

\* The upsert matched no row: a newer payload was applied since the gate state was read.
LoseRace(l) ==
  /\ Ready(l) /\ ~GuardPasses(l)
  /\ lane' = [lane EXCEPT ![l] = Idle]
  /\ UNCHANGED <<contract, now, remote, xref, entities, purge>>

\* The record is new here: its entity is inserted, and linked after the flush.
InsertEntity(l) ==
  /\ Ready(l) /\ GuardPasses(l)
  /\ lane[l].entity = NoEntity /\ ~EchoTaken(l)
  /\ Cardinality(Known) < MaxEntities
  /\ LET e == Cardinality(Known) + 1
     IN /\ entities' = [i \in Known \cup {e} |->
                          IF i = e THEN [fields |-> lane[l].payload.fields, deletedBy |-> "nobody"]
                          ELSE entities[i]]
        /\ xref' = Upserted(l, e)
  /\ lane' = [lane EXCEPT ![l] = Idle]
  /\ UNCHANGED <<contract, now, remote, purge>>

\* The entity changes: its row is flushed under its row_version.
UpdateEntity(l) ==
  /\ Ready(l) /\ GuardPasses(l) /\ MayFlush(l)
  /\ ~StaleEntity(l) /\ ~EchoTaken(l)
  /\ entities' = [entities EXCEPT ![lane[l].entity] =
                    [fields |-> lane[l].payload.fields,
                     deletedBy |-> IF Gate(l).revive THEN "nobody" ELSE @.deletedBy]]
  /\ xref' = Upserted(l, lane[l].entity)
  /\ lane' = [m \in Lanes |-> IF m = l THEN Idle ELSE LaneAfterWrite(m, lane[l].entity)]
  /\ purge' = PurgeAfterWrite(lane[l].entity)
  /\ UNCHANGED <<contract, now, remote>>

\* No column of the loaded entity changes: only the crosswalk row is written.
KeepEntity(l) ==
  /\ Ready(l) /\ GuardPasses(l) /\ MayStayClean(l)
  /\ xref' = Upserted(l, lane[l].entity)
  /\ lane' = [lane EXCEPT ![l] = Idle]
  /\ UNCHANGED <<contract, now, remote, entities, purge>>

\* A database error rolls the savepoint back.  A page is applied again record by record;
\* there a unique violation is tried once more, and what still fails is counted.
Rollback(l) ==
  /\ Ready(l) /\ GuardPasses(l)
  /\ \/ lane[l].entity = NoEntity /\ EchoTaken(l)
     \/ MayFlush(l) /\ (StaleEntity(l) \/ EchoTaken(l))
  /\ lane' = [lane EXCEPT ![l] =
               IF @.attempt = 0 \/ (@.attempt = 1 /\ EchoTaken(l))
               THEN [at |-> "fetched", payload |-> @.payload, attempt |-> @.attempt + 1]
               ELSE Idle]
  /\ UNCHANGED <<contract, now, remote, xref, entities, purge>>

\* The lane's transaction ends without a commit: a Zoho error, a dead worker, a lost database.
Abandon(l) ==
  /\ lane[l] # Idle
  /\ lane' = [lane EXCEPT ![l] = Idle]
  /\ UNCHANGED <<contract, now, remote, xref, entities, purge>>

-----------------------------------------------------------------------------
(* Reconciliation after a complete scan.                                   *)

\* A complete scan did not list a record held live: it is gone, or it slipped between two pages.
ScanMisses ==
  /\ purge = Idle
  /\ \E r \in xref : r.tombstone = Never
  /\ purge' = [at |-> "missing"]
  /\ UNCHANGED <<contract, now, remote, xref, entities, lane>>

\* Mutant: the listing is taken for evidence.
ProvenByListing == TRUE

\* What Zoho's answer to the detail call proves; without the call, the listing is the evidence.
Proven == contract.confirm => ~remote.exists

\* A record Zoho still returns is applied instead, as a lane would.
ConfirmMissing ==
  /\ purge.at = "missing"
  /\ purge' = IF Proven THEN [at |-> "confirmed"] ELSE Idle
  /\ UNCHANGED <<contract, now, remote, xref, entities, lane>>

\* The crosswalk row and its entity are loaded.
LoadMissing ==
  /\ purge.at = "confirmed"
  /\ \E r \in xref :
       purge' = [at |-> "loaded", time |-> now, entity |-> r.entity,
                 row |-> entities[r.entity], current |-> TRUE]
  /\ UNCHANGED <<contract, now, remote, xref, entities, lane>>

\* Both sides are tombstoned in one transaction: deleted_at, unless it is set already, and
\* the fence.
Tombstone ==
  /\ purge.at = "loaded"
  /\ LET e == purge.entity
     IN \/ /\ purge.row.deletedBy = "nobody" /\ purge.current
           /\ entities' = [entities EXCEPT ![e].deletedBy = "sync"]
           /\ lane' = [m \in Lanes |-> LaneAfterWrite(m, e)]
        \/ /\ purge.row.deletedBy # "nobody"
           /\ UNCHANGED <<entities, lane>>
  /\ xref' = {[r EXCEPT !.tombstone = IF @ = Never THEN purge.time ELSE @] : r \in xref}
  /\ purge' = Idle
  /\ UNCHANGED <<contract, now, remote>>

\* The reconciliation fails: its entity was written since it was loaded, or its worker died.
PurgeFails ==
  /\ purge # Idle
  /\ purge' = Idle
  /\ UNCHANGED <<contract, now, remote, xref, entities, lane>>

-----------------------------------------------------------------------------
Apply(l) ==
  \/ Fetch(l) \/ ReadGate(l) \/ Resolve(l) \/ LoseRace(l) \/ InsertEntity(l)
  \/ UpdateEntity(l) \/ KeepEntity(l) \/ Rollback(l) \/ Abandon(l)

Reconcile == ScanMisses \/ ConfirmMissing \/ LoadMissing \/ Tombstone \/ PurgeFails

Next ==
  \/ RemoteEdit \/ RemoteDelete
  \/ \E e \in Known : UserDelete(e)
  \/ \E l \in Lanes : Apply(l)
  \/ Reconcile

Spec == Init /\ [][Next]_vars

-----------------------------------------------------------------------------
\* What a lane or a reconciliation has written is not undone by one that read before it: the
\* crosswalk row is never lost and never moves back in the source's time (crosswalk.py, "only
\* move forward in SOURCE time"), and where deletions are confirmed no payload gives back an
\* entity a user deleted (apply.py: "a user's delete is not the sync's to undo").
NothingIsUndone ==
  [][/\ \A r \in xref : \E s \in xref' : s.modified >= r.modified
     /\ contract.confirm =>
          \A e \in Known : entities[e].deletedBy = "user" => entities'[e].deletedBy = "user"]_vars

\* Lanes decide on what they have read; the rows are as if each had read and written at
\* once (RecordMirror), but for the raw document (engine.py, _apply_crosswalk).
Mirror == INSTANCE RecordMirror WITH
  xref <- {[entity |-> r.entity, modified |-> r.modified, fields |-> r.fields,
            tombstone |-> r.tombstone] : r \in xref}
MirrorsTheRecord == Mirror!Spec

\* The linked entity shows the very version the crosswalk says was applied: no lane writes
\* one and leaves the other behind (engine.py, _apply_crosswalk: "Order matters").  And in
\* a module whose entity echoes the Zoho id no other entity of the record is live, however
\* many lanes found it new (engine.py, _apply_one_by_one).
EntityFollowsCrosswalk ==
  /\ \A r \in xref : entities[r.entity].fields = r.fields
  /\ contract.echo => \A e, f \in Known : IsLive(e) /\ IsLive(f) => e = f

\* One live entity in every module: what docs/zoho-sync-implementation/adapters/taxes.md promises
\* of tax.tax_components, which has no echo ("one row per tax or tax group").
OneRowPerRecord == \A e, f \in Known : IsLive(e) /\ IsLive(f) => e = f

\* Where deletions are confirmed by a detail call, only what Zoho no longer has is
\* tombstoned (engine.py, _confirm_missing), and a tombstone is on both sides: the fence
\* on the crosswalk row, deleted_at on its entity (_tombstone_crosswalk: "written together
\* or not at all") - until a lane that found no row to match has inserted a second entity
\* and linked the crosswalk row to it.
TombstonesAreRight ==
  contract.confirm => \A r \in xref : r.tombstone # Never =>
    /\ ~remote.exists
    /\ Cardinality(Known) = 1 => ~IsLive(r.entity)
=============================================================================
