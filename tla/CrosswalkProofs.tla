--------------------------- MODULE CrosswalkProofs ---------------------------
(***************************************************************************)
(* Proofs about Crosswalk for every number of lanes, versions of the       *)
(* record and entity rows.  Two orders carry them: what a lane has read is *)
(* never newer than the record in Zoho, and the columns a list row shows   *)
(* only grow with the version that shows them.  So the one comparison the  *)
(* upsert makes, of source times, orders all the rest.                     *)
(***************************************************************************)
EXTENDS Crosswalk, Sequences, FiniteSetTheorems, TLAPS

One(S) == \A r, s \in S : r = s

\* The types, with the row and the entities said without a cardinality.
Typed ==
  /\ contract \in [echo : BOOLEAN, confirm : BOOLEAN]
  /\ now \in Times
  /\ remote \in [exists : BOOLEAN, modified : Times, fields : Times]
  /\ xref \in SUBSET Rows /\ One(xref)
  /\ \E k \in 0..MaxEntities : entities \in [1..k -> EntityRows]
  /\ lane \in [Lanes -> LaneStates]
  /\ purge \in PurgeStates

\* The versions that are somewhere: each with the list columns it shows.
Shown == <<remote.modified, remote.fields>>
Stamp(r) == <<r.modified, r.fields>>
Busy == {l \in Lanes : lane[l].at # "idle"}
Stamps == {Shown} \cup {Stamp(r) : r \in xref} \cup {Stamp(lane[l].payload) : l \in Busy}

\* None is newer than the record, and a later version shows later columns.
InOrder ==
  /\ remote.fields =< remote.modified /\ remote.modified =< now
  /\ \A a \in Stamps : a \in Times \X Times /\ a[1] =< remote.modified
  /\ \A a, b \in Stamps : a[1] =< b[1] => a[2] =< b[2]

\* Where deletions are confirmed, a fence stands behind the last version there is.
Fenced(S) ==
  \A r \in S : contract.confirm /\ r.tombstone # Never => ~remote.exists /\ remote.modified =< r.tombstone

Linked(S) == \A r \in S : r.entity \in Known

\* No entity has columns the crosswalk row does not know of.
Follows ==
  /\ \A r \in xref : entities[r.entity].fields = r.fields
  /\ \A e \in Known : \E r \in xref : entities[e].fields =< r.fields

LaneHolds(l) ==
  /\ lane[l].at \in {"decided", "resolved"} =>
       One(lane[l].saw) /\ Fenced(lane[l].saw) /\ Linked(lane[l].saw)
  /\ lane[l].at = "resolved" =>
       \A row \in lane[l].loaded :
         lane[l].entity \in Known /\ row.fields =< entities[lane[l].entity].fields

PurgeHolds ==
  /\ purge.at \in {"confirmed", "loaded"} /\ contract.confirm => ~remote.exists
  /\ purge.at = "loaded" =>
       /\ purge.entity \in Known
       /\ contract.confirm => remote.modified =< purge.time
       /\ purge.current => purge.row = entities[purge.entity]
       /\ contract.confirm /\ purge.row.deletedBy # "nobody" => ~IsLive(purge.entity)

OneLive == contract.echo => \A e, f \in Known : IsLive(e) /\ IsLive(f) => e = f

BothSides ==
  contract.confirm =>
    \A r \in xref : r.tombstone # Never /\ Known = {r.entity} => ~IsLive(r.entity)

IInv ==
  /\ Typed /\ InOrder
  /\ Fenced(xref) /\ Linked(xref) /\ Follows
  /\ \A l \in Lanes : LaneHolds(l)
  /\ PurgeHolds /\ OneLive /\ BothSides

-----------------------------------------------------------------------------
(* The entity rows, and the decision table. *)

LEMMA Entities ==
  ASSUME Typed
  PROVE  /\ Known \subseteq EntityIds /\ entities = [e \in Known |-> entities[e]]
         /\ \A e \in Known : entities[e] \in EntityRows
         /\ NoEntity \notin Known
         /\ \E k \in 0..MaxEntities : Known = 1..k /\ Cardinality(Known) = k
<1>1. PICK k \in 0..MaxEntities : entities \in [1..k -> EntityRows]
  BY DEF Typed
<1>2. MaxEntities \in Nat /\ k \in Nat
  BY CrosswalkAssumption
<1>3. Known = 1..k
  BY <1>1 DEF Known
<1>4. Cardinality(1..k) = k
  BY <1>2, FS_Interval
<1> QED
  BY <1>1, <1>2, <1>3, <1>4 DEF EntityIds, NoEntity, Known

LEMMA Numbers ==
  ASSUME IInv
  PROVE  /\ \A e \in Known : entities[e].fields \in Nat
         /\ \A r \in xref : r \in Rows /\ r.fields \in Nat /\ r.modified \in Nat
<1>1. ASSUME NEW e \in Known PROVE entities[e].fields \in Nat
  BY Entities DEF IInv, EntityRows, Times
<1>2. ASSUME NEW r \in xref PROVE r \in Rows /\ r.fields \in Nat /\ r.modified \in Nat
  BY DEF IInv, Typed, Rows, Times
<1> QED
  BY <1>1, <1>2

(* A row revives only from behind its fence. *)
LEMMA RevivesFromBehind ==
  ASSUME NEW saw \in SUBSET Rows, NEW p \in Payloads, Decide(saw, p).revive
  PROVE  \E r \in saw : r.tombstone # Never /\ p.modified > r.tombstone
BY DEF Decide

(* The version of every lane, and where deletions are confirmed no lane revives. *)
LEMMA Payload ==
  ASSUME IInv, NEW l \in Lanes, lane[l].at # "idle"
  PROVE  /\ lane[l].payload \in Payloads /\ l \in Busy
         /\ Stamp(lane[l].payload) \in Stamps
         /\ lane[l].payload.modified =< remote.modified
<1>1. lane[l].payload \in Payloads /\ l \in Busy
  BY DEF IInv, Typed, LaneStates, Idle, Busy
<1>2. Stamp(lane[l].payload) \in Stamps
  BY <1>1 DEF Stamps
<1> QED
  BY <1>1, <1>2 DEF IInv, InOrder, Stamp

LEMMA NoRevival ==
  ASSUME IInv, NEW l \in Lanes, lane[l].at = "resolved", contract.confirm
  PROVE  ~Gate(l).revive
<1> SUFFICES ASSUME Gate(l).revive PROVE FALSE
  OBVIOUS
<1>1. lane[l].saw \in SUBSET Rows /\ lane[l].payload \in Payloads
  BY DEF IInv, Typed, LaneStates, Idle
<1>2. PICK r \in lane[l].saw : r.tombstone # Never /\ lane[l].payload.modified > r.tombstone
  BY <1>1, RevivesFromBehind DEF Gate
<1>3. remote.modified =< r.tombstone
  BY <1>2 DEF IInv, LaneHolds, Fenced
<1>4. lane[l].payload.modified =< remote.modified
  BY Payload
<1>5. r.tombstone \in Nat /\ remote.modified \in Nat /\ lane[l].payload.modified \in Nat
  BY <1>1, <1>2 DEF IInv, Typed, Rows, Payloads, Times, Never
<1> QED
  BY <1>2, <1>3, <1>4, <1>5

-----------------------------------------------------------------------------
(* Steps that change what one lane, or the reconciliation, knows. *)

LEMMA OrderKept ==
  ASSUME InOrder, Stamps' \subseteq Stamps, UNCHANGED now, remote'.modified = remote.modified,
         remote'.fields = remote.fields
  PROVE  InOrder'
BY DEF InOrder

LEMMA LaneStep ==
  ASSUME IInv, NEW l \in Lanes, UNCHANGED <<contract, now, remote, xref, entities, purge>>,
         NEW x \in LaneStates, lane' = [lane EXCEPT ![l] = x],
         x.at # "idle" => Stamp(x.payload) \in Stamps,
         LaneHolds(l)'
  PROVE  IInv'
<1>1. Typed'
  BY DEF IInv, Typed
<1>2. lane'[l] = x /\ \A m \in Lanes \ {l} : lane'[m] = lane[m]
  BY DEF IInv, Typed
<1>3. Stamps' \subseteq Stamps
  <2>1. {Stamp(lane[m].payload) : m \in Busy}' \subseteq Stamps
    BY <1>2 DEF Busy, Stamps, Stamp
  <2> QED
    BY <2>1 DEF Stamps, Shown, Stamp
<1>4. InOrder'
  BY <1>3, OrderKept DEF IInv
<1>5. ASSUME NEW m \in Lanes \ {l} PROVE LaneHolds(m)'
  BY <1>2 DEF IInv, LaneHolds, Fenced, Linked, Known
<1> QED
  BY <1>1, <1>4, <1>5 DEF IInv, Fenced, Linked, Follows, PurgeHolds, OneLive, BothSides, Known, IsLive

LEMMA PurgeStep ==
  ASSUME IInv, UNCHANGED <<contract, now, remote, xref, entities, lane>>,
         purge' \in PurgeStates, PurgeHolds'
  PROVE  IInv'
<1>1. Stamps' \subseteq Stamps
  BY DEF Stamps, Shown, Stamp, Busy
<1>2. InOrder'
  BY <1>1, OrderKept DEF IInv
<1> QED
  BY <1>2 DEF IInv, Typed, Fenced, Linked, Follows, LaneHolds, OneLive, BothSides, Known, IsLive

(* The gate is read, an entity is loaded: what a lane sees is so. *)
LEMMA FetchStep == ASSUME IInv, NEW l \in Lanes, Fetch(l) PROVE IInv'
<1>1. PICK rank \in Ranks :
        lane' = [lane EXCEPT ![l] =
                  [at |-> "fetched", attempt |-> 0,
                   payload |-> [modified |-> remote.modified, fields |-> remote.fields, rank |-> rank]]]
  BY DEF Fetch
<1> DEFINE x == [at |-> "fetched", attempt |-> 0,
                 payload |-> [modified |-> remote.modified, fields |-> remote.fields, rank |-> rank]]
<1>2. x \in LaneStates /\ Stamp(x.payload) = Shown
  BY DEF IInv, Typed, LaneStates, Payloads, Stamp, Shown
<1>3. LaneHolds(l)'
  BY <1>1 DEF LaneHolds, IInv, Typed
<1> QED
  BY <1>1, <1>2, <1>3, LaneStep DEF Fetch, Stamps

LEMMA ReadGateStep == ASSUME IInv, NEW l \in Lanes, ReadGate(l) PROVE IInv'
<1> DEFINE d == [at |-> "decided", payload |-> lane[l].payload, attempt |-> lane[l].attempt, saw |-> xref]
           x == IF Decide(xref, lane[l].payload).writes THEN d ELSE Idle
<1>1. lane[l] \in LaneStates /\ lane[l].at = "fetched" /\ xref \in SUBSET Rows
  BY DEF ReadGate, IInv, Typed
<1>2. d \in LaneStates /\ Idle \in LaneStates
  BY <1>1 DEF LaneStates, Idle
<1>3. lane' = [lane EXCEPT ![l] = x]
  BY DEF ReadGate
<1>4. lane'[l] = x
  BY <1>3 DEF IInv, Typed
<1>5. LaneHolds(l)'
  BY <1>4 DEF LaneHolds, IInv, Typed, Idle, Fenced, Linked, One, Known, ReadGate
<1>6. x.at # "idle" => Stamp(x.payload) \in Stamps
  BY <1>1, Payload DEF Idle
<1>7. x \in LaneStates
  BY <1>2
<1> HIDE DEF x
<1> QED
  BY <1>3, <1>5, <1>6, <1>7, LaneStep DEF ReadGate

LEMMA ResolveStep == ASSUME IInv, NEW l \in Lanes, Resolve(l) PROVE IInv'
<1> DEFINE found == Candidates(lane[l].saw)
<1>1. PICK e \in IF found = {} THEN {NoEntity} ELSE found :
        lane' = [lane EXCEPT ![l] =
          [at |-> "resolved", payload |-> lane[l].payload, attempt |-> lane[l].attempt, saw |-> lane[l].saw,
           entity |-> e, loaded |-> IF e = NoEntity THEN {} ELSE {entities[e]}, current |-> TRUE]]
  BY DEF Resolve
<1> DEFINE x == [at |-> "resolved", payload |-> lane[l].payload, attempt |-> lane[l].attempt,
                 saw |-> lane[l].saw, entity |-> e,
                 loaded |-> IF e = NoEntity THEN {} ELSE {entities[e]}, current |-> TRUE]
<1>2. lane[l] \in LaneStates /\ lane[l].at = "decided"
  BY DEF Resolve, IInv, Typed
<1>3. lane[l].payload \in Payloads /\ lane[l].attempt \in 0..2 /\ lane[l].saw \in SUBSET Rows
  BY <1>2 DEF LaneStates, Idle
<1>4. e = NoEntity \/ e \in Known
  BY <1>2 DEF IInv, LaneHolds, Linked, Candidates
<1>5. e \in Known => entities[e] \in EntityRows /\ e \in EntityIds /\ entities[e].fields \in Nat
  BY Entities DEF IInv, EntityRows, Times
<1>6. x \in LaneStates
  BY <1>3, <1>4, <1>5 DEF LaneStates
<1>7. lane'[l] = x
  BY <1>1 DEF IInv, Typed
<1>8. LaneHolds(l)'
  BY <1>2, <1>4, <1>5, <1>7 DEF Resolve, IInv, LaneHolds, Fenced, Linked, One, Known
<1>9. Stamp(x.payload) \in Stamps
  BY <1>2, Payload
<1> QED
  BY <1>1, <1>6, <1>8, <1>9, LaneStep DEF Resolve

(* A lane that gives up, or tries once more. *)
LEMMA BackStep ==
  ASSUME IInv, NEW l \in Lanes, LoseRace(l) \/ Rollback(l) \/ Abandon(l)
  PROVE  IInv'
<1> DEFINE again == [at |-> "fetched", payload |-> lane[l].payload, attempt |-> lane[l].attempt + 1]
<1>1. UNCHANGED <<contract, now, remote, xref, entities, purge>>
  BY DEF LoseRace, Rollback, Abandon
<1>2. \/ lane' = [lane EXCEPT ![l] = Idle]
      \/ /\ lane' = [lane EXCEPT ![l] = again]
         /\ lane[l].at = "resolved" /\ lane[l].attempt \in {0, 1}
  BY DEF LoseRace, Rollback, Abandon, Ready
<1>3. CASE lane' = [lane EXCEPT ![l] = Idle]
  <2>1. Idle \in LaneStates /\ Idle.at = "idle"
    BY DEF LaneStates, Idle
  <2>2. LaneHolds(l)'
    BY <1>3, <2>1 DEF LaneHolds, IInv, Typed
  <2> QED
    BY <1>1, <1>3, <2>1, <2>2, LaneStep
<1>4. CASE /\ lane' = [lane EXCEPT ![l] = again]
           /\ lane[l].at = "resolved" /\ lane[l].attempt \in {0, 1}
  <2>1. lane[l].payload \in Payloads /\ Stamp(lane[l].payload) \in Stamps
    BY <1>4, Payload
  <2>2. again \in LaneStates
    BY <1>4, <2>1 DEF LaneStates
  <2>3. LaneHolds(l)'
    BY <1>4 DEF LaneHolds, IInv, Typed
  <2> QED
    BY <1>1, <1>4, <2>1, <2>2, <2>3, LaneStep
<1> QED
  BY <1>2, <1>3, <1>4

-----------------------------------------------------------------------------
(* The reconciliation: what it was told of Zoho, and what it loaded. *)

LEMMA MissingStep ==
  ASSUME IInv, ScanMisses \/ ConfirmMissing \/ LoadMissing \/ PurgeFails
  PROVE  IInv'
<1>1. CASE ScanMisses \/ PurgeFails
  <2>1. purge' \in PurgeStates /\ PurgeHolds'
    BY <1>1 DEF ScanMisses, PurgeFails, PurgeStates, PurgeHolds, Idle
  <2> QED
    BY <1>1, <2>1, PurgeStep DEF ScanMisses, PurgeFails
<1>2. CASE ConfirmMissing
  <2>1. purge' \in PurgeStates /\ PurgeHolds'
    BY <1>2 DEF ConfirmMissing, Proven, PurgeStates, PurgeHolds, Idle
  <2> QED
    BY <1>2, <2>1, PurgeStep DEF ConfirmMissing
<1>3. CASE LoadMissing
  <2>1. PICK r \in xref : purge' = [at |-> "loaded", time |-> now, entity |-> r.entity,
                                    row |-> entities[r.entity], current |-> TRUE]
    BY <1>3 DEF LoadMissing
  <2>2. r.entity \in Known /\ r.entity \in EntityIds /\ entities[r.entity] \in EntityRows
    BY Entities DEF IInv, Linked
  <2>3. purge' \in PurgeStates
    BY <2>1, <2>2 DEF PurgeStates, IInv, Typed
  <2>4. PurgeHolds'
    BY <1>3, <2>1, <2>2 DEF LoadMissing, PurgeHolds, IInv, InOrder, IsLive, Known
  <2> QED
    BY <1>3, <2>3, <2>4, PurgeStep DEF LoadMissing
<1> QED
  BY <1>1, <1>2, <1>3

-----------------------------------------------------------------------------
(* Zoho: an edit makes a version that is later than all, a deletion is final. *)

LEMMA RemoteStep ==
  ASSUME IInv, RemoteEdit \/ RemoteDelete
  PROVE  IInv'
<1>1. CASE RemoteDelete
  <2>1. remote' = [remote EXCEPT !.exists = FALSE] /\ UNCHANGED <<contract, now, xref, entities, lane, purge>>
    BY <1>1 DEF RemoteDelete
  <2>2. /\ remote' \in [exists : BOOLEAN, modified : Times, fields : Times]
        /\ remote'.modified = remote.modified /\ remote'.fields = remote.fields /\ ~remote'.exists
    BY <2>1 DEF IInv, Typed
  <2>3. Stamps' \subseteq Stamps
    BY <2>1, <2>2 DEF Stamps, Shown, Stamp, Busy
  <2>4. InOrder'
    BY <2>1, <2>2, <2>3, OrderKept DEF IInv
  <2> QED
    BY <2>1, <2>2, <2>4 DEF IInv, Typed, Fenced, Linked, Follows, LaneHolds, PurgeHolds, OneLive,
                            BothSides, Known, IsLive
<1>2. CASE RemoteEdit
  <2>1. PICK f \in {remote.fields, now + 1} : remote' = [remote EXCEPT !.modified = now + 1, !.fields = f]
    BY <1>2 DEF RemoteEdit
  <2>2. /\ remote.exists /\ now' = now + 1 /\ now' \in Times
        /\ UNCHANGED <<contract, xref, entities, lane, purge>>
    BY <1>2, CrosswalkAssumption DEF RemoteEdit, IInv, Typed, Times
  <2>3. f \in Times /\ f =< now + 1 /\ f >= remote.fields
    BY <2>2 DEF IInv, Typed, InOrder, Times
  <2>4. /\ remote' \in [exists : BOOLEAN, modified : Times, fields : Times]
        /\ remote'.modified = now + 1 /\ remote'.fields = f /\ remote'.exists
    BY <2>1, <2>2, <2>3 DEF IInv, Typed
  <2>5. InOrder'
    <3>1. Stamps' \subseteq Stamps \cup {<<now + 1, f>>} /\ Shown' = <<now + 1, f>>
      BY <2>2, <2>4 DEF Stamps, Shown, Stamp, Busy
    <3>2. \A a \in Stamps : a \in Times \X Times /\ a[1] =< now /\ a[2] =< remote.fields
      <4>1. Shown \in Stamps /\ Shown[1] = remote.modified /\ Shown[2] = remote.fields
        BY DEF Stamps, Shown
      <4> QED
        BY <4>1 DEF IInv, InOrder, Typed, Times
    <3>3. \A a \in Stamps' : a \in Times \X Times /\ a[1] =< now + 1
      BY <2>2, <2>3, <3>1, <3>2 DEF IInv, Typed, Times
    <3>4. ASSUME NEW a \in Stamps', NEW b \in Stamps', a[1] =< b[1] PROVE a[2] =< b[2]
      <4>1. CASE b \in Stamps
        BY <2>2, <3>1, <3>2, <3>4, <4>1 DEF IInv, Typed, InOrder, Times
      <4>2. CASE b = <<now + 1, f>>
        BY <2>3, <3>1, <3>2, <3>4, <4>2 DEF IInv, Typed, Times
      <4> QED
        BY <3>1, <4>1, <4>2
    <3> QED
      BY <2>2, <2>3, <2>4, <3>3, <3>4 DEF InOrder, IInv, Typed, Times
  <2> QED
    BY <2>2, <2>4, <2>5 DEF IInv, Typed, Fenced, Linked, Follows, LaneHolds, PurgeHolds, OneLive,
                            BothSides, Known, IsLive
<1> QED
  BY <1>1, <1>2

-----------------------------------------------------------------------------
(* Writes of an entity row. *)

\* What a lane knows after somebody's write: nothing any more, or what it knew.
Keeps(m) ==
  \/ lane'[m] = Idle \/ lane'[m] = lane[m]
  \/ lane[m].at = "resolved" /\ lane'[m] = [lane[m] EXCEPT !.current = FALSE]

LEMMA LanesAfter ==
  ASSUME IInv, UNCHANGED <<contract, now, remote>>,
         NEW f, lane' = [m \in Lanes |-> f[m]], \A m \in Lanes : Keeps(m),
         Known \subseteq Known',
         \A e \in Known : entities'[e].fields \in Nat /\ entities[e].fields =< entities'[e].fields
  PROVE  /\ lane' \in [Lanes -> LaneStates]
         /\ \A m \in Lanes : LaneHolds(m)'
         /\ {Stamp(lane[m].payload) : m \in Busy}' \subseteq Stamps
<1>1. ASSUME NEW m \in Lanes
      PROVE  /\ lane'[m] \in LaneStates
             /\ lane'[m].at = "idle" \/ (lane'[m].at = lane[m].at /\ lane'[m].payload = lane[m].payload)
             /\ lane'[m].at \in {"decided", "resolved"} => lane'[m].saw = lane[m].saw
             /\ lane'[m].at = "resolved" =>
                  lane'[m].entity = lane[m].entity /\ lane'[m].loaded = lane[m].loaded
  <2>1. lane[m] \in LaneStates /\ Keeps(m)
    BY DEF IInv, Typed
  <2>2. CASE lane'[m] = Idle
    BY <2>2 DEF LaneStates, Idle
  <2>3. CASE lane'[m] = lane[m]
    BY <2>1, <2>3
  <2>4. CASE lane[m].at = "resolved" /\ lane'[m] = [lane[m] EXCEPT !.current = FALSE]
    <3>1. lane[m] \in [at : {"resolved"}, payload : Payloads, attempt : 0..2, saw : SUBSET Rows,
                       entity : {NoEntity} \cup EntityIds, loaded : SUBSET EntityRows, current : BOOLEAN]
      BY <2>1, <2>4 DEF LaneStates, Idle
    <3> QED
      BY <2>4, <3>1 DEF LaneStates
  <2> QED
    BY <2>1, <2>2, <2>3, <2>4 DEF Keeps
<1>2. \A e \in Known : entities[e].fields \in Nat
  BY Entities DEF IInv, EntityRows, Times
<1>3. ASSUME NEW m \in Lanes PROVE LaneHolds(m)'
  <2>1. lane[m] \in LaneStates
    BY DEF IInv, Typed
  <2>2. ASSUME lane'[m].at = "resolved", NEW r \in lane'[m].loaded
        PROVE  lane'[m].entity \in Known' /\ r.fields =< entities'[lane'[m].entity].fields
    <3>1. lane[m].at = "resolved" /\ r \in lane[m].loaded /\ lane[m].entity = lane'[m].entity
      BY <1>1, <2>2
    <3>2. r.fields \in Nat
      BY <2>1, <3>1 DEF LaneStates, Idle, EntityRows, Times
    <3>3. lane[m].entity \in Known /\ r.fields =< entities[lane[m].entity].fields
      BY <3>1 DEF IInv, LaneHolds
    <3> QED
      BY <1>2, <3>1, <3>2, <3>3
  <2>3. (lane[m].at \in {"decided", "resolved"} =>
           One(lane[m].saw) /\ Fenced(lane[m].saw) /\ Linked(lane[m].saw))'
    BY <1>1 DEF IInv, LaneHolds, Fenced, Linked
  <2> QED
    BY <2>2, <2>3 DEF LaneHolds, Fenced, Linked
<1>4. {Stamp(lane[m].payload) : m \in Busy}' \subseteq Stamps
  BY <1>1 DEF Stamps, Stamp, Busy
<1> QED
  BY <1>1, <1>3, <1>4

LEMMA PurgeAfter ==
  ASSUME IInv, UNCHANGED <<contract, now, remote>>, NEW e, purge' = PurgeAfterWrite(e),
         Known \subseteq Known', \A x \in Known \ {e} : entities'[x] = entities[x],
         contract.confirm /\ e \in Known /\ ~IsLive(e) => ~IsLive(e)'
  PROVE  purge' \in PurgeStates /\ PurgeHolds'
<1>1. purge \in PurgeStates
  BY DEF IInv, Typed
<1>2. CASE purge.at = "loaded" /\ purge.entity = e
  <2>1. purge \in [at : {"loaded"}, time : Times, entity : EntityIds, row : EntityRows, current : BOOLEAN]
    BY <1>1, <1>2 DEF PurgeStates, Idle
  <2>2. purge' = [purge EXCEPT !.current = FALSE]
    BY <1>2 DEF PurgeAfterWrite
  <2> QED
    BY <1>2, <2>1, <2>2 DEF PurgeStates, IInv, PurgeHolds, IsLive
<1>3. CASE ~(purge.at = "loaded" /\ purge.entity = e)
  BY <1>1, <1>3 DEF PurgeAfterWrite, IInv, PurgeHolds, IsLive
<1> QED
  BY <1>2, <1>3

(* A user's delete: the columns stay, a live row dies. *)
LEMMA UserDeleteStep == ASSUME IInv, NEW e \in Known, UserDelete(e) PROVE IInv'
<1>1. entities' = [entities EXCEPT ![e].deletedBy = "user"]
  BY DEF UserDelete
<1>2. /\ \A x \in Known : entities[x] \in EntityRows
      /\ \E k \in 0..MaxEntities : Known = 1..k /\ entities \in [1..k -> EntityRows]
  BY Entities DEF IInv
<1>3. /\ Known' = Known /\ \A x \in Known \ {e} : entities'[x] = entities[x]
      /\ entities'[e].deletedBy = "user" /\ entities'[e].fields = entities[e].fields
      /\ entities'[e] \in EntityRows
      /\ \E k \in 0..MaxEntities : entities' \in [1..k -> EntityRows]
  BY <1>1, <1>2 DEF Known, EntityRows
<1>4. \A x \in Known : entities'[x].fields \in Nat /\ entities'[x].fields = entities[x].fields
  BY <1>2, <1>3 DEF EntityRows, Times
<1>5. \A m \in Lanes : Keeps(m)
  BY DEF UserDelete, Keeps, LaneAfterWrite
<1>6. /\ lane' \in [Lanes -> LaneStates] /\ \A m \in Lanes : LaneHolds(m)'
      /\ {Stamp(lane[m].payload) : m \in Busy}' \subseteq Stamps
  <2>1. UNCHANGED <<contract, now, remote>> /\ Known \subseteq Known'
    BY <1>3 DEF UserDelete
  <2>2. lane' = [m \in Lanes |-> LaneAfterWrite(m, e)]
    BY DEF UserDelete
  <2>3. lane' = [m \in Lanes |-> lane'[m]]
    BY <2>2
  <2>4. \A x \in Known : entities'[x].fields \in Nat /\ entities[x].fields =< entities'[x].fields
    BY <1>4
  <2> QED
    BY <1>5, <2>1, <2>3, <2>4, LanesAfter
<1>7. purge' \in PurgeStates /\ PurgeHolds'
  BY <1>3, PurgeAfter DEF UserDelete, IsLive
<1>8. Stamps' \subseteq Stamps
  BY <1>6 DEF UserDelete, Stamps, Shown, Stamp
<1>9. InOrder'
  BY <1>8, OrderKept DEF IInv, UserDelete
<1>10. Typed'
  BY <1>3, <1>6, <1>7 DEF UserDelete, IInv, Typed
<1>11. Fenced(xref)' /\ Linked(xref)' /\ Follows'
  BY <1>3, <1>4 DEF UserDelete, IInv, Fenced, Linked, Follows
<1>12. OneLive' /\ BothSides'
  BY <1>3 DEF UserDelete, IInv, OneLive, BothSides, Linked, IsLive
<1> QED
  BY <1>6, <1>7, <1>9, <1>10, <1>11, <1>12 DEF IInv

-----------------------------------------------------------------------------
(* The upsert: the row that is there afterwards. *)

LEMMA UpsertedRow ==
  ASSUME IInv, NEW l \in Lanes, Ready(l), GuardPasses(l), NEW e \in EntityIds
  PROVE  /\ Upserted(l, e) \in SUBSET Rows /\ One(Upserted(l, e)) /\ Upserted(l, e) # {}
         /\ \A r \in Upserted(l, e) :
              /\ r.entity = e /\ r.modified = lane[l].payload.modified /\ r.fields = lane[l].payload.fields
              /\ r.tombstone # Never => \E s \in xref : s.tombstone = r.tombstone
         /\ \A r \in xref : r.modified =< lane[l].payload.modified /\ r.fields =< lane[l].payload.fields
<1>1. xref \in SUBSET Rows /\ One(xref)
  BY DEF IInv, Typed
<1>2. lane[l].payload \in Payloads /\ Stamp(lane[l].payload) \in Stamps
  BY Payload DEF Ready
<1>3. CASE xref = {}
  BY <1>2, <1>3 DEF Upserted, Rows, Payloads, One, Never
<1>4. CASE xref # {}
  <2>1. PICK s \in xref : xref = {s}
    BY <1>1, <1>4 DEF One
  <2> DEFINE p == lane[l].payload
             d == Gate(l)
             r == [entity |-> e, modified |-> p.modified, fields |-> p.fields,
                   rawOf |-> IF d.raw THEN p.modified ELSE s.rawOf,
                   rawRank |-> IF d.raw THEN p.rank ELSE s.rawRank,
                   tombstone |-> IF d.revive THEN Never ELSE s.tombstone]
  <2>2. Upserted(l, e) = {r}
    BY <1>4, <2>1 DEF Upserted
  <2>3. s \in Rows
    BY <1>1
  <2>4. r \in Rows
    BY <1>2, <2>3 DEF Rows, Payloads, Never
  <2>5. s.modified =< p.modified
    BY <1>2, <2>3 DEF GuardPasses, Rows, Payloads, Times
  <2>6. s.fields =< p.fields
    <3>1. Stamp(s) \in Stamps
      BY DEF Stamps
    <3> QED
      BY <1>2, <2>5, <3>1 DEF IInv, InOrder, Stamp
  <2> QED
    BY <2>1, <2>2, <2>4, <2>5, <2>6 DEF One
<1> QED
  BY <1>3, <1>4

(* What is common to the three actions that upsert: the row moves to entity e, which
   shows the payload, and no other entity gets later columns than it had. *)
LEMMA UpsertStep ==
  ASSUME IInv, NEW l \in Lanes, Ready(l), GuardPasses(l), NEW e \in EntityIds,
         UNCHANGED <<contract, now, remote>>,
         xref' = Upserted(l, e),
         \E k \in 0..MaxEntities : entities' \in [1..k -> EntityRows],
         e \in Known', Known' \subseteq Known \cup {e}, Known \subseteq Known',
         entities'[e].fields = lane[l].payload.fields,
         \A x \in Known \ {e} : entities'[x] = entities[x],
         NEW f, lane' = [m \in Lanes |-> f[m]], \A m \in Lanes : Keeps(m),
         purge' \in PurgeStates, PurgeHolds',
         OneLive',
         contract.confirm => \A x \in Known : ~IsLive(x) => ~IsLive(x)'
  PROVE  IInv'
<1>1. /\ xref' \in SUBSET Rows /\ One(xref') /\ xref' # {}
      /\ \A r \in xref' :
           /\ r.entity = e /\ r.modified = lane[l].payload.modified /\ r.fields = lane[l].payload.fields
           /\ r.tombstone # Never => \E s \in xref : s.tombstone = r.tombstone
      /\ \A r \in xref : r.fields =< lane[l].payload.fields
  BY UpsertedRow
<1>2. /\ Stamp(lane[l].payload) \in Stamps /\ lane[l].payload.fields \in Nat
      /\ \A r \in xref : r.fields \in Nat
  BY Payload DEF Ready, Payloads, Times, IInv, Typed, Rows
<1>3. \A x \in Known : entities[x].fields \in Nat /\ entities[x].fields =< lane[l].payload.fields
  <2>1. ASSUME NEW x \in Known PROVE entities[x].fields \in Nat /\ entities[x].fields =< lane[l].payload.fields
    <3>1. entities[x].fields \in Nat
      BY Entities DEF IInv, EntityRows, Times
    <3>2. PICK r \in xref : entities[x].fields =< r.fields
      BY DEF IInv, Follows
    <3> QED
      BY <1>1, <1>2, <3>1, <3>2
  <2> QED
    BY <2>1
<1>4. \A x \in Known : entities'[x].fields \in Nat /\ entities[x].fields =< entities'[x].fields
  <2>1. ASSUME NEW x \in Known PROVE entities'[x].fields \in Nat /\ entities[x].fields =< entities'[x].fields
    <3>1. CASE x = e
      BY <1>2, <1>3, <3>1
    <3>2. CASE x # e
      BY <1>3, <3>2
    <3> QED
      BY <3>1, <3>2
  <2> QED
    BY <2>1
<1>5. /\ lane' \in [Lanes -> LaneStates] /\ \A m \in Lanes : LaneHolds(m)'
      /\ {Stamp(lane[m].payload) : m \in Busy}' \subseteq Stamps
  BY <1>4, LanesAfter
<1>6. InOrder'
  <2>1. \A r \in xref' : Stamp(r) = Stamp(lane[l].payload)
    BY <1>1 DEF Stamp
  <2>2. Stamps' \subseteq Stamps
    BY <1>2, <1>5, <2>1 DEF Stamps, Shown, Stamp
  <2> QED
    BY <2>2, OrderKept DEF IInv
<1>7. Typed'
  BY <1>1, <1>5 DEF IInv, Typed
<1>8. Fenced(xref)' /\ Linked(xref)'
  BY <1>1 DEF IInv, Fenced, Linked
<1>9. Follows'
  <2>1. ASSUME NEW x \in Known' PROVE \E r \in xref' : entities'[x].fields =< r.fields
    <3>1. PICK r \in xref' : r.fields = lane[l].payload.fields
      BY <1>1
    <3>2. CASE x = e
      BY <1>2, <3>1, <3>2
    <3>3. CASE x # e
      BY <1>3, <3>1, <3>3
    <3> QED
      BY <3>2, <3>3
  <2> QED
    BY <1>1, <2>1 DEF Follows
<1>10. BothSides'
  <2> SUFFICES ASSUME contract.confirm, NEW r \in xref', r.tombstone # Never, Known' = {r.entity}
               PROVE  ~IsLive(r.entity)'
    BY DEF BothSides
  <2>1. PICK s \in xref : s.tombstone = r.tombstone
    BY <1>1
  <2>2. s.entity \in Known /\ r.entity = e
    BY <1>1 DEF IInv, Linked
  <2>3. s.entity = e /\ Known = {s.entity}
    BY <2>2
  <2> QED
    BY <2>1, <2>2, <2>3 DEF IInv, BothSides
<1> QED
  BY <1>5, <1>6, <1>7, <1>8, <1>9, <1>10 DEF IInv

LEMMA InsertStep == ASSUME IInv, NEW l \in Lanes, InsertEntity(l) PROVE IInv'
<1> DEFINE e == Cardinality(Known) + 1
<1>1. PICK k \in 0..MaxEntities : Known = 1..k /\ Cardinality(Known) = k
  BY Entities DEF IInv
<1>2. e \in EntityIds /\ k \in Nat /\ e = k + 1 /\ Known \cup {e} = 1..(k + 1) /\ e \notin Known
  BY <1>1, CrosswalkAssumption DEF InsertEntity, EntityIds
<1>3. /\ entities' = [i \in Known \cup {e} |->
                        IF i = e THEN [fields |-> lane[l].payload.fields, deletedBy |-> "nobody"]
                        ELSE entities[i]]
      /\ xref' = Upserted(l, e) /\ lane' = [lane EXCEPT ![l] = Idle]
      /\ UNCHANGED <<contract, now, remote, purge>>
      /\ Ready(l) /\ GuardPasses(l) /\ lane[l].entity = NoEntity /\ ~EchoTaken(l)
  BY DEF InsertEntity
<1>4. lane[l].payload.fields \in Times
  BY <1>3, Payload DEF Ready, Payloads
<1>5. /\ Known' = Known \cup {e}
      /\ entities'[e] = [fields |-> lane[l].payload.fields, deletedBy |-> "nobody"]
      /\ \A x \in Known : entities'[x] = entities[x] /\ entities'[x] \in EntityRows
  BY <1>2, <1>3, Entities DEF Known, IInv
<1>6. \E j \in 0..MaxEntities : entities' \in [1..j -> EntityRows]
  <2>1. k + 1 \in 0..MaxEntities
    BY <1>2 DEF EntityIds
  <2>2. entities'[e] \in EntityRows
    BY <1>4, <1>5 DEF EntityRows
  <2>3. entities' \in [1..(k + 1) -> EntityRows]
    BY <1>2, <1>3, <1>5, <2>2
  <2> QED
    BY <2>1, <2>3
<1>7. lane' = [m \in Lanes |-> lane'[m]] /\ \A m \in Lanes : Keeps(m)
  BY <1>3 DEF IInv, Typed, Keeps
<1>8. purge' \in PurgeStates /\ PurgeHolds'
  BY <1>3, <1>5 DEF IInv, Typed, PurgeHolds, IsLive
<1>9. OneLive'
  <2>1. contract.echo => \A x \in Known : ~IsLive(x)
    BY <1>2, <1>3, Entities DEF EchoTaken, IInv
  <2> QED
    BY <1>3, <1>5, <2>1 DEF OneLive, IsLive
<1>10. contract.confirm => \A x \in Known : ~IsLive(x) => ~IsLive(x)'
  BY <1>5 DEF IsLive
<1>11. entities'[e].fields = lane[l].payload.fields
  BY <1>5
<1> HIDE DEF e
<1> QED
  BY <1>2, <1>3, <1>5, <1>6, <1>7, <1>8, <1>9, <1>10, <1>11, UpsertStep

(* The loaded entity is one there is. *)
LEMMA Loaded ==
  ASSUME IInv, NEW l \in Lanes, Ready(l), MayFlush(l) \/ MayStayClean(l)
  PROVE  lane[l].entity \in Known /\ lane[l].entity \in EntityIds /\ lane[l].entity # NoEntity
<1>1. lane[l].entity \in Known
  BY DEF MayFlush, MayStayClean, Ready, IInv, LaneHolds
<1> QED
  BY <1>1, Entities DEF IInv

LEMMA UpdateStep == ASSUME IInv, NEW l \in Lanes, UpdateEntity(l) PROVE IInv'
<1> DEFINE e == lane[l].entity
           new == [fields |-> lane[l].payload.fields,
                   deletedBy |-> IF Gate(l).revive THEN "nobody" ELSE entities[e].deletedBy]
<1>1. /\ entities' = [entities EXCEPT ![e] = new]
      /\ xref' = Upserted(l, e)
      /\ lane' = [m \in Lanes |-> IF m = l THEN Idle ELSE LaneAfterWrite(m, e)]
      /\ purge' = PurgeAfterWrite(e)
      /\ UNCHANGED <<contract, now, remote>>
      /\ Ready(l) /\ GuardPasses(l) /\ MayFlush(l) /\ ~EchoTaken(l)
  BY DEF UpdateEntity
<1>2. e \in Known /\ e \in EntityIds /\ e # NoEntity
  BY <1>1, Loaded
<1>3. lane[l].payload.fields \in Times
  BY <1>1, Payload DEF Ready, Payloads
<1>4. new \in EntityRows
  BY <1>2, <1>3, Entities DEF EntityRows, IInv
<1>5. PICK k \in 0..MaxEntities : entities \in [1..k -> EntityRows]
  BY DEF IInv, Typed
<1>6. /\ Known' = Known /\ entities'[e] = new /\ \A x \in Known \ {e} : entities'[x] = entities[x]
      /\ entities' \in [1..k -> EntityRows]
  BY <1>1, <1>2, <1>4, <1>5 DEF Known
<1>7. lane' = [m \in Lanes |-> lane'[m]] /\ \A m \in Lanes : Keeps(m)
  BY <1>1 DEF Keeps, LaneAfterWrite
<1>8. contract.confirm => \A x \in Known : ~IsLive(x) => ~IsLive(x)'
  BY <1>1, <1>2, <1>6, NoRevival DEF Ready, IsLive
<1>9. purge' \in PurgeStates /\ PurgeHolds'
  BY <1>1, <1>6, <1>8, PurgeAfter
<1>10. OneLive'
  <2> SUFFICES ASSUME contract.echo, NEW x \in Known, NEW y \in Known, IsLive(x)', IsLive(y)' PROVE x = y
    BY <1>1, <1>6 DEF OneLive
  <2>1. CASE Gate(l).revive
    <3>1. \A z \in Known \ {e} : ~IsLive(z)
      BY <1>1, <2>1 DEF EchoTaken
    <3> QED
      BY <1>6, <3>1 DEF IsLive
  <2>2. CASE ~Gate(l).revive
    <3>1. \A z \in Known : IsLive(z)' => IsLive(z)
      BY <1>6, <2>2 DEF IsLive
    <3> QED
      BY <3>1 DEF IInv, OneLive
  <2> QED
    BY <2>1, <2>2
<1>11. entities'[e].fields = lane[l].payload.fields
  BY <1>6
<1> HIDE DEF e, new
<1> QED
  BY <1>1, <1>2, <1>6, <1>7, <1>8, <1>9, <1>10, <1>11, UpsertStep

(* A clean entity shows the payload, although the lane does not look at its row_version:
   the columns it had when it was loaded are the payload's, and what was written to it
   since lies between them. *)
LEMMA CleanShows ==
  ASSUME IInv, NEW l \in Lanes, Ready(l), GuardPasses(l), MayStayClean(l)
  PROVE  entities[lane[l].entity].fields = lane[l].payload.fields
<1> DEFINE e == lane[l].entity
<1>0. e \in Known /\ e \in EntityIds
  BY Loaded
<1>1. PICK row \in lane[l].loaded : row.fields = lane[l].payload.fields
  BY DEF MayStayClean
<1>2. row.fields =< entities[e].fields
  BY DEF Ready, IInv, LaneHolds
<1>3. PICK r \in xref : entities[e].fields =< r.fields
  BY <1>0 DEF IInv, Follows
<1>4. r.fields =< lane[l].payload.fields
  BY <1>0, UpsertedRow
<1>5. entities[e].fields \in Nat /\ r.fields \in Nat
  BY <1>0, Numbers
<1>6. lane[l].payload.fields \in Nat
  BY Payload DEF Ready, Payloads, Times
<1> QED
  BY <1>1, <1>2, <1>3, <1>4, <1>5, <1>6

LEMMA KeepStep == ASSUME IInv, NEW l \in Lanes, KeepEntity(l) PROVE IInv'
<1> DEFINE e == lane[l].entity
<1>1. /\ xref' = Upserted(l, e) /\ lane' = [lane EXCEPT ![l] = Idle]
      /\ UNCHANGED <<contract, now, remote, entities, purge>>
      /\ Ready(l) /\ GuardPasses(l) /\ MayStayClean(l)
  BY DEF KeepEntity
<1>2. e \in Known /\ e \in EntityIds
  BY <1>1, Loaded
<1>3. entities[e].fields = lane[l].payload.fields
  BY <1>1, CleanShows
<1>4. lane' = [m \in Lanes |-> lane'[m]] /\ \A m \in Lanes : Keeps(m)
  BY <1>1 DEF IInv, Typed, Keeps
<1>5. purge' \in PurgeStates /\ PurgeHolds' /\ OneLive'
  BY <1>1 DEF IInv, Typed, PurgeHolds, OneLive, IsLive, Known
<1>6. Known' = Known /\ \A x \in Known : IsLive(x)' = IsLive(x)
  BY <1>1 DEF Known, IsLive
<1>7. \E k \in 0..MaxEntities : entities' \in [1..k -> EntityRows]
  BY <1>1 DEF IInv, Typed
<1> HIDE DEF e
<1> QED
  BY <1>1, <1>2, <1>3, <1>4, <1>5, <1>6, <1>7, UpsertStep

(* Both sides are tombstoned: the fence is behind the last version, the entity is dead. *)
LEMMA TombstoneStep == ASSUME IInv, Tombstone PROVE IInv'
<1>0. PICK e : e = purge.entity
  OBVIOUS
<1> DEFINE fence(r) == [r EXCEPT !.tombstone = IF @ = Never THEN purge.time ELSE @]
<1>1. /\ xref' = {fence(r) : r \in xref} /\ purge' = Idle /\ UNCHANGED <<contract, now, remote>>
      /\ purge.at = "loaded"
  BY DEF Tombstone
<1>2. /\ e \in Known /\ purge.time \in Times
      /\ contract.confirm => ~remote.exists /\ remote.modified =< purge.time
  BY <1>0, <1>1 DEF IInv, Typed, PurgeStates, PurgeHolds, Idle
<1>3. PICK k \in 0..MaxEntities : entities \in [1..k -> EntityRows]
  BY DEF IInv, Typed
<1>4. \/ /\ purge.row.deletedBy = "nobody" /\ purge.current
         /\ entities' = [entities EXCEPT ![e].deletedBy = "sync"]
         /\ lane' = [m \in Lanes |-> LaneAfterWrite(m, e)]
      \/ purge.row.deletedBy # "nobody" /\ UNCHANGED <<entities, lane>>
  BY <1>0 DEF Tombstone
<1>5. /\ Known' = Known /\ entities' \in [1..k -> EntityRows]
      /\ \A x \in Known : /\ entities'[x].fields = entities[x].fields
                          /\ entities'[x].deletedBy \in {entities[x].deletedBy, "sync"}
      /\ contract.confirm => ~IsLive(e)'
  <2>1. CASE /\ purge.row.deletedBy = "nobody" /\ purge.current
             /\ entities' = [entities EXCEPT ![e].deletedBy = "sync"]
    <3>1. entities[e] \in EntityRows /\ e \in 1..k /\ Known = 1..k
      BY <1>2, <1>3 DEF Known
    <3>2. entities'[e] = [entities[e] EXCEPT !.deletedBy = "sync"]
      BY <1>3, <2>1, <3>1
    <3>3. entities'[e] \in EntityRows /\ entities'[e].fields = entities[e].fields /\ entities'[e].deletedBy = "sync"
      BY <3>1, <3>2 DEF EntityRows
    <3>4. \A x \in Known \ {e} : entities'[x] = entities[x]
      BY <1>3, <2>1, <3>1
    <3>5. entities' \in [1..k -> EntityRows]
      BY <1>3, <2>1, <3>1, <3>3, <3>4
    <3> QED
      BY <3>1, <3>3, <3>4, <3>5 DEF Known, IsLive
  <2>2. CASE purge.row.deletedBy # "nobody" /\ UNCHANGED <<entities, lane>>
    <3>1. contract.confirm => ~IsLive(e)
      BY <1>0, <1>1, <2>2 DEF IInv, PurgeHolds
    <3> QED
      BY <1>1, <1>3, <2>2, <3>1 DEF Known, IsLive
  <2> QED
    BY <1>4, <2>1, <2>2
<1>6. \A x \in Known : entities[x].fields \in Nat
  BY Entities DEF IInv, EntityRows, Times
<1>7. lane' = [m \in Lanes |-> lane'[m]] /\ \A m \in Lanes : Keeps(m)
  BY <1>4 DEF IInv, Typed, Keeps, LaneAfterWrite
<1>8. /\ lane' \in [Lanes -> LaneStates] /\ \A m \in Lanes : LaneHolds(m)'
      /\ {Stamp(lane[m].payload) : m \in Busy}' \subseteq Stamps
  <2>1. \A x \in Known : entities'[x].fields \in Nat /\ entities[x].fields =< entities'[x].fields
    BY <1>5, <1>6
  <2> QED
    BY <1>1, <1>5, <1>7, <2>1, LanesAfter
<1>9. ASSUME NEW r \in xref
      PROVE  /\ fence(r) \in Rows /\ fence(r).entity = r.entity /\ fence(r).fields = r.fields
             /\ Stamp(fence(r)) = Stamp(r)
             /\ fence(r).tombstone = IF r.tombstone = Never THEN purge.time ELSE r.tombstone
  BY <1>2 DEF IInv, Typed, Rows, Stamp
<1> HIDE DEF fence
<1>10. xref' \in SUBSET Rows /\ One(xref')
  BY <1>1, <1>9 DEF IInv, Typed, One
<1>11. InOrder'
  <2>1. {Stamp(r) : r \in xref'} \subseteq Stamps
    BY <1>1, <1>9 DEF Stamps
  <2>2. Stamps' \subseteq Stamps
    BY <1>1, <1>8, <2>1 DEF Stamps, Shown, Stamp
  <2> QED
    BY <1>1, <2>2, OrderKept DEF IInv
<1>12. Typed'
  BY <1>1, <1>5, <1>8, <1>10 DEF IInv, Typed, PurgeStates
<1>13. Fenced(xref)' /\ Linked(xref)'
  BY <1>1, <1>2, <1>5, <1>9 DEF IInv, Fenced, Linked
<1>14. Follows'
  BY <1>1, <1>5, <1>9 DEF IInv, Follows, Linked
<1>15. PurgeHolds' /\ OneLive'
  BY <1>1, <1>5 DEF IInv, PurgeHolds, OneLive, IsLive, Idle
<1>16. BothSides'
  <2> SUFFICES ASSUME contract.confirm, NEW r \in xref', Known = {r.entity} PROVE ~IsLive(r.entity)'
    BY <1>1, <1>5 DEF BothSides
  <2>1. r.entity = e
    BY <1>2
  <2> QED
    BY <1>5, <2>1
<1> QED
  BY <1>8, <1>11, <1>12, <1>13, <1>14, <1>15, <1>16 DEF IInv

-----------------------------------------------------------------------------
(* The theorems. *)

LEMMA InitInv == Init => IInv
<1> SUFFICES ASSUME Init PROVE IInv
  OBVIOUS
<1>1. Known = {} /\ entities \in [1..0 -> EntityRows]
  BY DEF Init, Known
<1>2. Stamps = {<<1, 1>>} /\ 1 \in Times /\ 0 \in 0..MaxEntities
  BY CrosswalkAssumption DEF Init, Stamps, Shown, Busy, Times, Idle
<1>3. Typed
  BY <1>1, <1>2 DEF Init, Typed, One, LaneStates, PurgeStates
<1>4. InOrder
  BY <1>2 DEF Init, InOrder
<1> QED
  BY <1>1, <1>3, <1>4 DEF Init, IInv, Fenced, Linked, Follows, LaneHolds, PurgeHolds, OneLive, BothSides, Idle

LEMMA StepInv == IInv /\ [Next]_vars => IInv'
<1> SUFFICES ASSUME IInv, [Next]_vars PROVE IInv'
  OBVIOUS
<1>1. CASE RemoteEdit \/ RemoteDelete
  BY <1>1, RemoteStep
<1>2. CASE \E e \in Known : UserDelete(e)
  BY <1>2, UserDeleteStep
<1>3. ASSUME NEW l \in Lanes, Apply(l) PROVE IInv'
  BY <1>3, FetchStep, ReadGateStep, ResolveStep, InsertStep, UpdateStep, KeepStep, BackStep DEF Apply
<1>4. CASE Reconcile
  BY <1>4, MissingStep, TombstoneStep DEF Reconcile
<1>5. CASE UNCHANGED vars
  BY <1>5 DEF vars, IInv, Typed, InOrder, Stamps, Shown, Stamp, Busy, Fenced, Linked, Follows, LaneHolds,
              PurgeHolds, OneLive, BothSides, Known, IsLive
<1> QED
  BY <1>1, <1>2, <1>3, <1>4, <1>5 DEF Next

THEOREM Invariance == Spec => []IInv
BY InitInv, StepInv, PTL DEF Spec

(* Every variable keeps its type. *)
THEOREM TypeCorrect == Spec => []TypeOK
<1>1. IInv => TypeOK
  <2> SUFFICES ASSUME IInv PROVE TypeOK
    OBVIOUS
  <2>1. Cardinality(xref) =< 1
    <3>1. CASE xref = {}
      BY <3>1, FS_EmptySet
    <3>2. CASE xref # {}
      <4>1. PICK r : xref = {r}
        BY <3>2 DEF IInv, Typed, One
      <4>2. Cardinality({r}) = 1
        BY FS_Singleton
      <4> QED
        BY <4>1, <4>2
    <3> QED
      BY <3>1, <3>2
  <2> QED
    BY <2>1 DEF IInv, Typed, TypeOK
<1> QED
  BY <1>1, Invariance, PTL

(* The linked entity shows what the crosswalk row says was applied, although a lane that
   changes no column never compares the row_version of the entity it loaded; and an echo
   never has two live entities. *)
THEOREM EntityFollows == Spec => []EntityFollowsCrosswalk
<1>1. IInv => EntityFollowsCrosswalk
  BY DEF IInv, Follows, OneLive, EntityFollowsCrosswalk
<1> QED
  BY <1>1, Invariance, PTL

(* Confirmed deletions tombstone only what is gone, on both sides. *)
THEOREM TombstonesRight == Spec => []TombstonesAreRight
<1>1. IInv => TombstonesAreRight
  <2> SUFFICES ASSUME IInv, contract.confirm, NEW r \in xref, r.tombstone # Never
               PROVE  ~remote.exists /\ (Cardinality(Known) = 1 => ~IsLive(r.entity))
    BY DEF TombstonesAreRight
  <2>1. ~remote.exists
    BY DEF IInv, Fenced
  <2>2. ASSUME Cardinality(Known) = 1 PROVE Known = {r.entity}
    <3>1. PICK k \in 0..MaxEntities : Known = 1..k /\ Cardinality(Known) = k
      BY Entities DEF IInv
    <3>2. Known = {1}
      BY <2>2, <3>1
    <3> QED
      BY <3>2 DEF IInv, Linked
  <2> QED
    BY <2>1, <2>2 DEF IInv, BothSides
<1> QED
  BY <1>1, Invariance, PTL

(* No step undoes what another has written: the crosswalk row goes forward in the source's
   time, and a user's delete stands where deletions are confirmed. *)
LEMMA ForwardStep ==
  ASSUME IInv, Next
  PROVE  \A r \in xref : \E s \in xref' : s.modified >= r.modified
<1> SUFFICES ASSUME NEW r \in xref PROVE \E s \in xref' : s.modified >= r.modified
  OBVIOUS
<1>1. r \in Rows /\ r.modified \in Nat
  BY DEF IInv, Typed, Rows, Times
<1>2. CASE UNCHANGED xref
  BY <1>1, <1>2
<1>3. ASSUME NEW l \in Lanes, InsertEntity(l) \/ UpdateEntity(l) \/ KeepEntity(l)
      PROVE  \E s \in xref' : s.modified >= r.modified
  <2>1. GuardPasses(l) /\ Ready(l)
    BY <1>3 DEF InsertEntity, UpdateEntity, KeepEntity
  <2>2. PICK e : xref' = Upserted(l, e)
    BY <1>3 DEF InsertEntity, UpdateEntity, KeepEntity
  <2>3. \E s \in xref' : s.modified = lane[l].payload.modified
    <3> DEFINE p == lane[l].payload
               d == Gate(l)
               s == [entity |-> e, modified |-> p.modified, fields |-> p.fields,
                     rawOf |-> IF d.raw THEN p.modified ELSE r.rawOf,
                     rawRank |-> IF d.raw THEN p.rank ELSE r.rawRank,
                     tombstone |-> IF d.revive THEN Never ELSE r.tombstone]
    <3>1. s \in xref'
      BY <2>2 DEF Upserted
    <3>2. s.modified = p.modified
      OBVIOUS
    <3> HIDE DEF s
    <3> QED
      BY <3>1, <3>2
  <2> QED
    BY <2>1, <2>3 DEF GuardPasses
<1>4. CASE Tombstone
  <2> DEFINE s == [r EXCEPT !.tombstone = IF @ = Never THEN purge.time ELSE @]
  <2>1. s.modified = r.modified
    BY <1>1 DEF Rows
  <2>2. s \in xref'
    BY <1>4 DEF Tombstone
  <2> HIDE DEF s
  <2> QED
    BY <1>1, <2>1, <2>2
<1> QED
  BY <1>2, <1>3, <1>4 DEF Next, RemoteEdit, RemoteDelete, UserDelete, Apply, Fetch, ReadGate, Resolve,
     LoseRace, Rollback, Abandon, Reconcile, ScanMisses, ConfirmMissing, LoadMissing, PurgeFails

LEMMA DeleteStands ==
  ASSUME IInv, Next, contract.confirm, NEW e \in Known, entities[e].deletedBy = "user"
  PROVE  entities'[e].deletedBy = "user"
<1>0. PICK k \in 0..MaxEntities : entities \in [1..k -> EntityRows]
  BY DEF IInv, Typed
<1>1. CASE UNCHANGED entities
  BY <1>1
<1>2. ASSUME NEW d \in Known, UserDelete(d) PROVE entities'[e].deletedBy = "user"
  BY <1>0, <1>2 DEF UserDelete, Known, EntityRows
<1>3. ASSUME NEW l \in Lanes, InsertEntity(l) PROVE entities'[e].deletedBy = "user"
  <2>1. Cardinality(Known) + 1 \notin Known
    BY Entities DEF IInv
  <2> QED
    BY <1>3, <2>1 DEF InsertEntity
<1>4. ASSUME NEW l \in Lanes, UpdateEntity(l) PROVE entities'[e].deletedBy = "user"
  <2>1. ~Gate(l).revive
    BY <1>4, NoRevival DEF UpdateEntity, Ready
  <2> QED
    BY <1>0, <1>4, <2>1 DEF UpdateEntity, Known, EntityRows
<1>5. CASE Tombstone
  <2>1. purge.row.deletedBy = "nobody" /\ purge.current => entities[purge.entity].deletedBy = "nobody"
    BY <1>5 DEF Tombstone, IInv, PurgeHolds
  <2>2. purge.row.deletedBy = "nobody" /\ purge.current => purge.entity # e
    BY <2>1
  <2> QED
    BY <1>0, <1>5, <2>2 DEF Tombstone, Known, EntityRows
<1> QED
  BY <1>1, <1>2, <1>3, <1>4, <1>5 DEF Next, RemoteEdit, RemoteDelete, Apply, Fetch, ReadGate, Resolve,
     LoseRace, KeepEntity, Rollback, Abandon, Reconcile, ScanMisses, ConfirmMissing, LoadMissing, PurgeFails

THEOREM NothingUndone == Spec => NothingIsUndone
<1> DEFINE Forward == \A r \in xref : \E s \in xref' : s.modified >= r.modified
           Stands == contract.confirm =>
                       \A e \in Known : entities[e].deletedBy = "user" => entities'[e].deletedBy = "user"
<1>1. IInv /\ [Next]_vars => [Forward /\ Stands]_vars
  BY ForwardStep, DeleteStands
<1>2. [][Forward /\ Stands]_vars => NothingIsUndone
  BY PTL DEF NothingIsUndone
<1> QED
  BY <1>1, <1>2, Invariance, PTL DEF Spec

-----------------------------------------------------------------------------
(* The refinement of RecordMirror: Zoho, the users, and the five actions    *)
(* that write are its actions; what a lane or a reconciliation only reads   *)
(* is nothing to it.                                                        *)

(* Three facts the promises did not need: versions are what counts time, a reconciliation
   stamps what it has seen, and a lane makes a new entity only if it saw no row.  *)
InTime ==
  /\ now = remote.modified
  /\ purge.at = "loaded" => purge.time =< now
  /\ \A l \in Lanes : lane[l].at = "resolved" /\ lane[l].entity = NoEntity => lane[l].saw = {}

MirrorInv == IInv /\ InTime

LEMMA InTimeInit == Init => InTime
BY DEF Init, InTime, Idle

\* What a write elsewhere leaves of a lane.
SameRead(m) == lane'[m].at = lane[m].at /\ lane'[m].entity = lane[m].entity /\ lane'[m].saw = lane[m].saw

LEMMA ReadStays ==
  ASSUME IInv, NEW m \in Lanes, NEW e, lane'[m] = LaneAfterWrite(m, e)
  PROVE  SameRead(m)
<1>1. lane[m] \in LaneStates
  BY DEF IInv, Typed
<1> QED
  BY <1>1 DEF SameRead, LaneAfterWrite, LaneStates, Idle

LEMMA InTimeStep == ASSUME IInv, InTime, Next PROVE InTime'
<1> USE DEF InTime
<1>1. /\ now \in Nat /\ lane \in [Lanes -> LaneStates] /\ purge \in PurgeStates
      /\ remote \in [exists : BOOLEAN, modified : Times, fields : Times]
  BY DEF IInv, Typed, Times
<1>2. CASE RemoteEdit
  <2>1. remote'.modified = now + 1 /\ now' = now + 1 /\ UNCHANGED <<lane, purge>>
    BY <1>1, <1>2 DEF RemoteEdit
  <2>2. purge.at = "loaded" => purge.time \in Nat
    BY <1>1 DEF PurgeStates, Idle, Times
  <2> QED
    BY <1>1, <2>1, <2>2
<1>3. CASE RemoteDelete
  BY <1>1, <1>3 DEF RemoteDelete
<1>4. ASSUME NEW e \in Known, UserDelete(e) PROVE InTime'
  <2>1. \A m \in Lanes : SameRead(m)
    BY <1>4, ReadStays DEF UserDelete
  <2>2. purge' = purge \/ (purge'.at = purge.at /\ purge'.time = purge.time)
    BY <1>4 DEF UserDelete, PurgeAfterWrite
  <2> QED
    BY <1>4, <2>1, <2>2 DEF UserDelete, SameRead
<1>5. ASSUME NEW l \in Lanes, Fetch(l) \/ ReadGate(l) \/ LoseRace(l) \/ Rollback(l) \/ Abandon(l)
             \/ InsertEntity(l) \/ KeepEntity(l)
      PROVE  InTime'
  <2>1. lane'[l].at # "resolved" /\ \A m \in Lanes \ {l} : lane'[m] = lane[m]
    BY <1>1, <1>5 DEF Fetch, ReadGate, LoseRace, Rollback, Abandon, InsertEntity, KeepEntity, Idle
  <2>2. UNCHANGED <<now, remote, purge>>
    BY <1>5 DEF Fetch, ReadGate, LoseRace, Rollback, Abandon, InsertEntity, KeepEntity
  <2> QED
    BY <2>1, <2>2
<1>6. ASSUME NEW l \in Lanes, Resolve(l) PROVE InTime'
  <2>1. UNCHANGED <<now, remote, purge>> /\ \A m \in Lanes \ {l} : lane'[m] = lane[m]
    BY <1>1, <1>6 DEF Resolve
  <2>2. lane'[l].saw = lane[l].saw
    BY <1>1, <1>6 DEF Resolve
  <2>3. ASSUME lane[l].saw # {} PROVE lane'[l].entity # NoEntity
    <3>1. Candidates(lane[l].saw) # {} /\ Candidates(lane[l].saw) \subseteq Known
      BY <1>6, <2>3 DEF Candidates, Resolve, IInv, LaneHolds, Linked
    <3>2. lane'[l].entity \in Candidates(lane[l].saw)
      BY <1>1, <1>6, <3>1 DEF Resolve
    <3> QED
      BY <3>1, <3>2, Entities DEF IInv
  <2> QED
    BY <2>1, <2>2, <2>3
<1>7. ASSUME NEW l \in Lanes, UpdateEntity(l) PROVE InTime'
  <2>1. \A m \in Lanes : m = l \/ lane'[m] = LaneAfterWrite(m, lane[l].entity)
    BY <1>7 DEF UpdateEntity
  <2>2. \A m \in Lanes \ {l} : SameRead(m)
    BY <2>1, ReadStays
  <2>3. lane'[l].at # "resolved"
    BY <1>7 DEF UpdateEntity, Idle
  <2>4. purge' = purge \/ (purge'.at = purge.at /\ purge'.time = purge.time)
    BY <1>7 DEF UpdateEntity, PurgeAfterWrite
  <2> QED
    BY <1>7, <2>2, <2>3, <2>4 DEF UpdateEntity, SameRead
<1>8. CASE ScanMisses \/ ConfirmMissing \/ LoadMissing \/ PurgeFails
  <2>1. UNCHANGED <<now, remote, lane>> /\ (purge'.at = "loaded" => purge'.time = now)
    BY <1>8 DEF ScanMisses, ConfirmMissing, LoadMissing, PurgeFails, Idle
  <2> QED
    BY <1>1, <2>1
<1>9. CASE Tombstone
  <2>1. \A m \in Lanes : lane'[m] = lane[m] \/ lane'[m] = LaneAfterWrite(m, purge.entity)
    BY <1>9 DEF Tombstone
  <2>2. \A m \in Lanes : SameRead(m)
    BY <2>1, ReadStays DEF SameRead
  <2> QED
    BY <1>9, <2>2 DEF Tombstone, Idle, SameRead
<1> HIDE DEF InTime
<1> QED
  BY <1>2, <1>3, <1>4, <1>5, <1>6, <1>7, <1>8, <1>9 DEF Next, Apply, Reconcile

LEMMA MirrorInvariance == Spec => []MirrorInv
<1>1. MirrorInv /\ IInv' /\ [Next]_vars => MirrorInv'
  <2> SUFFICES ASSUME MirrorInv, IInv', [Next]_vars PROVE MirrorInv'
    OBVIOUS
  <2>1. CASE Next
    BY <2>1, InTimeStep DEF MirrorInv
  <2>2. CASE UNCHANGED vars
    BY <2>2 DEF vars, MirrorInv, InTime
  <2> QED
    BY <2>1, <2>2
<1>2. IInv /\ InTime => MirrorInv
  BY DEF MirrorInv
<1> QED
  BY <1>1, <1>2, InTimeInit, Invariance, PTL DEF Spec

\* What the record's mirror keeps of the crosswalk row.
Link(r) == [entity |-> r.entity, modified |-> r.modified, fields |-> r.fields, tombstone |-> r.tombstone]
Links == {Link(r) : r \in xref}

LEMMA MirrorInit == Init => Mirror!Init
<1>1. Init => {[entity |-> r.entity, modified |-> r.modified, fields |-> r.fields,
                tombstone |-> r.tombstone] : r \in xref} = {}
  BY DEF Init
<1> QED
  BY <1>1 DEF Init, Mirror!Init

LEMMA MirrorStutters ==
  ASSUME UNCHANGED <<contract, remote, xref, entities>>
  PROVE  UNCHANGED Mirror!vars
BY DEF Mirror!vars

(* The version a lane applies goes forward from what was applied, and the row it
   upserts is the row of the mirror. *)
LEMMA UpsertMirrors ==
  ASSUME MirrorInv, NEW l \in Lanes, Ready(l), GuardPasses(l), NEW e \in EntityIds, xref' = Upserted(l, e),
         NEW v, NEW f, v = lane[l].payload.modified, f = lane[l].payload.fields,
         NEW lifted \in BOOLEAN, lifted = Gate(l).revive
  PROVE  /\ v \in 1 .. remote.modified /\ f \in 1 .. remote.fields
         /\ Mirror!Forward(v, f)
         /\ Links' = {Mirror!Row(e, v, f, lifted)}
         /\ lifted => xref # {} /\ Links # {} /\ ~contract.confirm
<1> USE DEF MirrorInv
<1>1. /\ <<v, f>> \in Stamps /\ v \in Times /\ f \in Times /\ v =< remote.modified
      /\ Shown \in Stamps /\ remote.modified \in Times /\ remote.fields \in Times
  BY Payload DEF Ready, Stamp, Payloads, Stamps, IInv, Typed
<1>2. \A a, b \in Stamps : a[1] =< b[1] => a[2] =< b[2]
  BY DEF IInv, InOrder
<1>3. f =< remote.fields /\ (v = remote.modified => f = remote.fields)
  BY <1>1, <1>2 DEF Shown, Times
<1>4. \A r \in xref : r.modified =< v /\ r.fields =< f /\ (r.modified = v => r.fields = f)
  <2>1. ASSUME NEW r \in xref PROVE r.modified =< v /\ r.fields =< f /\ (r.modified = v => r.fields = f)
    <3>1. r.modified =< v /\ r.fields =< f
      BY UpsertedRow
    <3>2. <<r.modified, r.fields>> \in Stamps /\ r.modified \in Nat /\ r.fields \in Nat
      BY Numbers DEF Stamps, Stamp
    <3> QED
      BY <1>1, <1>2, <3>1, <3>2 DEF Times
  <2> QED
    BY <2>1
<1>5. Mirror!Forward(v, f)
  BY <1>3, <1>4 DEF Mirror!Forward
<1>6. lifted => xref # {} /\ ~contract.confirm
  <2>1. ASSUME lifted PROVE xref # {}
    <3>1. lane[l].saw # {}
      BY <2>1 DEF Gate, Decide
    <3>2. PICK r \in lane[l].saw : r.entity \in Known
      BY <3>1 DEF IInv, LaneHolds, Linked, Ready
    <3> QED
      BY <3>2 DEF IInv, Follows
  <2> QED
    BY <2>1, NoRevival DEF Ready
<1>7. Links' = {Mirror!Row(e, v, f, lifted)}
  <2>1. CASE xref = {}
    BY <2>1 DEF Links, Link, Mirror!Row, Upserted, Never, Mirror!Never
  <2>2. CASE xref # {}
    <3>1. PICK s \in xref : xref = {s}
      BY <2>2 DEF IInv, Typed, One
    <3>2. Links = {Link(s)} /\ Link(s).tombstone = s.tombstone
      BY <3>1 DEF Links, Link
    <3>3. (CHOOSE r \in Links : TRUE).tombstone = s.tombstone
      BY <3>2
    <3> DEFINE p == lane[l].payload
               x == [entity |-> e, modified |-> p.modified, fields |-> p.fields,
                     rawOf |-> IF Gate(l).raw THEN p.modified ELSE s.rawOf,
                     rawRank |-> IF Gate(l).raw THEN p.rank ELSE s.rawRank,
                     tombstone |-> IF Gate(l).revive THEN Never ELSE s.tombstone]
    <3>4. /\ xref' = {x}
          /\ Link(x) = [entity |-> e, modified |-> v, fields |-> f,
                        tombstone |-> IF lifted THEN Never ELSE s.tombstone]
      <4>1. xref' = {x}
        BY <2>2, <3>1 DEF Upserted
      <4> QED
        BY <4>1 DEF Link
    <3> HIDE DEF x
    <3>5. Links' = {[entity |-> e, modified |-> v, fields |-> f,
                     tombstone |-> IF lifted THEN Never ELSE s.tombstone]}
      BY <3>4 DEF Links
    <3> QED
      BY <2>2, <3>2, <3>3, <3>5 DEF Mirror!Row, Links, Link, Never, Mirror!Never
  <2> QED
    BY <2>1, <2>2
<1>8. xref # {} => Links # {}
  BY DEF Links
<1> QED
  BY <1>1, <1>3, <1>5, <1>6, <1>7, <1>8 DEF Times

LEMMA MirrorInsert == ASSUME MirrorInv, NEW l \in Lanes, InsertEntity(l) PROVE Mirror!Next
<1> USE DEF MirrorInv
<1>1. PICK v, f, e : v = lane[l].payload.modified /\ f = lane[l].payload.fields /\ e = Cardinality(Known) + 1
  OBVIOUS
<1>2. /\ Ready(l) /\ GuardPasses(l) /\ lane[l].entity = NoEntity /\ ~EchoTaken(l)
      /\ xref' = Upserted(l, e) /\ UNCHANGED <<contract, remote>>
      /\ entities' = [i \in Known \cup {e} |->
                        IF i = e THEN [fields |-> f, deletedBy |-> "nobody"] ELSE entities[i]]
  BY <1>1 DEF InsertEntity
<1>3. e \in EntityIds /\ e \notin Known /\ NoEntity \notin Known
  BY <1>1, CrosswalkAssumption, Entities DEF InsertEntity, EntityIds, IInv
<1>4. ~ Gate(l).revive
  BY <1>2 DEF InTime, Ready, Gate, Decide
<1>5. /\ v \in 1 .. remote.modified /\ f \in 1 .. remote.fields
      /\ Mirror!Forward(v, f) /\ Links' = {Mirror!Row(e, v, f, FALSE)}
  <2>1. PICK lifted \in BOOLEAN : lifted = Gate(l).revive
    BY DEF Gate, Decide
  <2> QED
    BY <1>1, <1>2, <1>3, <1>4, <2>1, UpsertMirrors
<1>6. Mirror!AloneLive(e)
  BY <1>2, <1>3 DEF Mirror!AloneLive, Mirror!Live, Mirror!Known, EchoTaken, IsLive, Known
<1>7. /\ e = Len(entities) + 1
      /\ entities' = Append(entities, [fields |-> f, deletedBy |-> "nobody"])
  <2>1. PICK k \in 0 .. MaxEntities : entities \in [1 .. k -> EntityRows] /\ Known = 1 .. k /\ e = k + 1
    <3>1. PICK k \in 0 .. MaxEntities : Known = 1 .. k /\ Cardinality(Known) = k
      BY Entities DEF IInv
    <3>2. entities \in [1 .. k -> EntityRows]
      BY <3>1, Entities DEF IInv
    <3> QED
      BY <1>1, <3>1, <3>2
  <2>2. entities \in Seq(EntityRows) /\ Len(entities) = k /\ k \in Nat
    BY <2>1, CrosswalkAssumption
  <2>3. Known \cup {e} = 1 .. (k + 1)
    BY <2>1, <2>2
  <2> QED
    BY <1>2, <2>1, <2>2, <2>3
<1>8. Mirror!Insert(e, v, f)
  BY <1>2, <1>5, <1>6, <1>7 DEF Mirror!Insert, Links, Link
<1> QED
  BY <1>5, <1>7, <1>8 DEF Mirror!Next

LEMMA MirrorUpdate == ASSUME MirrorInv, NEW l \in Lanes, UpdateEntity(l) PROVE Mirror!Next
<1> USE DEF MirrorInv
<1>1. PICK v, f, e : v = lane[l].payload.modified /\ f = lane[l].payload.fields /\ e = lane[l].entity
  OBVIOUS
<1>2. /\ Ready(l) /\ GuardPasses(l) /\ MayFlush(l) /\ ~EchoTaken(l)
      /\ xref' = Upserted(l, e) /\ UNCHANGED <<contract, remote>>
      /\ entities' = [entities EXCEPT ![e] =
                        [fields |-> f, deletedBy |-> IF Gate(l).revive THEN "nobody" ELSE @.deletedBy]]
  BY <1>1 DEF UpdateEntity
<1>3. e \in Known /\ e \in EntityIds /\ entities[e] \in EntityRows
  BY <1>1, <1>2, Loaded, Entities DEF IInv
<1>4. PICK lifted \in BOOLEAN : lifted = Gate(l).revive
  BY DEF Gate, Decide
<1>5. /\ v \in 1 .. remote.modified /\ f \in 1 .. remote.fields
      /\ Mirror!Forward(v, f) /\ Links' = {Mirror!Row(e, v, f, lifted)}
      /\ lifted => xref # {} /\ Links # {} /\ ~contract.confirm
  BY <1>1, <1>2, <1>3, <1>4, UpsertMirrors
<1>6. CASE ~ lifted
  <2>1. entities' = [entities EXCEPT ![e].fields = f]
    BY <1>2, <1>3, <1>4, <1>6 DEF EntityRows
  <2>2. Mirror!Apply(e, v, f)
    BY <1>2, <1>5, <1>6, <2>1 DEF Mirror!Apply, Links, Link
  <2> QED
    BY <1>3, <1>5, <2>2 DEF Mirror!Next, Mirror!Known, Known
<1>7. CASE lifted
  <2>1. entities' = [entities EXCEPT ![e] = [fields |-> f, deletedBy |-> "nobody"]]
    BY <1>2, <1>4, <1>7
  <2>2. Mirror!AloneLive(e)
    BY <1>1, <1>2, <1>4, <1>7 DEF Mirror!AloneLive, Mirror!Live, Mirror!Known, EchoTaken, IsLive, Known
  <2>0. /\ Links' = {Mirror!Row(e, v, f, TRUE)} /\ Mirror!Forward(v, f)
        /\ Links # {} /\ ~contract.confirm
    BY <1>5, <1>7, lifted = TRUE
  <2>3. Mirror!Revive(e, v, f)
    BY <1>2, <2>0, <2>1, <2>2 DEF Mirror!Revive, Mirror!Lifts, Links, Link
  <2> QED
    BY <1>3, <1>5, <2>3 DEF Mirror!Next, Mirror!Known, Known
<1> QED
  BY <1>6, <1>7

LEMMA MirrorKeep == ASSUME MirrorInv, NEW l \in Lanes, KeepEntity(l) PROVE Mirror!Next
<1> USE DEF MirrorInv
<1>1. PICK v, f, e : v = lane[l].payload.modified /\ f = lane[l].payload.fields /\ e = lane[l].entity
  OBVIOUS
<1>2. /\ Ready(l) /\ GuardPasses(l) /\ MayStayClean(l)
      /\ xref' = Upserted(l, e) /\ UNCHANGED <<contract, remote, entities>>
  BY <1>1 DEF KeepEntity
<1>3. e \in Known /\ e \in EntityIds /\ entities[e] \in EntityRows
  BY <1>1, <1>2, Loaded, Entities DEF IInv
<1>4. PICK lifted \in BOOLEAN : lifted = Gate(l).revive
  BY DEF Gate, Decide
<1>5. /\ v \in 1 .. remote.modified /\ f \in 1 .. remote.fields
      /\ Mirror!Forward(v, f) /\ Links' = {Mirror!Row(e, v, f, lifted)}
      /\ lifted => xref # {} /\ Links # {} /\ ~contract.confirm
  BY <1>1, <1>2, <1>3, <1>4, UpsertMirrors
<1>6. entities[e].fields = f
  BY <1>1, <1>2, CleanShows
<1>7. entities' = [entities EXCEPT ![e].fields = f]
  <2>2. [entities[e] EXCEPT !.fields = f] = entities[e]
    BY <1>3, <1>6 DEF EntityRows
  <2>3. entities = [x \in Known |-> entities[x]]
    BY Entities DEF IInv
  <2> QED
    BY <1>2, <1>3, <2>2, <2>3 DEF Known
<1>8. CASE ~ lifted
  <2>1. Mirror!Apply(e, v, f)
    BY <1>2, <1>5, <1>7, <1>8 DEF Mirror!Apply, Links, Link
  <2> QED
    BY <1>3, <1>5, <2>1 DEF Mirror!Next, Mirror!Known, Known
<1>9. CASE lifted
  <2>0. /\ Links' = {Mirror!Row(e, v, f, TRUE)} /\ Mirror!Forward(v, f)
        /\ Links # {} /\ ~contract.confirm
    BY <1>5, <1>9, lifted = TRUE
  <2>1. Mirror!Lift(e, v, f)
    BY <1>2, <1>7, <2>0 DEF Mirror!Lift, Mirror!Lifts, Links, Link
  <2> QED
    BY <1>3, <1>5, <2>1 DEF Mirror!Next, Mirror!Known, Known
<1> QED
  BY <1>8, <1>9

LEMMA MirrorBury == ASSUME MirrorInv, Tombstone PROVE Mirror!Next
<1> USE DEF MirrorInv
<1>1. PICK e, t : e = purge.entity /\ t = purge.time
  OBVIOUS
<1>2. /\ purge.at = "loaded" /\ UNCHANGED <<contract, remote>>
      /\ \/ /\ purge.row.deletedBy = "nobody" /\ purge.current
            /\ entities' = [entities EXCEPT ![e].deletedBy = "sync"]
         \/ purge.row.deletedBy # "nobody" /\ UNCHANGED entities
      /\ xref' = {[r EXCEPT !.tombstone = IF @ = Never THEN t ELSE @] : r \in xref}
  BY <1>1 DEF Tombstone
<1>3. e \in Known /\ xref # {} /\ t \in 1 .. remote.modified
  <2>1. t \in Times /\ t =< remote.modified /\ remote.modified \in Times
    BY <1>1, <1>2 DEF InTime, IInv, Typed, PurgeStates, Idle
  <2>2. e \in Known
    BY <1>1, <1>2 DEF IInv, PurgeHolds
  <2> QED
    BY <2>1, <2>2 DEF Times, IInv, Follows
<1>4. contract.confirm => ~remote.exists /\ t = remote.modified
  <2>1. remote.modified \in Nat
    BY DEF IInv, Typed, Times
  <2>2. contract.confirm => ~remote.exists /\ remote.modified =< t
    BY <1>1, <1>2 DEF IInv, PurgeHolds
  <2> QED
    BY <1>3, <2>1, <2>2
<1>5. \/ IsLive(e) /\ entities' = [entities EXCEPT ![e].deletedBy = "sync"]
      \/ (contract.confirm => ~IsLive(e)) /\ UNCHANGED entities
  BY <1>1, <1>2 DEF IInv, PurgeHolds, IsLive
<1>6. Links' = {[r EXCEPT !.tombstone = IF @ = Never THEN t ELSE @] : r \in Links}
  <2>1. PICK s \in xref : xref = {s}
    BY <1>3 DEF IInv, Typed, One
  <2>2. s \in Rows
    BY DEF IInv, Typed
  <2>3. xref' = {[s EXCEPT !.tombstone = IF @ = Never THEN t ELSE @]}
    BY <1>2, <2>1
  <2>4. Link([s EXCEPT !.tombstone = IF @ = Never THEN t ELSE @])
          = [Link(s) EXCEPT !.tombstone = IF @ = Never THEN t ELSE @]
    BY <2>2 DEF Link, Rows
  <2>5. Links = {Link(s)} /\ Links' = {Link([s EXCEPT !.tombstone = IF @ = Never THEN t ELSE @])}
    BY <2>1, <2>3 DEF Links
  <2> QED
    BY <2>4, <2>5
<1>7. Mirror!Bury(e, t)
  BY <1>2, <1>3, <1>4, <1>5, <1>6 DEF Mirror!Bury, Mirror!Live, IsLive, Links, Link, Never, Mirror!Never
<1> QED
  BY <1>3, <1>7 DEF Mirror!Next, Mirror!Known, Known

LEMMA MirrorStep == ASSUME MirrorInv, Next PROVE [Mirror!Next]_Mirror!vars
<1> USE DEF MirrorInv
<1>1. CASE RemoteEdit
  <2>1. PICK fields \in {remote.fields, now + 1} :
          remote' = [remote EXCEPT !.modified = now + 1, !.fields = fields]
    BY <1>1 DEF RemoteEdit
  <2>2. Mirror!Edit
    BY <1>1, <2>1 DEF RemoteEdit, Mirror!Edit, InTime
  <2> QED
    BY <2>2 DEF Mirror!Next
<1>2. CASE RemoteDelete
  <2>1. Mirror!Delete
    BY <1>2 DEF RemoteDelete, Mirror!Delete
  <2> QED
    BY <2>1 DEF Mirror!Next
<1>3. ASSUME NEW e \in Known, UserDelete(e) PROVE Mirror!Next
  <2>1. Mirror!UserDelete(e)
    BY <1>3 DEF UserDelete, Mirror!UserDelete, Mirror!Live, IsLive
  <2> QED
    BY <2>1 DEF Mirror!Next, Mirror!Known, Known
<1>4. ASSUME NEW l \in Lanes,
             Fetch(l) \/ ReadGate(l) \/ Resolve(l) \/ LoseRace(l) \/ Rollback(l) \/ Abandon(l)
      PROVE  UNCHANGED Mirror!vars
  BY <1>4, MirrorStutters DEF Fetch, ReadGate, Resolve, LoseRace, Rollback, Abandon
<1>5. CASE ScanMisses \/ ConfirmMissing \/ LoadMissing \/ PurgeFails
  BY <1>5, MirrorStutters DEF ScanMisses, ConfirmMissing, LoadMissing, PurgeFails
<1> HIDE DEF MirrorInv
<1> QED
  BY <1>1, <1>2, <1>3, <1>4, <1>5, MirrorInsert, MirrorUpdate, MirrorKeep, MirrorBury
  DEF Next, Apply, Reconcile

(* Crosswalk implements RecordMirror: although lanes and reconciliations decide on what
   they read long before, the rows are as if each had read and written at once.   *)
THEOREM CrosswalkMirrors == Spec => MirrorsTheRecord
<1>1. MirrorInv /\ [Next]_vars => [Mirror!Next]_Mirror!vars
  <2> SUFFICES ASSUME MirrorInv, [Next]_vars PROVE [Mirror!Next]_Mirror!vars
    OBVIOUS
  <2>1. CASE UNCHANGED vars
    BY <2>1, MirrorStutters DEF vars
  <2> QED
    BY <2>1, MirrorStep
<1> QED
  BY <1>1, MirrorInit, MirrorInvariance, PTL DEF Spec, MirrorsTheRecord, Mirror!Spec
=============================================================================
