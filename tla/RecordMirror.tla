----------------------------- MODULE RecordMirror -----------------------------
(***************************************************************************)
(* What the sync promises of one Zoho record, and nothing of how: the      *)
(* crosswalk row and the entity rows as if each page, each tombstone and   *)
(* each delete took effect at once, on the rows as they are at that moment *)
(* (engine.py, _apply_crosswalk and _tombstone_crosswalk: "written         *)
(* together or not at all").  A payload is applied only if it is no older  *)
(* than what was applied, to the row and its entity together; where a      *)
(* detail call confirms deletions only what Zoho no longer has is          *)
(* tombstoned, for good, and nobody revives an entity.  Crosswalk.tla      *)
(* (lanes that decide on what they read long before) implements it.        *)
(***************************************************************************)
EXTENDS Naturals, Sequences

VARIABLES
  contract,  \* the module's contract
  remote,    \* the record in Zoho
  xref,      \* the crosswalk row: an empty set, or the one row (raw document left out)
  entities   \* the rows of the entity table made for this record, in the order of their ids

vars == <<contract, remote, xref, entities>>

Never == 0
Known == DOMAIN entities
Live(e) == entities[e].deletedBy = "nobody"

Init ==
  /\ contract \in [echo: BOOLEAN, confirm: BOOLEAN]
  /\ remote = [exists |-> TRUE, modified |-> 1, fields |-> 1]
  /\ xref = {} /\ entities = <<>>

-----------------------------------------------------------------------------
Edit ==
  /\ remote.exists
  /\ \E fields \in {remote.fields, remote.modified + 1} :
       remote' = [remote EXCEPT !.modified = @ + 1, !.fields = fields]
  /\ UNCHANGED <<contract, xref, entities>>

Delete ==
  /\ remote.exists
  /\ remote' = [remote EXCEPT !.exists = FALSE]
  /\ UNCHANGED <<contract, xref, entities>>

UserDelete(e) ==
  /\ Live(e)
  /\ entities' = [entities EXCEPT ![e].deletedBy = "user"]
  /\ UNCHANGED <<contract, remote, xref>>

\* Version v, which shows the columns f, goes forward from what was applied.
Forward(v, f) ==
  /\ v = remote.modified => f = remote.fields
  /\ \A r \in xref : r.modified =< v /\ r.fields =< f /\ (r.modified = v => r.fields = f)

\* The row after version v of entity e was applied; its tombstone stays or is lifted.
Row(e, v, f, lifted) ==
  [entity |-> e, modified |-> v, fields |-> f,
   tombstone |-> IF lifted \/ xref = {} THEN Never ELSE (CHOOSE r \in xref : TRUE).tombstone]

AloneLive(e) == contract.echo => \A d \in Known \ {e} : ~Live(d)

\* The record, or a lane that found no row to match, makes a new entity.
Insert(e, v, f) ==
  /\ e = Len(entities) + 1
  /\ Forward(v, f) /\ AloneLive(e)
  /\ entities' = Append(entities, [fields |-> f, deletedBy |-> "nobody"])
  /\ xref' = {Row(e, v, f, FALSE)}
  /\ UNCHANGED <<contract, remote>>

Apply(e, v, f) ==
  /\ Forward(v, f)
  /\ entities' = [entities EXCEPT ![e].fields = f]
  /\ xref' = {Row(e, v, f, FALSE)}
  /\ UNCHANGED <<contract, remote>>

\* Where deletions are not confirmed a version may lift the tombstone, ...
Lifts(e, v, f) ==
  /\ ~contract.confirm /\ xref # {}
  /\ Forward(v, f)
  /\ xref' = {Row(e, v, f, TRUE)}
  /\ UNCHANGED <<contract, remote>>

\* ... and revive its entity, ...
Revive(e, v, f) ==
  /\ Lifts(e, v, f) /\ AloneLive(e)
  /\ entities' = [entities EXCEPT ![e] = [fields |-> f, deletedBy |-> "nobody"]]

\* ... or not, when the lane had loaded it live and it was deleted meanwhile.
Lift(e, v, f) ==
  /\ Lifts(e, v, f)
  /\ entities' = [entities EXCEPT ![e].fields = f]

\* Both sides are tombstoned at t, the fence unless it is there already.
Bury(e, t) ==
  /\ xref # {}
  /\ contract.confirm => ~remote.exists /\ t = remote.modified
  /\ \/ Live(e) /\ entities' = [entities EXCEPT ![e].deletedBy = "sync"]
     \/ (contract.confirm => ~Live(e)) /\ UNCHANGED entities
  /\ xref' = {[r EXCEPT !.tombstone = IF @ = Never THEN t ELSE @] : r \in xref}
  /\ UNCHANGED <<contract, remote>>

Next ==
  \/ Edit \/ Delete
  \/ \E e \in Known : UserDelete(e)
  \/ \E v \in 1 .. remote.modified : \E f \in 1 .. remote.fields :
       \/ Insert(Len(entities) + 1, v, f)
       \/ \E e \in Known : Apply(e, v, f) \/ Revive(e, v, f) \/ Lift(e, v, f)
  \/ \E e \in Known, t \in 1 .. remote.modified : Bury(e, t)

Spec == Init /\ [][Next]_vars
=============================================================================
