------------------------------- MODULE OrgMoves -------------------------------
(***************************************************************************)
(* The organizations of one tenant (modules/organizations/service.py): who *)
(* is under whom, the path each row carries, and the requests that create, *)
(* move, archive and delete organizations, several at once.                *)
(*                                                                         *)
(* A request reads its row and its new parent, or its children, and then   *)
(* writes: its own row, whose row_version is compared, and for a move all  *)
(* rows below it in one UPDATE.  The writes of a request hold their rows   *)
(* until it commits, so they are one step.  The parent, or the absence of  *)
(* children, is not looked at again.                                       *)
(*                                                                         *)
(* All organizations here may be under one another and at the root, as     *)
(* holdings may; where the types forbid a place, fewer moves remain.       *)
(***************************************************************************)
EXTENDS Naturals, Sequences, SequencesExt

CONSTANTS
  Movers,   \* requests in flight
  Orgs,     \* rows of organizations, by uuid
  root      \* no parent

ASSUME OrgMovesAssumption == root \notin Orgs

VARIABLES
  org,      \* status of each row; suspended counts as open
  above,    \* parent_id
  path,     \* hierarchy_path, root first, the row itself last
  move,     \* what each request has read and is about to write
  stale,    \* the requests whose row has a new row_version since they read it
  torn      \* history: a request wrote although what it had read had changed

orgVars == <<org, above, path, move, stale, torn>>

Live == {n \in Orgs : org[n] \in {"open", "archived"}}
Children(n) == {m \in Live : above[m] = n}
NoMove == [op |-> "none", row |-> root, to |-> root, path |-> <<>>, children |-> {}]

OrgMovesTypeOK ==
  /\ org \in [Orgs -> {"absent", "open", "archived", "deleted"}]
  /\ above \in [Orgs -> Orgs \union {root}]
  /\ \A n \in Orgs : path[n] \in Seq(Orgs)
  /\ move \in [Movers -> [op : {"none", "create", "move", "archive", "delete"},
                          row : Orgs \union {root}, to : Orgs \union {root},
                          path : Seq(Orgs), children : SUBSET Orgs]]
  /\ stale \in SUBSET Movers /\ torn \in BOOLEAN

OrgMovesInit ==
  /\ org = [n \in Orgs |-> "absent"] /\ above = [n \in Orgs |-> root]
  /\ path = [n \in Orgs |-> <<>>]
  /\ move = [r \in Movers |-> NoMove]
  /\ stale = {} /\ torn = FALSE

\* Mutant: the root is part of a path.
RootedPath(p) == IF p = root THEN <<root>> ELSE path[p]

PathOf(p) == IF p = root THEN <<>> ELSE path[p]

\* _resolve_parent(), _check_placement()
OpenParent(p) == p = root \/ (p \in Orgs /\ org[p] = "open")

-----------------------------------------------------------------------------
(* What a request reads and decides. *)

Prepare(r, q) ==
  /\ move[r] = NoMove
  /\ move' = [move EXCEPT ![r] = q]
  /\ UNCHANGED <<org, above, path, stale, torn>>

DecideCreate(r, n, p) ==
  /\ org[n] = "absent" /\ \A x \in Movers : move[x].row # n
  /\ OpenParent(p)
  /\ Prepare(r, [NoMove EXCEPT !.op = "create", !.row = n, !.to = p, !.path = PathOf(p)])

\* "An organization cannot be moved under itself or one of its descendants".
NotBelow(n, p) == p # root => ~IsPrefix(path[n], path[p])

DecideMove(r, n, p) ==
  /\ n \in Live /\ OpenParent(p)
  /\ NotBelow(n, p) /\ p # above[n]
  /\ Prepare(r, [NoMove EXCEPT !.op = "move", !.row = n, !.to = p, !.path = PathOf(p)])

DecideArchive(r, n) ==
  /\ org[n] = "open" /\ \A m \in Children(n) : org[m] # "open"
  /\ Prepare(r, [NoMove EXCEPT !.op = "archive", !.row = n])

DecideDelete(r, n) ==
  /\ n \in Live /\ Children(n) = {}
  /\ Prepare(r, [NoMove EXCEPT !.op = "delete", !.row = n, !.children = Children(n)])

-----------------------------------------------------------------------------
(* What it writes. *)

\* Mutant: archived organizations stay behind.
OpenBelow(n) == {m \in Orgs \ {n} : org[m] = "open" /\ IsPrefix(path[n], path[m])}

\* The UPDATE of a move: every row whose path begins with the old one.
Descendants(n) == {m \in Orgs \ {n} : org[m] # "absent" /\ IsPrefix(path[n], path[m])}

Moved(n, new) ==
  [m \in Orgs |-> IF m = n THEN new
                  ELSE IF m \in Descendants(n) THEN new \o SubSeq(path[m], Len(path[n]) + 1, Len(path[m]))
                  ELSE path[m]]

\* What request q has read and does not read again is no longer so.
Torn(q) ==
  \/ q.op \in {"create", "move"} /\ ~(OpenParent(q.to) /\ PathOf(q.to) = q.path)
  \/ q.op = "delete" /\ Children(q.row) # q.children

Writes(r, touched) ==
  /\ move' = [move EXCEPT ![r] = NoMove]
  /\ stale' = (stale \union {x \in Movers : move[x].row \in touched}) \ {r}
  /\ torn' = (torn \/ Torn(move[r]))

Create(r) ==
  LET q == move[r] IN
  /\ q.op = "create"
  /\ org' = [org EXCEPT ![q.row] = "open"]
  /\ above' = [above EXCEPT ![q.row] = q.to]
  /\ path' = [path EXCEPT ![q.row] = Append(q.path, q.row)]
  /\ Writes(r, {q.row})

Move(r) ==
  LET q == move[r] IN
  /\ q.op = "move" /\ r \notin stale
  /\ above' = [above EXCEPT ![q.row] = q.to]
  /\ path' = Moved(q.row, Append(q.path, q.row))
  /\ Writes(r, {q.row} \union Descendants(q.row))
  /\ UNCHANGED org

ChangeStatus(r) ==
  LET q == move[r] IN
  /\ q.op \in {"archive", "delete"} /\ r \notin stale
  /\ org' = [org EXCEPT ![q.row] = IF q.op = "archive" THEN "archived" ELSE "deleted"]
  /\ Writes(r, {q.row})
  /\ UNCHANGED <<above, path>>

\* change_status() to active or suspended reads nothing but the row.
Reopen(n) ==
  /\ org[n] = "archived"
  /\ org' = [org EXCEPT ![n] = "open"]
  /\ stale' = stale \union {x \in Movers : move[x].row = n}
  /\ UNCHANGED <<above, path, move, torn>>

\* StaleDataError, or any other failure.
GiveUp(r) ==
  /\ move[r] # NoMove
  /\ move' = [move EXCEPT ![r] = NoMove] /\ stale' = stale \ {r}
  /\ UNCHANGED <<org, above, path, torn>>

OrgMovesNext ==
  \/ \E n \in Orgs : Reopen(n)
  \/ \E r \in Movers :
       \/ \E n \in Orgs :
            \/ DecideArchive(r, n) \/ DecideDelete(r, n)
            \/ \E p \in Orgs \union {root} : DecideCreate(r, n, p) \/ DecideMove(r, n, p)
       \/ Create(r) \/ Move(r) \/ ChangeStatus(r) \/ GiveUp(r)

OrgMovesSpec == OrgMovesInit /\ [][OrgMovesNext]_orgVars

-----------------------------------------------------------------------------
(* Properties. *)

(* organizations/service.py: "hierarchy_path includes the node itself; moving a
   node rewrites the path and depth of its whole subtree", delete "only a
   leaf".  Unless a request wrote on a parent, or a lack of children, that had
   changed since it read it, every live organization is under a live one or at
   the root, and its path is its parent's and itself, so "no cycles" holds.  *)
PathsAreTheTree ==
  ~torn => \A n \in Live :
    /\ above[n] \in Live \union {root}
    /\ path[n] = Append(PathOf(above[n]), n)
=============================================================================
