------------------------------- MODULE OrgTree -------------------------------
(***************************************************************************)
(* A tree of an organization - its departments, team types or teams        *)
(* (modules/teams/service.py over common/tree.py) - and the requests that  *)
(* create, rename, move and delete its nodes, several at once.             *)
(*                                                                         *)
(* A request loads the row it changes and the new parent, decides on them, *)
(* flushes its row (row_version compared), and only then takes the tree's  *)
(* advisory lock, lays out the whole tree and writes the bounds that       *)
(* differ.  What it has loaded it does not load again: in the layout those *)
(* two rows are what they were at first, all others as committed.  Bounds  *)
(* are written without moving a row_version.                               *)
(***************************************************************************)
EXTENDS Naturals, Sequences, FiniteSetsExt

CONSTANTS
  Editors,  \* requests in flight
  Size,     \* bound: rows of the tree; ids order the siblings
  top       \* parent_id NULL

ASSUME OrgTreeAssumption == Size \in Nat \ {0} /\ top \notin 1 .. Size

VARIABLES
  node,     \* each row: is it there or deleted
  parent,   \* parent_id
  bounds,   \* <<_lft, _rgt>>
  edit,     \* what each request is doing
  late,     \* the requests whose row has a new row_version since they loaded it
  fresh     \* history: what the last layout had loaded before was still so

orgTreeVars == <<node, parent, bounds, edit, late, fresh>>

Ids == 1 .. Size
LiveNodes == {x \in Ids : node[x] = "live"}

-----------------------------------------------------------------------------
(* recompute_bounds(). *)

\* _children_map(): a parent that is not there makes a root.
Children(rows, p, x) == {y \in rows : p[y] = x}
Roots(rows, p) == {y \in rows : p[y] \notin rows}

\* The steps of the walk: each row as it is entered and left, siblings by id.
\* left are the rows that have not been entered yet.
Walks(rows, p) ==
  LET walk[t \in (SUBSET rows) \X (SUBSET rows)] ==
        LET left == t[1]
            siblings == t[2] \intersect left
            x == Min(siblings)
            rest == left \ {x}
        IN  IF siblings = {} THEN <<>>
            ELSE <<x>> \o walk[<<rest, Children(rest, p, x)>>]
                   \o <<x>> \o walk[<<rest, siblings \ {x}>>]
  IN  walk
Walk(rows, p) == Walks(rows, p)[<<rows, Roots(rows, p)>>]

\* No TreeError: every row is visited.
IsForest(rows, walk) == rows \subseteq {walk[i] : i \in DOMAIN walk}

Layout(rows, walk) ==
  [x \in rows |-> LET steps == {i \in DOMAIN walk : walk[i] = x} IN <<Min(steps), Max(steps)>>]

-----------------------------------------------------------------------------
\* A row as a request has loaded it.
Copy(x) == [is |-> node[x], parent |-> parent[x], bounds |-> bounds[x]]
NoEdit == [op |-> "none", row |-> top, to |-> top, was |-> <<>>]

OrgTreeTypeOK ==
  /\ node \in [Ids -> {"absent", "live", "deleted"}]
  /\ parent \in [Ids -> Ids \union {top}]
  /\ bounds \in [Ids -> (0 .. 2 * Size) \X (0 .. 2 * Size)]
  /\ \A e \in Editors :
       /\ edit[e].op \in {"none", "create", "rename", "move", "delete"}
       /\ edit[e].row \in Ids \union {top} /\ edit[e].to \in Ids \union {top}
       /\ DOMAIN edit[e].was \subseteq Ids
  /\ late \in SUBSET Editors /\ fresh \in BOOLEAN

OrgTreeInit ==
  /\ node = [x \in Ids |-> "absent"] /\ parent = [x \in Ids |-> top]
  /\ bounds = [x \in Ids |-> <<0, 0>>]
  /\ edit = [e \in Editors |-> NoEdit] /\ late = {} /\ fresh = TRUE

\* The request has loaded the rows xs.
Loads(e, op, x, to, xs) ==
  /\ edit[e] = NoEdit
  /\ edit' = [edit EXCEPT ![e] = [op |-> op, row |-> x, to |-> to,
                                  was |-> [y \in xs |-> Copy(y)]]]
  /\ UNCHANGED <<node, parent, bounds, late, fresh>>

\* create_department(), and the like: the parent is loaded.
BeginCreate(e, x, to) ==
  /\ node[x] = "absent" /\ \A f \in Editors : edit[f].row # x
  /\ to \in LiveNodes \union {top}
  /\ Loads(e, "create", x, to, {to} \ {top})

\* update_department() of the code or the position.
BeginRename(e, x) == x \in LiveNodes /\ Loads(e, "rename", x, parent[x], {x})

\* _refuse_cycle(), by the bounds of the two rows.
NoCycle(x, to) ==
  to # top => x # to /\ ~(bounds[x][1] <= bounds[to][1] /\ bounds[to][2] <= bounds[x][2])

\* move_department().
BeginMove(e, x, to) ==
  /\ x \in LiveNodes /\ to \in LiveNodes \union {top} /\ to # parent[x]
  /\ NoCycle(x, to)
  /\ Loads(e, "move", x, to, {x, to} \ {top})

\* delete_department() of a leaf.
BeginDelete(e, x) ==
  /\ x \in LiveNodes /\ \A y \in LiveNodes : parent[y] # x
  /\ Loads(e, "delete", x, parent[x], {x})

\* What the layout of e sees of x: its own change, its copies, the rest as committed.
SeenNode(e, x) ==
  IF x # edit[e].row THEN node[x] ELSE IF edit[e].op = "delete" THEN "deleted" ELSE "live"
SeenParent(e, x) ==
  CASE x = edit[e].row -> edit[e].to
    [] x # edit[e].row /\ x \in DOMAIN edit[e].was -> edit[e].was[x].parent
    [] OTHER -> parent[x]
SeenBounds(e, x) == IF x \in DOMAIN edit[e].was THEN edit[e].was[x].bounds ELSE bounds[x]
SeenRows(e) == {x \in Ids : SeenNode(e, x) = "live"}

\* Mutant: the bounds of the request's own row alone are written.
OwnRow(e, new) == {edit[e].row} \intersect DOMAIN new
\* The rows whose loaded bounds are not those of the layout.
Changed(e, new) == {x \in DOMAIN new : SeenBounds(e, x) # new[x]}

\* The UPDATE of the row compares the row_version.
RowCurrent(e) == e \notin late

\* The flush of the row, _recompute() under the advisory lock, the commit.  From
\* the flush on the row is locked; two requests that wait for each other's row
\* and lock are a RollBackEdit of one.  What is left in a deleted row is read by
\* nobody, and dropped here.
Recompute(e) ==
  LET t == edit[e]
      rows == SeenRows(e)
      walk == Walk(rows, [x \in rows |-> SeenParent(e, x)])
  IN  /\ t.op # "none" /\ RowCurrent(e)
      /\ IsForest(rows, walk)
      /\ LET new == Layout(rows, walk)
             changed == Changed(e, new)
         IN  bounds' = [x \in Ids |-> CASE x \in changed -> new[x]
                                      [] x \notin rows -> <<0, 0>>
                                      [] OTHER -> bounds[x]]
      /\ node' = [x \in Ids |-> SeenNode(e, x)]
      /\ parent' = [parent EXCEPT ![t.row] = IF t.op = "delete" THEN top ELSE t.to]
      /\ fresh' = \A x \in DOMAIN t.was : t.was[x] = Copy(x)
      /\ edit' = [edit EXCEPT ![e] = NoEdit]
      /\ late' = (late \union {f \in Editors : edit[f].row = t.row}) \ {e}

\* A TreeError, a stale row, a deadlock, a lost connection.
RollBackEdit(e) ==
  /\ edit[e] # NoEdit
  /\ edit' = [edit EXCEPT ![e] = NoEdit]
  /\ late' = late \ {e}
  /\ UNCHANGED <<node, parent, bounds, fresh>>

OrgTreeNext ==
  \E e \in Editors :
    \/ Recompute(e) \/ RollBackEdit(e)
    \/ \E x \in Ids : BeginRename(e, x) \/ BeginDelete(e, x)
    \/ \E x \in Ids, to \in Ids \union {top} : BeginCreate(e, x, to) \/ BeginMove(e, x, to)

OrgTreeSpec == OrgTreeInit /\ [][OrgTreeNext]_orgTreeVars

-----------------------------------------------------------------------------
(* Properties. *)

\* The bounds of y lie within those of x.
Encloses(b, x, y) == b[x][1] < b[y][1] /\ b[y][2] < b[x][2]

\* A nested set: the numbers are used once each, and a row encloses those below
\* it and no others.
NestedSet(rows, p, b) ==
  /\ UNION {{b[x][1], b[x][2]} : x \in rows} = 1 .. 2 * Cardinality(rows)
  /\ \A x \in rows : b[x][1] < b[x][2]
  /\ \A x, y \in rows :
       Encloses(b, x, y) <=> p[y] \in rows /\ (x = p[y] \/ Encloses(b, x, p[y]))

(* tree.py:6-8, "a full recompute under a per-tree advisory lock ... is provably
   correct": as long as the rows the last request had loaded before it held the
   lock were still so, the bounds are a nested set of the tree that the parents
   give - whatever earlier requests with stale rows have written.            *)
BoundsAreTheTree == fresh => NestedSet(LiveNodes, parent, bounds)
=============================================================================
