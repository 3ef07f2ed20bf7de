-------------------------------- MODULE Owners --------------------------------
(***************************************************************************)
(* The owners of one organization: the guardrail of modules/rbac/          *)
(* service.py, ensure_not_last_owner(), and the requests it guards - the   *)
(* revocation of a grant, a new base role, a ban, a deactivation, a        *)
(* deletion - next to those that make owners.                              *)
(*                                                                         *)
(* A guarded request counts the owners, then writes the one row it is      *)
(* about: a user, or a grant.  That row's row_version is compared; the     *)
(* rows of the other owners are only counted.                              *)
(***************************************************************************)
EXTENDS Naturals, FiniteSets

CONSTANTS
  Removals,  \* guarded requests in flight
  Locals,    \* users of the organization
  founder,   \* its first owner
  Outsiders, \* users of other organizations of the tenant
  Reaches,   \* what a grant may be worth: subset of {"whole", "partial"}
  noUser     \* no user

ASSUME OwnersAssumption ==
  /\ founder \in Locals /\ IsFiniteSet(Locals \union Outsiders)
  /\ noUser \notin Locals \union Outsiders /\ Locals \intersect Outsiders = {}
  /\ Reaches \subseteq {"whole", "partial"}

VARIABLES
  base,     \* users whose base role is the organization's owner role
  grant,    \* the open grant of that role each user has: none, "whole", or
            \* "partial" - not yet in force, or for a part of the organization
  active,   \* users neither banned nor deactivated nor deleted
  removal,  \* what each guarded request has been allowed to write
  superseded, \* the requests whose row has a new row_version since they read it
  shifted,  \* history: the requests in whose time the owners changed
  emptied   \* history: why the organization has no owner

ownerVars == <<base, grant, active, removal, superseded, shifted, emptied>>

Users == Locals \union Outsiders
NoRemoval == [op |-> "none", user |-> noUser]

OwnersTypeOK ==
  /\ base \in SUBSET Locals /\ active \in SUBSET Users
  /\ grant \in [Users -> Reaches \union {"none"}]
  /\ removal \in [Removals -> [op : {"none", "bar", "demote", "revoke"},
                               user : Users \union {noUser}]]
  /\ superseded \in SUBSET Removals /\ shifted \in SUBSET Removals
  /\ emptied \in SUBSET {"overlap", "outsider", "partial"}

\* A bootstrapped organization has one owner.
OwnersInit ==
  /\ base = {founder}
  /\ grant = [u \in Users |-> "none"] /\ active = Users
  /\ removal = [r \in Removals |-> NoRemoval]
  /\ superseded = {} /\ shifted = {} /\ emptied = {}

\* owners_of(): neither the scope nor the start of a grant is looked at.
OwnersOf == {u \in active : u \in base \/ grant[u] # "none"}

\* Those who can act as owner of the organization.
ActingOwners == {u \in active : u \in base \/ grant[u] = "whole"}

\* The row a request writes.
Row(q) == <<q.op = "revoke", q.user>>
InFlight == {r \in Removals : removal[r].op # "none"}
Outdates(row) == superseded' = superseded \union {r \in InFlight : Row(removal[r]) = row}

-----------------------------------------------------------------------------
(* The guarded requests. *)

\* Mutant: the last owner may be removed.
Unguarded(u) == TRUE

\* ensure_not_last_owner() looks at the user's own organization; what another
\* organization answers for an outsider is not known here.
NotLastOwner(u) == u \in Outsiders \/ u \notin OwnersOf \/ Cardinality(OwnersOf) > 1

Begin(r, op, u) ==
  /\ removal[r] = NoRemoval
  /\ \/ op = "bar" /\ u \in active
     \/ op = "demote" /\ u \in base
     \/ op = "revoke" /\ grant[u] # "none"
  /\ NotLastOwner(u)
  /\ removal' = [removal EXCEPT ![r] = [op |-> op, user |-> u]]
  /\ UNCHANGED <<base, grant, active, superseded, shifted, emptied>>

\* What can have gone wrong when request r leaves no owner.
Cause(r) ==
  (IF r \in shifted THEN {"overlap"} ELSE {})
  \union (IF removal[r].user \in Outsiders THEN {"outsider"} ELSE {})
  \union (IF OwnersOf' # {} THEN {"partial"} ELSE {})

Withdraw(r) ==
  LET q == removal[r] IN
  /\ q.op # "none" /\ r \notin superseded
  /\ active' = IF q.op = "bar" THEN active \ {q.user} ELSE active
  /\ base' = IF q.op = "demote" THEN base \ {q.user} ELSE base
  /\ grant' = IF q.op = "revoke" THEN [grant EXCEPT ![q.user] = "none"] ELSE grant
  /\ removal' = [removal EXCEPT ![r] = NoRemoval]
  /\ superseded' = {x \in InFlight \ {r} : x \in superseded \/ Row(removal[x]) = Row(q)}
  /\ shifted' = (IF OwnersOf' = OwnersOf THEN shifted ELSE InFlight) \ {r}
  /\ emptied' = IF ActingOwners' # {} THEN {} ELSE IF ActingOwners = {} THEN emptied ELSE Cause(r)

\* StaleDataError, or any other failure.
RollBack(r) ==
  /\ removal[r].op # "none"
  /\ removal' = [removal EXCEPT ![r] = NoRemoval]
  /\ superseded' = superseded \ {r} /\ shifted' = shifted \ {r}
  /\ UNCHANGED <<base, grant, active, emptied>>

-----------------------------------------------------------------------------
(* What makes owners: nothing but its own row is read. *)

MadeOwner ==
  /\ shifted' = IF OwnersOf' = OwnersOf THEN shifted ELSE InFlight
  /\ emptied' = IF ActingOwners' # {} THEN {} ELSE emptied

\* assign_role()
Assign(u, reach) ==
  /\ grant[u] = "none"
  /\ grant' = [grant EXCEPT ![u] = reach]
  /\ UNCHANGED <<base, active, removal, superseded>> /\ MadeOwner

\* valid_from has come: no row is written.
GrantStarts(u) ==
  /\ grant[u] = "partial" /\ "whole" \in Reaches
  /\ grant' = [grant EXCEPT ![u] = "whole"]
  /\ UNCHANGED <<base, active, removal, superseded>> /\ MadeOwner

\* set_base_role() to owner
Promote(u) ==
  /\ u \in Locals \ base
  /\ base' = base \union {u}
  /\ Outdates(<<FALSE, u>>)
  /\ UNCHANGED <<grant, active, removal>> /\ MadeOwner

\* unban_user(), restore_user(), update_user() of is_deactivated
Readmit(u) ==
  /\ u \in Users \ active
  /\ active' = active \union {u}
  /\ Outdates(<<FALSE, u>>)
  /\ UNCHANGED <<base, grant, removal>> /\ MadeOwner

OwnersNext ==
  \/ \E r \in Removals :
       \/ \E u \in Users, op \in {"bar", "demote", "revoke"} : Begin(r, op, u)
       \/ Withdraw(r) \/ RollBack(r)
  \/ \E u \in Users : (\E reach \in Reaches : Assign(u, reach)) \/ GrantStarts(u) \/ Promote(u) \/ Readmit(u)

OwnersSpec == OwnersInit /\ [][OwnersNext]_ownerVars

-----------------------------------------------------------------------------
(* Properties. *)

(* rbac/service.py, "never remove the last active owner of an organization",
   holds but for this: the organization is without an owner only if the owners
   changed between the count and the write of the request that removed the
   last, if that one was a user of another organization, or if a grant that was
   counted is for a part or not in force.                                   *)
OwnerlessOnlyByCause == ActingOwners = {} => emptied # {}
=============================================================================
