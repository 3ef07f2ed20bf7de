------------------------------ MODULE MCRecords ------------------------------
(* Four places where transactions that overlap write what others have read, and
   only the row_version of the row they write is compared: a synchronised record,
   the owners of an organization, the cached grants of a user, the organizations
   of a tenant.  A behaviour is one of one part, chosen at the start; the others
   stay as they began, so the state space is the sum of the four.  Two lanes, or
   requests, of every part are the same two values.                         *)
EXTENDS Crosswalk, Owners, GrantCache, OrgMoves, TLC

CONSTANTS r1, r2

VARIABLE part

recordVars == vars
allVars == <<part, recordVars, ownerVars, grantVars, orgVars>>

RecordsInit ==
  /\ part \in {"record", "owners", "grants", "organizations"}
  /\ Init /\ OwnersInit /\ GrantCacheInit /\ OrgMovesInit
  /\ part # "record" => contract = [echo |-> TRUE, confirm |-> TRUE]
  /\ contract.echo \/ contract.confirm   \* bound: OneRow.cfg has all four contracts

RecordsNext ==
  /\ UNCHANGED part
  /\ \/ part = "record" /\ Next /\ UNCHANGED <<ownerVars, grantVars, orgVars>>
     \/ part = "owners" /\ OwnersNext /\ UNCHANGED <<recordVars, grantVars, orgVars>>
     \/ part = "grants" /\ GrantCacheNext /\ UNCHANGED <<recordVars, ownerVars, orgVars>>
     \/ part = "organizations" /\ OrgMovesNext /\ UNCHANGED <<recordVars, ownerVars, grantVars>>

RecordsSpec == RecordsInit /\ [][RecordsNext]_allVars

Symmetry == Permutations({r1, r2})

(* A request that wrote on what had changed is the last step of the organizations
   that is looked at: PathsAreTheTree says nothing of what comes after it, where
   paths may grow without end.                                              *)
UntilTorn == ~torn

(* Every variable of the four parts keeps its type. *)
RecordsTypeOK ==
  CASE part = "record" -> TypeOK
    [] part = "owners" -> OwnersTypeOK
    [] part = "grants" -> GrantCacheTypeOK
    [] part = "organizations" -> OrgMovesTypeOK
=============================================================================
