---------------------------- MODULE TenancyProofs ----------------------------
(***************************************************************************)
(* Proofs about the three parts of a tenant that only compare the          *)
(* row_version of the row they write: the owners of an organization, the   *)
(* cached grants of a user, the tree of organizations.  Each proof says    *)
(* what still holds of all a request has read and does not look at again,  *)
(* up to the history variable that records that it no longer does.         *)
(***************************************************************************)
EXTENDS MCRecords, CrosswalkProofs, SequenceTheorems

-----------------------------------------------------------------------------
(* Owners: the guard of a request in flight holds until the owners change. *)

GuardsHold == \A r \in InFlight \ shifted : NotLastOwner(removal[r].user)

OwnersInv == OwnersTypeOK /\ GuardsHold /\ OwnerlessOnlyByCause

LEMMA OwnersOfUsers ==
  ASSUME OwnersTypeOK
  PROVE  /\ OwnersOf \subseteq Users /\ ActingOwners \subseteq OwnersOf
         /\ IsFiniteSet(OwnersOf) /\ Cardinality(OwnersOf) \in Nat
<1>1. OwnersOf \subseteq Users /\ ActingOwners \subseteq OwnersOf
  BY DEF OwnersTypeOK, OwnersOf, ActingOwners
<1>2. IsFiniteSet(OwnersOf)
  BY <1>1, FS_Subset, OwnersAssumption DEF Users
<1> QED
  BY <1>1, <1>2, FS_CardinalityType

(* Two owners are not one user. *)
LEMMA AnotherOwner ==
  ASSUME OwnersTypeOK, NEW u, u \notin OwnersOf \/ Cardinality(OwnersOf) > 1, OwnersOf # {}
  PROVE  OwnersOf \ {u} # {}
<1>1. CASE u \notin OwnersOf
  BY <1>1
<1>2. CASE Cardinality(OwnersOf) > 1
  <2>1. ASSUME OwnersOf = {u} PROVE FALSE
    <3>1. Cardinality({u}) = 1
      BY FS_Singleton
    <3> QED
      BY <1>2, <2>1, <3>1
  <2> QED
    BY <2>1
<1> QED
  BY <1>1, <1>2

LEMMA OwnersInitInv == OwnersInit => OwnersInv
<1> SUFFICES ASSUME OwnersInit PROVE OwnersInv
  OBVIOUS
<1>1. OwnersTypeOK
  BY OwnersAssumption DEF OwnersInit, OwnersTypeOK, Users, NoRemoval
<1>2. InFlight = {}
  BY DEF OwnersInit, InFlight, NoRemoval
<1>3. founder \in ActingOwners
  BY OwnersAssumption DEF OwnersInit, ActingOwners, Users
<1> QED
  BY <1>1, <1>2, <1>3 DEF OwnersInv, GuardsHold, OwnerlessOnlyByCause

LEMMA BeginKeeps ==
  ASSUME OwnersInv, NEW r \in Removals, NEW op \in {"bar", "demote", "revoke"}, NEW u \in Users, Begin(r, op, u)
  PROVE  OwnersInv'
<1>1. /\ removal' = [removal EXCEPT ![r] = [op |-> op, user |-> u]]
      /\ UNCHANGED <<base, grant, active, superseded, shifted, emptied>> /\ NotLastOwner(u)
  BY DEF Begin
<1>2. OwnersTypeOK'
  BY <1>1 DEF OwnersInv, OwnersTypeOK
<1>3. OwnersOf' = OwnersOf /\ ActingOwners' = ActingOwners
  BY <1>1 DEF OwnersOf, ActingOwners
<1>4. GuardsHold'
  <2> SUFFICES ASSUME NEW x \in Removals, x \in InFlight', x \notin shifted PROVE NotLastOwner(removal[x].user)'
    BY <1>1 DEF GuardsHold, InFlight
  <2>1. CASE x = r
    BY <1>1, <1>3, <2>1 DEF OwnersInv, OwnersTypeOK, NotLastOwner
  <2>2. CASE x # r
    <3>1. removal'[x] = removal[x]
      BY <1>1, <2>2 DEF OwnersInv, OwnersTypeOK
    <3> QED
      BY <1>3, <3>1 DEF OwnersInv, GuardsHold, InFlight, NotLastOwner
  <2> QED
    BY <2>1, <2>2
<1> QED
  BY <1>1, <1>2, <1>3, <1>4 DEF OwnersInv, OwnerlessOnlyByCause

(* A removal takes one user from the owners, and nothing if its guard still held. *)
LEMMA WithdrawKeeps == ASSUME OwnersInv, NEW r \in Removals, Withdraw(r) PROVE OwnersInv'
<1> DEFINE q == removal[r]
<1>1. /\ q.op # "none" /\ q \in [op : {"none", "bar", "demote", "revoke"}, user : Users \union {noUser}]
      /\ active' = IF q.op = "bar" THEN active \ {q.user} ELSE active
      /\ base' = IF q.op = "demote" THEN base \ {q.user} ELSE base
      /\ grant' = IF q.op = "revoke" THEN [grant EXCEPT ![q.user] = "none"] ELSE grant
      /\ removal' = [removal EXCEPT ![r] = NoRemoval]
      /\ superseded' \subseteq Removals
      /\ shifted' = (IF OwnersOf' = OwnersOf THEN shifted ELSE InFlight) \ {r}
      /\ emptied' = IF ActingOwners' # {} THEN {} ELSE IF ActingOwners = {} THEN emptied ELSE Cause(r)
  BY DEF Withdraw, OwnersInv, OwnersTypeOK, InFlight
<1>2. grant' \in [Users -> Reaches \union {"none"}] /\ \A u \in Users \ {q.user} : grant'[u] = grant[u]
  BY <1>1 DEF OwnersInv, OwnersTypeOK
<1>3. OwnersTypeOK'
  <2>1. removal' \in [Removals -> [op : {"none", "bar", "demote", "revoke"}, user : Users \union {noUser}]]
    BY <1>1 DEF OwnersInv, OwnersTypeOK, NoRemoval
  <2>2. shifted' \in SUBSET Removals /\ emptied' \in SUBSET {"overlap", "outsider", "partial"}
    BY <1>1 DEF OwnersInv, OwnersTypeOK, InFlight, Cause
  <2>3. active' \in SUBSET Users /\ base' \in SUBSET Locals
    BY <1>1 DEF OwnersInv, OwnersTypeOK
  <2> QED
    BY <1>1, <1>2, <2>1, <2>2, <2>3 DEF OwnersTypeOK
<1>4. GuardsHold'
  <2> SUFFICES ASSUME NEW x \in Removals, x \in InFlight', x \notin shifted' PROVE NotLastOwner(removal[x].user)'
    BY DEF GuardsHold, InFlight
  <2>1. x # r /\ removal'[x] = removal[x]
    BY <1>1 DEF OwnersInv, OwnersTypeOK, InFlight, NoRemoval
  <2>2. x \in InFlight
    BY <2>1 DEF InFlight
  <2>3. OwnersOf' = OwnersOf /\ x \notin shifted
    BY <1>1, <2>1, <2>2
  <2> QED
    BY <2>1, <2>2, <2>3 DEF OwnersInv, GuardsHold, NotLastOwner
<1>5. OwnersOf \ {q.user} \subseteq OwnersOf'
  <2> SUFFICES ASSUME NEW u \in OwnersOf, u # q.user PROVE u \in OwnersOf'
    OBVIOUS
  <2>1. u \in Users /\ grant'[u] = grant[u]
    BY <1>2, OwnersOfUsers DEF OwnersInv
  <2> QED
    BY <1>1, <2>1 DEF OwnersOf
<1>6. ASSUME ActingOwners' = {}, ActingOwners # {}, Cause(r) = {} PROVE FALSE
  <2>1. r \in InFlight \ shifted /\ q.user \notin Outsiders /\ OwnersOf' = {}
    BY <1>1, <1>6 DEF Cause, InFlight
  <2>2. NotLastOwner(q.user)
    BY <2>1 DEF OwnersInv, GuardsHold
  <2>3. OwnersOf # {}
    BY <1>6, OwnersOfUsers DEF OwnersInv
  <2>4. OwnersOf \ {q.user} # {}
    BY <2>1, <2>2, <2>3, AnotherOwner DEF OwnersInv, NotLastOwner
  <2> QED
    BY <1>5, <2>1, <2>4
<1>7. OwnerlessOnlyByCause'
  <2> SUFFICES ASSUME ActingOwners' = {} PROVE emptied' # {}
    BY DEF OwnerlessOnlyByCause
  <2> QED
    BY <1>1, <1>6 DEF OwnersInv, OwnerlessOnlyByCause
<1> QED
  BY <1>3, <1>4, <1>7 DEF OwnersInv

LEMMA RollBackKeeps == ASSUME OwnersInv, NEW r \in Removals, RollBack(r) PROVE OwnersInv'
<1>1. /\ removal' = [removal EXCEPT ![r] = NoRemoval] /\ shifted' = shifted \ {r}
      /\ superseded' = superseded \ {r} /\ UNCHANGED <<base, grant, active, emptied>>
  BY DEF RollBack
<1>2. OwnersTypeOK'
  BY <1>1 DEF OwnersInv, OwnersTypeOK, NoRemoval
<1>3. OwnersOf' = OwnersOf /\ ActingOwners' = ActingOwners
  BY <1>1 DEF OwnersOf, ActingOwners
<1>4. GuardsHold'
  <2> SUFFICES ASSUME NEW x \in Removals, x \in InFlight', x \notin shifted' PROVE NotLastOwner(removal[x].user)'
    BY DEF GuardsHold, InFlight
  <2>1. x # r /\ removal'[x] = removal[x]
    BY <1>1 DEF OwnersInv, OwnersTypeOK, InFlight, NoRemoval
  <2> QED
    BY <1>1, <1>3, <2>1 DEF OwnersInv, GuardsHold, InFlight, NotLastOwner
<1> QED
  BY <1>1, <1>2, <1>3, <1>4 DEF OwnersInv, OwnerlessOnlyByCause

(* What makes an owner takes none away. *)
LEMMA MakersKeep ==
  ASSUME OwnersInv, NEW u \in Users,
         (\E reach \in Reaches : Assign(u, reach)) \/ GrantStarts(u) \/ Promote(u) \/ Readmit(u)
  PROVE  OwnersInv'
<1>1. UNCHANGED removal /\ MadeOwner
  BY DEF Assign, GrantStarts, Promote, Readmit
<1>2. /\ base' \in SUBSET Locals /\ base \subseteq base'
      /\ active' \in SUBSET Users /\ active \subseteq active'
      /\ grant' \in [Users -> Reaches \union {"none"}]
      /\ \A x \in Users : grant[x] = "whole" => grant'[x] = "whole"
      /\ superseded' \in SUBSET Removals
  <2>1. CASE (\E reach \in Reaches : Assign(u, reach)) \/ GrantStarts(u)
    <3>1. PICK reach \in Reaches : grant' = [grant EXCEPT ![u] = reach] /\ grant[u] # "whole"
      BY <2>1, OwnersAssumption DEF Assign, GrantStarts
    <3>2. UNCHANGED <<base, active, superseded>>
      BY <2>1 DEF Assign, GrantStarts
    <3> QED
      BY <3>1, <3>2 DEF OwnersInv, OwnersTypeOK
  <2>2. CASE Promote(u) \/ Readmit(u)
    <3>1. UNCHANGED grant /\ superseded' \in SUBSET Removals
      BY <2>2 DEF OwnersInv, OwnersTypeOK, Promote, Readmit, Outdates, InFlight
    <3> QED
      BY <2>2, <3>1 DEF OwnersInv, OwnersTypeOK, Promote, Readmit, Users
  <2> QED
    BY <2>1, <2>2
<1>3. OwnersTypeOK'
  BY <1>1, <1>2 DEF OwnersInv, OwnersTypeOK, MadeOwner, InFlight
<1>4. InFlight' = InFlight
  BY <1>1 DEF InFlight
<1>5. GuardsHold'
  BY <1>1, <1>4 DEF OwnersInv, GuardsHold, MadeOwner, NotLastOwner
<1>6. ActingOwners \subseteq ActingOwners'
  BY <1>2 DEF OwnersInv, OwnersTypeOK, ActingOwners
<1>7. OwnerlessOnlyByCause'
  BY <1>1, <1>6 DEF OwnersInv, OwnerlessOnlyByCause, MadeOwner
<1> QED
  BY <1>3, <1>5, <1>7 DEF OwnersInv

LEMMA OwnersStepInv == OwnersInv /\ [OwnersNext]_ownerVars => OwnersInv'
<1> SUFFICES ASSUME OwnersInv, [OwnersNext]_ownerVars PROVE OwnersInv'
  OBVIOUS
<1>1. CASE OwnersNext
  BY <1>1, BeginKeeps, WithdrawKeeps, RollBackKeeps, MakersKeep DEF OwnersNext
<1>2. CASE UNCHANGED ownerVars
  BY <1>2 DEF ownerVars, OwnersInv, OwnersTypeOK, GuardsHold, OwnerlessOnlyByCause, InFlight, NotLastOwner,
              OwnersOf, ActingOwners
<1> QED
  BY <1>1, <1>2

(* The organization is without an owner only by one of the three causes the history names. *)
THEOREM OwnerlessByCause == OwnersSpec => [](OwnersTypeOK /\ OwnerlessOnlyByCause)
<1>1. OwnersInv => OwnersTypeOK /\ OwnerlessOnlyByCause
  BY DEF OwnersInv
<1> QED
  BY <1>1, OwnersInitInv, OwnersStepInv, PTL DEF OwnersSpec

-----------------------------------------------------------------------------
(* The cached grants: what an entry without a cause to be old was filled from is still so. *)

Committed == {c \in Changes : progress[c] = "committed"}

Loads == [at : 0 .. 5, view : Views, epoch : 0 .. MaxEpoch, now : 0 .. MaxClock, crossed : BOOLEAN]

\* The tables a load has read when it stands at i.
ReadSoFar(i) == {Tables[j] : j \in {k \in DOMAIN Tables : k < i}}

\* A load during which nothing was committed has seen of the tables it read all that is committed.
LoadSees(l) ==
  load[l].at > 0 =>
    /\ load[l].now =< clock /\ load[l].epoch =< epoch
    /\ load[l].view.timed <=> load[l].now < GrantEnd
    /\ ~load[l].crossed => load[l].view.shows = Committed \intersect ReadSoFar(load[l].at)

\* A change that was told of, and whose turn to commit it is, left nothing behind it.
ToldLeavesNothing ==
  /\ entry.there /\ progress["assignment"] = "told" => "assignment" \in filled
  /\ Hit /\ progress["role"] = "told" => "role" \in filled

EntryHolds ==
  /\ entry.epoch =< epoch
  /\ entry.there => clock < entry.until
  /\ Hit /\ why = {} => /\ entry.view.shows = Committed
                        /\ IF entry.view.timed THEN entry.until =< GrantEnd ELSE GrantEnd =< clock

GrantInv ==
  /\ GrantCacheTypeOK
  /\ \A l \in Fillers : LoadSees(l)
  /\ ToldLeavesNothing /\ EntryHolds

LEMMA Tables3 == Changes = {"assignment", "role", "organization"} /\ DOMAIN Tables = 1..3
                 /\ Tables[1] = "assignment" /\ Tables[2] = "role" /\ Tables[3] = "organization"
<1>1. DOMAIN Tables = 1..3
  BY DEF Tables
<1>2. Tables[1] = "assignment" /\ Tables[2] = "role" /\ Tables[3] = "organization"
  BY DEF Tables
<1>3. 1..3 = {1, 2, 3}
  OBVIOUS
<1> QED
  BY <1>1, <1>2, <1>3 DEF Changes

LEMMA ReadTables ==
  /\ ReadSoFar(1) = {}
  /\ \A i \in 1..3 : ReadSoFar(i + 1) = ReadSoFar(i) \union {Tables[i]}
  /\ ReadSoFar(4) = Changes /\ ReadSoFar(5) = Changes
<1>1. DOMAIN Tables = 1..3
  BY Tables3
<1>2. ReadSoFar(1) = {}
  BY <1>1 DEF ReadSoFar
<1>3. ASSUME NEW i \in 1..3 PROVE ReadSoFar(i + 1) = ReadSoFar(i) \union {Tables[i]}
  <2>1. {k \in 1..3 : k < i + 1} = {k \in 1..3 : k < i} \union {i}
    OBVIOUS
  <2> QED
    BY <1>1, <2>1 DEF ReadSoFar
<1>4. {k \in 1..3 : k < 4} = 1..3 /\ {k \in 1..3 : k < 5} = 1..3
  OBVIOUS
<1>5. ReadSoFar(4) = Changes /\ ReadSoFar(5) = Changes
  BY <1>1, <1>4 DEF ReadSoFar, Changes
<1> QED
  BY <1>2, <1>3, <1>5

LEMMA GrantInitInv == GrantCacheInit => GrantInv
<1> SUFFICES ASSUME GrantCacheInit PROVE GrantInv
  OBVIOUS
<1>1. GrantCacheTypeOK
  BY GrantCacheAssumption DEF GrantCacheInit, GrantCacheTypeOK, NoEntry, NoLoad, NoView, Views
<1>2. \A l \in Fillers : LoadSees(l)
  BY DEF GrantCacheInit, LoadSees, NoLoad
<1>3. ToldLeavesNothing /\ EntryHolds
  BY Tables3 DEF GrantCacheInit, ToldLeavesNothing, EntryHolds, NoEntry, Hit
<1> QED
  BY <1>1, <1>2, <1>3 DEF GrantInv

LEMMA GrantTypes ==
  ASSUME GrantCacheTypeOK
  PROVE  /\ clock \in Nat /\ epoch \in Nat /\ GrantEnd \in Nat /\ Ttl \in Nat \ {0}
         /\ entry.until \in Nat /\ entry.epoch \in Nat
         /\ \A l \in Fillers : load[l].now \in Nat /\ load[l].epoch \in Nat /\ load[l].at \in 0..5
BY GrantCacheAssumption DEF GrantCacheTypeOK

(* A change goes its way; nothing is committed. *)
LEMMA ChangeKeeps ==
  ASSUME GrantInv, NEW c \in Changes, MakeChange(c) \/ TellFails(c) \/ RollBackGrants(c)
  PROVE  GrantInv'
<1>1. PICK x \in {"none", "flushed", "untold"} :
        /\ progress' = [progress EXCEPT ![c] = x] /\ progress[c] # "committed"
        /\ UNCHANGED <<clock, epoch, entry, load, why>> /\ filled' \in {filled, filled \ {c}}
  BY DEF MakeChange, TellFails, RollBackGrants
<1>2. progress'[c] = x /\ \A d \in Changes \ {c} : progress'[d] = progress[d]
  BY <1>1 DEF GrantInv, GrantCacheTypeOK
<1>3. GrantCacheTypeOK'
  BY <1>1 DEF GrantInv, GrantCacheTypeOK
<1>4. Committed' = Committed
  BY <1>1, <1>2 DEF Committed
<1>5. ToldLeavesNothing'
  BY <1>1, <1>2, Tables3 DEF GrantInv, ToldLeavesNothing, Hit
<1> QED
  BY <1>1, <1>3, <1>4, <1>5 DEF GrantInv, LoadSees, EntryHolds, Hit

LEMMA ForgetKeeps == ASSUME GrantInv, Forget PROVE GrantInv'
<1>1. "assignment" \in Changes /\ progress["assignment"] = "flushed"
  BY Tables3 DEF Forget
<1>2. progress' = [progress EXCEPT !["assignment"] = "told"]
  BY DEF Forget
<1>3. GrantCacheTypeOK'
  <2>1. NoEntry \in [there : BOOLEAN, epoch : 0 .. MaxEpoch, view : Views, until : 0 .. MaxClock + Ttl]
    BY GrantCacheAssumption DEF NoEntry, NoView, Views
  <2> QED
    BY <1>1, <1>2, <2>1 DEF Forget, GrantInv, GrantCacheTypeOK
<1>4. Committed' = Committed
  BY <1>1, <1>2 DEF Committed, GrantInv, GrantCacheTypeOK
<1>5. ToldLeavesNothing' /\ EntryHolds'
  BY GrantTypes DEF Forget, NoEntry, ToldLeavesNothing, EntryHolds, Hit, GrantInv
<1>6. \A l \in Fillers : LoadSees(l)'
  BY <1>4 DEF Forget, GrantInv, LoadSees
<1> QED
  BY <1>3, <1>5, <1>6 DEF GrantInv

(* A new epoch: no entry is of it yet. *)
LEMMA BumpKeeps == ASSUME GrantInv, Bump PROVE GrantInv'
<1>1. "role" \in Changes /\ progress["role"] = "flushed"
  BY Tables3 DEF Bump
<1>2. progress' = [progress EXCEPT !["role"] = "told"] /\ epoch' = epoch + 1 /\ filled' = filled \ {"role"}
      /\ UNCHANGED <<clock, entry, load, why>>
  BY DEF Bump
<1>3. GrantCacheTypeOK'
  BY <1>1, <1>2, GrantCacheAssumption DEF Bump, GrantInv, GrantCacheTypeOK
<1>4. Committed' = Committed
  BY <1>1, <1>2 DEF Committed, GrantInv, GrantCacheTypeOK
<1>5. ~Hit'
  BY <1>2, GrantTypes DEF GrantInv, EntryHolds, Hit
<1>6. progress'["assignment"] = progress["assignment"]
  BY <1>2 DEF GrantInv, GrantCacheTypeOK
<1>7. ToldLeavesNothing' /\ EntryHolds'
  BY <1>2, <1>5, <1>6, GrantTypes DEF GrantInv, ToldLeavesNothing, EntryHolds
<1>8. \A l \in Fillers : LoadSees(l)'
  BY <1>2, <1>4, GrantTypes DEF GrantInv, LoadSees
<1> QED
  BY <1>3, <1>7, <1>8 DEF GrantInv

(* A commit marks what it leaves in the cache, and the loads it crosses. *)
LEMMA CommitKeeps == ASSUME GrantInv, NEW c \in Changes, CommitGrants(c) PROVE GrantInv'
<1>1. /\ progress[c] \in (IF c = "organization" THEN {"flushed"} ELSE {"told", "untold"})
      /\ progress' = [progress EXCEPT ![c] = "committed"]
      /\ why' = why \union (IF entry.there THEN Leaves(c) ELSE {})
      /\ load' = [l \in Fillers |-> IF load[l].at > 0 THEN [load[l] EXCEPT !.crossed = TRUE] ELSE load[l]]
      /\ filled' = filled \ {c}
      /\ UNCHANGED <<clock, epoch, entry>>
  BY DEF CommitGrants
<1>2. progress'[c] = "committed" /\ \A d \in Changes \ {c} : progress'[d] = progress[d]
  BY <1>1 DEF GrantInv, GrantCacheTypeOK
<1>3. GrantCacheTypeOK'
  <2>1. why' \in SUBSET {"overlap", "untold", "moved", "slow"} /\ filled' \in SUBSET Changes
    BY <1>1 DEF GrantInv, GrantCacheTypeOK, Leaves
  <2>2. progress' \in [Changes -> {"none", "flushed", "told", "untold", "committed"}]
    BY <1>1 DEF GrantInv, GrantCacheTypeOK
  <2>3. load' \in [Fillers -> [at : 0 .. 5, view : Views, epoch : 0 .. MaxEpoch, now : 0 .. MaxClock,
                              crossed : BOOLEAN]]
    BY <1>1 DEF GrantInv, GrantCacheTypeOK
  <2> QED
    BY <1>1, <2>1, <2>2, <2>3 DEF GrantInv, GrantCacheTypeOK
<1>4. \A l \in Fillers : LoadSees(l)'
  <2> SUFFICES ASSUME NEW l \in Fillers, load'[l].at > 0 PROVE LoadSees(l)'
    BY DEF LoadSees
  <2>1. /\ load[l].at > 0 /\ load'[l].crossed
        /\ load'[l].now = load[l].now /\ load'[l].epoch = load[l].epoch /\ load'[l].view = load[l].view
    BY <1>1 DEF GrantInv, GrantCacheTypeOK
  <2> QED
    BY <1>1, <2>1 DEF GrantInv, LoadSees
<1>5. ToldLeavesNothing'
  BY <1>1, <1>2, Tables3 DEF GrantInv, ToldLeavesNothing, Hit
<1>6. ~(Hit' /\ why' = {})
  <2> SUFFICES ASSUME Hit, Leaves(c) = {} PROVE FALSE
    BY <1>1 DEF Hit
  <2>1. c # "organization" /\ progress[c] = "told" /\ c \notin filled
    BY <1>1 DEF Leaves
  <2> QED
    BY <2>1, Tables3 DEF GrantInv, ToldLeavesNothing, Hit
<1>7. EntryHolds'
  BY <1>1, <1>6 DEF GrantInv, EntryHolds
<1> QED
  BY <1>3, <1>4, <1>5, <1>7 DEF GrantInv

-----------------------------------------------------------------------------
(* The loads. *)

LEMMA LoadStep ==
  ASSUME GrantInv, NEW l \in Fillers, UNCHANGED <<clock, progress, epoch, entry, filled, why>>,
         NEW x \in Loads,
         load' = [load EXCEPT ![l] = x], LoadSees(l)'
  PROVE  GrantInv'
<1>1. GrantCacheTypeOK'
  BY DEF GrantInv, GrantCacheTypeOK, Loads
<1>2. \A k \in Fillers \ {l} : load'[k] = load[k]
  BY DEF GrantInv, GrantCacheTypeOK
<1>3. Committed' = Committed
  BY DEF Committed
<1>4. \A k \in Fillers : LoadSees(k)'
  BY <1>2, <1>3 DEF GrantInv, LoadSees
<1> QED
  BY <1>1, <1>3, <1>4 DEF GrantInv, ToldLeavesNothing, EntryHolds, Hit

(* The records a load goes through. *)
LEMMA NoLoadIsLoad == NoLoad \in Loads
BY GrantCacheAssumption DEF Loads, Views, NoLoad, NoView

LEMMA Begun ==
  ASSUME NEW timed \in BOOLEAN, NEW i \in 0 .. 5, NEW at \in 0 .. MaxClock
  PROVE  [NoLoad EXCEPT !.at = i, !.now = at, !.view.timed = timed] \in Loads
BY NoLoadIsLoad DEF Loads, Views

AfterTable(r, i, S) == [r EXCEPT !.at = i, !.view.shows = S]
AfterEpoch(r, e) == [r EXCEPT !.at = 5, !.epoch = e]

LEMMA TableRead ==
  ASSUME NEW r \in Loads, NEW S \in SUBSET Changes, NEW i \in 0 .. 5
  PROVE  /\ AfterTable(r, i, S) \in Loads
         /\ AfterTable(r, i, S).at = i /\ AfterTable(r, i, S).view.shows = S
         /\ AfterTable(r, i, S).view.timed = r.view.timed
         /\ AfterTable(r, i, S).now = r.now /\ AfterTable(r, i, S).epoch = r.epoch
         /\ AfterTable(r, i, S).crossed = r.crossed
<1> DEFINE x == [r EXCEPT !.at = i, !.view.shows = S]
<1>1. x \in Loads
  BY DEF Loads, Views
<1>2. /\ x.at = i /\ x.view.shows = S /\ x.view.timed = r.view.timed
      /\ x.now = r.now /\ x.epoch = r.epoch /\ x.crossed = r.crossed
  BY DEF Loads, Views
<1> QED
  BY <1>1, <1>2 DEF AfterTable

LEMMA EpochRead ==
  ASSUME NEW r \in Loads, NEW e \in 0 .. MaxEpoch
  PROVE  /\ AfterEpoch(r, e) \in Loads
         /\ AfterEpoch(r, e).at = 5 /\ AfterEpoch(r, e).epoch = e /\ AfterEpoch(r, e).view = r.view
         /\ AfterEpoch(r, e).now = r.now /\ AfterEpoch(r, e).crossed = r.crossed
<1>1. \A i \in 0 .. 5 : [r EXCEPT !.at = i, !.epoch = e] \in Loads
  BY DEF Loads
<1>2. AfterEpoch(r, e) \in Loads
  BY <1>1 DEF AfterEpoch
<1>3. /\ AfterEpoch(r, e).at = 5 /\ AfterEpoch(r, e).epoch = e /\ AfterEpoch(r, e).view = r.view
      /\ AfterEpoch(r, e).now = r.now /\ AfterEpoch(r, e).crossed = r.crossed
  BY DEF Loads, AfterEpoch
<1> QED
  BY <1>2, <1>3

LEMMA LoadsKeep ==
  ASSUME GrantInv, NEW l \in Fillers, BeginLoad(l) \/ ReadTable(l) \/ ReadEpoch(l) \/ FillFails(l)
  PROVE  GrantInv'
<1>1. /\ load \in [Fillers -> Loads] /\ load[l] \in Loads
      /\ UNCHANGED <<clock, progress, epoch, entry, filled, why>> /\ Committed' = Committed
      /\ clock \in 0 .. MaxClock /\ epoch \in 0 .. MaxEpoch /\ clock \in Nat /\ epoch \in Nat
  BY GrantCacheAssumption
     DEF GrantInv, GrantCacheTypeOK, Loads, BeginLoad, ReadTable, ReadEpoch, FillFails, Committed
<1>2. CASE FillFails(l)
  <2>1. load' = [load EXCEPT ![l] = NoLoad]
    BY <1>2 DEF FillFails
  <2>2. LoadSees(l)'
    BY <1>1, <2>1 DEF LoadSees, NoLoad
  <2> QED
    BY <1>1, <2>1, <2>2, NoLoadIsLoad, LoadStep
<1>3. CASE BeginLoad(l)
  <2>1. PICK x : /\ x = [NoLoad EXCEPT !.at = 1, !.now = clock, !.view.timed = clock < GrantEnd]
                 /\ load' = [load EXCEPT ![l] = x]
    BY <1>3 DEF BeginLoad
  <2>2. (clock < GrantEnd) \in BOOLEAN /\ 1 \in 0 .. 5
    OBVIOUS
  <2>3. x \in Loads
    BY <1>1, <2>1, <2>2, Begun
  <2>4. /\ x.at = 1 /\ x.now = clock /\ x.epoch = 0 /\ x.view.shows = {}
        /\ x.view.timed = (clock < GrantEnd)
    BY <2>1 DEF NoLoad, NoView
  <2>5. load'[l] = x
    BY <1>1, <2>1
  <2>6. LoadSees(l)'
    <3>1. x.view.timed <=> clock < GrantEnd
      BY <2>4
    <3>2. Committed \intersect ReadSoFar(1) = {}
      BY ReadTables
    <3> QED
      BY <1>1, <2>4, <2>5, <3>1, <3>2 DEF LoadSees
  <2> QED
    BY <1>1, <2>1, <2>3, <2>6, LoadStep
<1>4. CASE ReadTable(l)
  <2> DEFINE i == load[l].at
             S == load[l].view.shows \union ShownBy(i)
  <2>1. PICK x : x = AfterTable(load[l], i + 1, S) /\ load' = [load EXCEPT ![l] = x]
    BY <1>1, <1>4 DEF ReadTable, AfterTable
  <2>2. i \in 1..3
    BY <1>4, Tables3 DEF ReadTable
  <2>3. Tables[i] \in Changes /\ i + 1 \in 0 .. 5
    BY <2>2, Tables3 DEF Changes
  <2>4. S \in SUBSET Changes
    BY <1>1, <2>3 DEF Loads, Views, ShownBy
  <2>5. ~load[l].crossed => S = Committed \intersect ReadSoFar(i + 1)
    <3>1. ~load[l].crossed => load[l].view.shows = Committed \intersect ReadSoFar(i)
      BY <2>2 DEF GrantInv, LoadSees
    <3>2. ShownBy(i) = Committed \intersect {Tables[i]}
      BY <2>3 DEF Committed, ShownBy
    <3>3. ReadSoFar(i + 1) = ReadSoFar(i) \union {Tables[i]}
      BY <2>2, ReadTables
    <3> QED
      BY <3>1, <3>2, <3>3
  <2> HIDE DEF S
  <2>6. /\ x \in Loads /\ x.at = i + 1 /\ x.view.shows = S /\ x.view.timed = load[l].view.timed
        /\ x.now = load[l].now /\ x.epoch = load[l].epoch /\ x.crossed = load[l].crossed
    BY <1>1, <2>1, <2>3, <2>4, TableRead
  <2>7. load'[l] = x
    BY <1>1, <2>1
  <2>8. LoadSees(l)'
    BY <1>1, <2>2, <2>5, <2>6, <2>7 DEF GrantInv, LoadSees
  <2> QED
    BY <1>1, <2>1, <2>6, <2>8, LoadStep
<1>5. CASE ReadEpoch(l)
  <2>1. PICK x : x = AfterEpoch(load[l], epoch) /\ load' = [load EXCEPT ![l] = x]
    BY <1>1, <1>5 DEF ReadEpoch, AfterEpoch
  <2>2. load[l].at = 4
    BY <1>5 DEF ReadEpoch
  <2>3. /\ x \in Loads /\ x.at = 5 /\ x.epoch = epoch /\ x.view = load[l].view
        /\ x.now = load[l].now /\ x.crossed = load[l].crossed
    BY <1>1, <2>1, EpochRead
  <2>4. load'[l] = x
    BY <1>1, <2>1
  <2>5. LoadSees(l)'
    BY <1>1, <2>2, <2>3, <2>4, ReadTables DEF GrantInv, LoadSees
  <2> QED
    BY <1>1, <2>1, <2>3, <2>5, LoadStep
<1> QED
  BY <1>2, <1>3, <1>4, <1>5

(* The key is set: an entry of a load nothing crossed, in the second it began, is the truth,
   and does not outlive it. *)
LEMMA FillKeeps == ASSUME GrantInv, NEW l \in Fillers, Fill(l) PROVE GrantInv'
<1> DEFINE r == load[l]
<1>1. /\ r.at = 5
      /\ entry' = [there |-> TRUE, epoch |-> r.epoch, view |-> r.view, until |-> clock + TtlSeconds(r.now)]
      /\ why' = (IF r.crossed THEN {"overlap"} ELSE {}) \union (IF clock > r.now THEN {"slow"} ELSE {})
      /\ filled' = {c \in Changes : progress[c] \in {"flushed", "told"}}
      /\ load' = [load EXCEPT ![l] = NoLoad]
      /\ UNCHANGED <<clock, progress, epoch>>
  BY DEF Fill
<1>2. /\ load \in [Fillers -> Loads] /\ r \in Loads /\ Committed' = Committed
      /\ clock \in 0 .. MaxClock /\ MaxClock \in Nat /\ r.now \in Nat /\ r.epoch \in 0 .. MaxEpoch /\ r.view \in Views
      /\ GrantEnd \in Nat /\ Ttl \in Nat \ {0}
  BY <1>1, GrantCacheAssumption DEF GrantInv, GrantCacheTypeOK, Loads, Committed
<1>3. /\ r.now =< clock /\ r.epoch =< epoch /\ (r.view.timed <=> r.now < GrantEnd)
      /\ ~r.crossed => r.view.shows = Committed
  <2>1. ReadSoFar(5) = Changes /\ Committed \subseteq Changes
    BY ReadTables DEF Committed
  <2>2. Committed \intersect ReadSoFar(5) = Committed
    BY <2>1
  <2>3. /\ r.now =< clock /\ r.epoch =< epoch /\ (r.view.timed <=> r.now < GrantEnd)
        /\ ~r.crossed => r.view.shows = Committed \intersect ReadSoFar(r.at)
    <3>1. LoadSees(l) /\ r.at > 0
      BY <1>1 DEF GrantInv
    <3> QED
      BY <3>1 DEF LoadSees
  <2>4. ReadSoFar(r.at) = ReadSoFar(5)
    BY <1>1
  <2> QED
    BY <2>2, <2>3, <2>4
<1>4. /\ TtlSeconds(r.now) \in Nat \ {0} /\ TtlSeconds(r.now) =< Ttl
      /\ r.now < GrantEnd => r.now + TtlSeconds(r.now) =< GrantEnd
  BY <1>2 DEF TtlSeconds
<1>5. GrantCacheTypeOK'
  <2>1. load' \in [Fillers -> Loads]
    BY <1>1, <1>2, NoLoadIsLoad
  <2>2. clock + TtlSeconds(r.now) \in 0 .. MaxClock + Ttl
    BY <1>2, <1>4
  <2>3. entry' \in [there : BOOLEAN, epoch : 0 .. MaxEpoch, view : Views, until : 0 .. MaxClock + Ttl]
    BY <1>1, <1>2, <2>2
  <2>4. why' \in SUBSET {"overlap", "untold", "moved", "slow"} /\ filled' \in SUBSET Changes
    BY <1>1
  <2> QED
    BY <1>1, <2>1, <2>3, <2>4 DEF GrantInv, GrantCacheTypeOK, Loads
<1>6. \A k \in Fillers : LoadSees(k)'
  <2>1. \A k \in Fillers : load'[k] = IF k = l THEN NoLoad ELSE load[k]
    BY <1>1, <1>2
  <2>2. NoLoad.at = 0
    BY DEF NoLoad
  <2> QED
    BY <1>1, <1>2, <2>1, <2>2 DEF GrantInv, LoadSees
<1>7. ToldLeavesNothing'
  BY <1>1, Tables3 DEF ToldLeavesNothing
<1>8. EntryHolds'
  <2>1. clock < entry'.until /\ entry'.epoch = r.epoch /\ entry'.view = r.view
        /\ entry'.until = clock + TtlSeconds(r.now)
    BY <1>1, <1>2, <1>4
  <2>2. ASSUME why' = {} PROVE /\ r.view.shows = Committed
                               /\ IF r.view.timed THEN entry'.until =< GrantEnd ELSE GrantEnd =< clock
    <3>1. ~r.crossed /\ clock = r.now
      BY <1>1, <1>2, <1>3, <2>2
    <3> QED
      BY <1>2, <1>3, <1>4, <2>1, <3>1
  <2> QED
    BY <1>1, <1>2, <1>3, <2>1, <2>2 DEF EntryHolds
<1> QED
  BY <1>5, <1>6, <1>7, <1>8 DEF GrantInv

(* A second passes: an entry that shows the timed grant lapses no later than it ends. *)
LEMMA TickKeeps == ASSUME GrantInv, Tick PROVE GrantInv'
<1>1. /\ clock < MaxClock /\ clock' = clock + 1 /\ UNCHANGED <<progress, epoch, load>>
      /\ \/ entry' = NoEntry /\ why' = {} /\ filled' = {}
         \/ ~(entry.until <= clock') /\ UNCHANGED <<entry, why, filled>>
      /\ Committed' = Committed
  BY DEF Tick, Committed
<1>2. clock \in 0 .. MaxClock /\ MaxClock \in Nat /\ GrantEnd \in Nat /\ clock' \in 0 .. MaxClock
      /\ entry.until \in Nat /\ epoch \in Nat /\ \A l \in Fillers : load[l].now \in Nat
  BY <1>1, GrantCacheAssumption DEF GrantInv, GrantCacheTypeOK
<1>3. GrantCacheTypeOK'
  <2>1. NoEntry \in [there : BOOLEAN, epoch : 0 .. MaxEpoch, view : Views, until : 0 .. MaxClock + Ttl]
    BY GrantCacheAssumption DEF NoEntry, NoView, Views
  <2> QED
    BY <1>1, <1>2, <2>1 DEF GrantInv, GrantCacheTypeOK
<1>4. \A l \in Fillers : LoadSees(l)'
  <2>1. \A l \in Fillers : load[l].now =< clock => load[l].now =< clock'
    BY <1>1, <1>2
  <2> QED
    BY <1>1, <2>1 DEF GrantInv, LoadSees
<1>5. ToldLeavesNothing' /\ EntryHolds'
  <2>1. CASE entry' = NoEntry
    BY <1>1, <1>2, <2>1 DEF ToldLeavesNothing, EntryHolds, NoEntry, Hit
  <2>2. CASE ~(entry.until <= clock') /\ UNCHANGED <<entry, why, filled>>
    <3>1. clock < entry.until => clock' < entry.until
      BY <1>1, <1>2, <2>2
    <3>2. GrantEnd =< clock => GrantEnd =< clock'
      BY <1>1, <1>2
    <3> QED
      BY <1>1, <2>2, <3>1, <3>2 DEF GrantInv, ToldLeavesNothing, EntryHolds, Hit
  <2> QED
    BY <1>1, <2>1, <2>2
<1> QED
  BY <1>3, <1>4, <1>5 DEF GrantInv

LEMMA GrantStepInv == GrantInv /\ [GrantCacheNext]_grantVars => GrantInv'
<1> SUFFICES ASSUME GrantInv, [GrantCacheNext]_grantVars PROVE GrantInv'
  OBVIOUS
<1>1. CASE GrantCacheNext
  BY <1>1, ForgetKeeps, BumpKeeps, TickKeeps, ChangeKeeps, CommitKeeps, LoadsKeep, FillKeeps DEF GrantCacheNext
<1>2. CASE UNCHANGED grantVars
  BY <1>2 DEF grantVars, GrantInv, GrantCacheTypeOK, LoadSees, Committed, ToldLeavesNothing, EntryHolds, Hit
<1> QED
  BY <1>1, <1>2

(* A cached grant is old only for one of the causes the history names. *)
THEOREM OldByCause == GrantCacheSpec => [](GrantCacheTypeOK /\ OldOnlyByCause)
<1>1. GrantInv => GrantCacheTypeOK /\ OldOnlyByCause
  <2> SUFFICES ASSUME GrantInv, Hit, why = {} PROVE entry.view = Truth
    BY DEF GrantInv, OldOnlyByCause
  <2>1. entry.view \in [shows : SUBSET Changes, timed : BOOLEAN]
    BY DEF GrantInv, GrantCacheTypeOK, Views
  <2>2. entry.view.shows = Committed
    BY DEF GrantInv, EntryHolds
  <2>3. entry.view.timed = (clock < GrantEnd)
    <3>1. clock < entry.until /\ IF entry.view.timed THEN entry.until =< GrantEnd ELSE GrantEnd =< clock
      BY DEF GrantInv, EntryHolds, Hit
    <3>2. clock \in Nat /\ GrantEnd \in Nat /\ entry.until \in Nat
      BY GrantTypes DEF GrantInv
    <3>3. entry.view.timed <=> clock < GrantEnd
      BY <3>1, <3>2
    <3> QED
      BY <2>1, <3>3
  <2>4. entry.view = [shows |-> entry.view.shows, timed |-> entry.view.timed]
    BY <2>1
  <2> QED
    BY <2>2, <2>3, <2>4 DEF Truth, Committed
<1> QED
  BY <1>1, GrantInitInv, GrantStepInv, PTL DEF GrantCacheSpec

-----------------------------------------------------------------------------
(* Prefixes of paths. *)

LEMMA PrefixPointwise ==
  ASSUME NEW S, NEW s \in Seq(S), NEW t \in Seq(S)
  PROVE  IsPrefix(s, t) <=> Len(s) =< Len(t) /\ \A i \in 1 .. Len(s) : s[i] = t[i]
<1>1. Len(s) \in Nat /\ Len(t) \in Nat
  BY LenProperties
<1> SUFFICES ASSUME Len(s) =< Len(t)
             PROVE  SubSeq(s, 1, Len(s)) = SubSeq(t, 1, Len(s)) <=> \A i \in 1 .. Len(s) : s[i] = t[i]
  BY DEF IsPrefix
<1>2. /\ SubSeq(s, 1, Len(s)) \in Seq(S) /\ Len(SubSeq(s, 1, Len(s))) = Len(s)
      /\ \A i \in 1 .. Len(s) : SubSeq(s, 1, Len(s))[i] = s[i]
  BY <1>1, SMT
<1>3. /\ SubSeq(t, 1, Len(s)) \in Seq(S) /\ Len(SubSeq(t, 1, Len(s))) = Len(s)
      /\ \A i \in 1 .. Len(s) : SubSeq(t, 1, Len(s))[i] = t[i]
  BY <1>1, SMT
<1>4. ASSUME \A i \in 1 .. Len(s) : s[i] = t[i] PROVE SubSeq(s, 1, Len(s)) = SubSeq(t, 1, Len(s))
  BY <1>2, <1>3, <1>4, SeqEqual
<1> QED
  BY <1>2, <1>3, <1>4

LEMMA PrefixOfAppend ==
  ASSUME NEW S, NEW s \in Seq(S), NEW t \in Seq(S), NEW x \in S
  PROVE  /\ IsPrefix(s, s)
         /\ IsPrefix(s, t) => IsPrefix(s, Append(t, x))
         /\ IsPrefix(s, Append(t, x)) /\ s # Append(t, x) => IsPrefix(s, t)
<1> DEFINE u == Append(t, x)
<1>1. /\ Len(s) \in Nat /\ Len(t) \in Nat
      /\ u \in Seq(S) /\ Len(u) = Len(t) + 1
      /\ \A i \in 1 .. Len(t) : u[i] = t[i]
  BY LenProperties, AppendProperties
<1> HIDE DEF u
<1>2. /\ IsPrefix(s, u) <=> Len(s) =< Len(u) /\ \A i \in 1 .. Len(s) : s[i] = u[i]
      /\ IsPrefix(s, t) <=> Len(s) =< Len(t) /\ \A i \in 1 .. Len(s) : s[i] = t[i]
      /\ IsPrefix(s, s)
  BY <1>1, PrefixPointwise
<1>3. ASSUME IsPrefix(s, t) PROVE IsPrefix(s, u)
  BY <1>1, <1>2, <1>3
<1>4. ASSUME IsPrefix(s, u), s # u PROVE IsPrefix(s, t)
  <2>1. Len(s) # Len(u)
    BY <1>1, <1>2, <1>4, SeqEqual
  <2> QED
    BY <1>1, <1>2, <1>4, <2>1
<1> QED
  BY <1>2, <1>3, <1>4 DEF u

(* What a move writes for a row is what it writes for the row above, and the row. *)
Rebased(s, new, t) == new \o SubSeq(t, Len(s) + 1, Len(t))

LEMMA Rebase ==
  ASSUME NEW S, NEW s \in Seq(S), NEW t \in Seq(S), NEW x \in S, NEW new \in Seq(S), IsPrefix(s, t)
  PROVE  /\ Rebased(s, new, t) \in Seq(S)
         /\ Rebased(s, new, Append(t, x)) = Append(Rebased(s, new, t), x)
<1> DEFINE u == Append(t, x)
           short == SubSeq(t, Len(s) + 1, Len(t))
           long == SubSeq(u, Len(s) + 1, Len(u))
<1>1. Len(s) \in Nat /\ Len(t) \in Nat /\ Len(new) \in Nat /\ Len(s) =< Len(t)
  BY LenProperties, PrefixPointwise
<1>2. /\ u \in Seq(S) /\ Len(u) = Len(t) + 1 /\ u[Len(t) + 1] = x
      /\ \A i \in 1 .. Len(t) : u[i] = t[i]
  BY AppendProperties
<1> HIDE DEF u
<1>3. /\ short \in Seq(S) /\ Len(short) = Len(t) - Len(s)
      /\ \A i \in 1 .. Len(t) - Len(s) : short[i] = t[Len(s) + i]
  BY <1>1, SMT
<1>4. /\ long \in Seq(S) /\ Len(long) = Len(t) + 1 - Len(s)
      /\ \A i \in 1 .. Len(t) + 1 - Len(s) : long[i] = u[Len(s) + i]
  BY <1>1, <1>2, SMT
<1> HIDE DEF short, long
<1>5. long = Append(short, x)
  <2> DEFINE w == Append(short, x)
  <2>1. /\ w \in Seq(S) /\ Len(w) = Len(short) + 1 /\ w[Len(short) + 1] = x
        /\ \A i \in 1 .. Len(short) : w[i] = short[i]
    BY <1>3, AppendProperties
  <2> HIDE DEF w
  <2>2. ASSUME NEW i \in 1 .. Len(long) PROVE long[i] = w[i]
    <3>1. CASE i = Len(t) - Len(s) + 1
      <4>1. Len(s) + i = Len(t) + 1 /\ i = Len(short) + 1
        BY <1>1, <1>3, <3>1
      <4>2. i \in 1 .. Len(t) + 1 - Len(s)
        BY <1>4, <2>2
      <4>3. long[i] = u[Len(t) + 1]
        BY <1>4, <4>1, <4>2
      <4> QED
        BY <1>2, <2>1, <4>1, <4>3
    <3>2. CASE i # Len(t) - Len(s) + 1
      <4>0. i \in 1 .. Len(t) + 1 - Len(s)
        BY <1>4, <2>2
      <4>1. i \in 1 .. Len(t) - Len(s) /\ Len(s) + i \in 1 .. Len(t)
        BY <1>1, <3>2, <4>0
      <4>2. i \in 1 .. Len(t) + 1 - Len(s) /\ i \in 1 .. Len(short)
        BY <1>1, <1>3, <4>1
      <4> QED
        BY <1>2, <1>3, <1>4, <2>1, <4>1, <4>2
    <3> QED
      BY <3>1, <3>2
  <2>3. Len(long) = Len(w)
    BY <1>1, <1>3, <1>4, <2>1
  <2>4. long = w
    BY <1>4, <2>1, <2>2, <2>3, SeqEqual
  <2> QED
    BY <2>4 DEF w
<1>6. new \o Append(short, x) = Append(new \o short, x)
  BY <1>3
<1>7. new \o short \in Seq(S) /\ new \o long = Append(new \o short, x)
  BY <1>3, <1>5, <1>6, ConcatProperties
<1> QED
  BY <1>7 DEF Rebased, u, short, long

LEMMA RebaseSelf ==
  ASSUME NEW S, NEW s \in Seq(S), NEW new \in Seq(S)
  PROVE  Rebased(s, new, s) = new
<1>1. SubSeq(s, Len(s) + 1, Len(s)) = << >>
  BY LenProperties, SubSeqEmpty
<1> QED
  BY <1>1, ConcatEmptySeq DEF Rebased

-----------------------------------------------------------------------------
(* Organizations: what a request has read of its own row holds until the row
   gets a new row_version, and a row that is being created is nobody else's. *)

OrgTypes == OrgMovesTypeOK /\ path \in [Orgs -> Seq(Orgs)]

Reserved(r) ==
  /\ move[r].op = "create" =>
       /\ move[r].row \in Orgs /\ org[move[r].row] = "absent"
       /\ \A x \in Movers \ {r} : move[x].row # move[r].row
  /\ move[r].op \in {"move", "archive", "delete"} =>
       move[r].row \in Orgs /\ org[move[r].row] # "absent"

Held(r) ==
  r \notin stale /\ move[r].op \in {"move", "archive", "delete"} =>
    /\ move[r].row \in Live
    /\ move[r].op = "move" /\ move[r].to # root => ~IsPrefix(path[move[r].row], move[r].path)
    /\ move[r].op = "delete" => move[r].children = {}

OrgInv == OrgTypes /\ (\A r \in Movers : Reserved(r) /\ Held(r)) /\ PathsAreTheTree

LEMMA OrgInitInv == OrgMovesInit => OrgInv
<1> SUFFICES ASSUME OrgMovesInit PROVE OrgInv
  OBVIOUS
<1>1. << >> \in Seq(Orgs)
  BY EmptySeq
<1>2. OrgTypes
  BY <1>1 DEF OrgMovesInit, OrgTypes, OrgMovesTypeOK, NoMove
<1>3. \A r \in Movers : move[r].op = "none"
  BY DEF OrgMovesInit, NoMove
<1>4. Live = {}
  BY DEF OrgMovesInit, Live
<1> QED
  BY <1>2, <1>3, <1>4 DEF OrgInv, Reserved, Held, PathsAreTheTree

(* The fields of a request. *)
LEMMA MoveFields ==
  ASSUME OrgTypes, NEW r \in Movers
  PROVE  /\ move[r].op \in {"none", "create", "move", "archive", "delete"}
         /\ move[r].row \in Orgs \union {root} /\ move[r].to \in Orgs \union {root}
         /\ move[r].path \in Seq(Orgs) /\ move[r].children \in SUBSET Orgs
  BY DEF OrgTypes, OrgMovesTypeOK

(* Deciding changes no row: the tree stays, and the request knows what it read. *)
LEMMA PrepareKeeps ==
  ASSUME OrgInv, NEW r \in Movers,
         NEW q \in [op : {"create", "move", "archive", "delete"}, row : Orgs, to : Orgs \union {root},
                    path : Seq(Orgs), children : SUBSET Orgs],
         Prepare(r, q),
         q.op = "create" => org[q.row] = "absent" /\ \A x \in Movers : move[x].row # q.row,
         q.op # "create" => q.row \in Live,
         q.op = "move" /\ q.to # root => ~IsPrefix(path[q.row], q.path),
         q.op = "delete" => q.children = {}
  PROVE  OrgInv'
<1>1. /\ move \in [Movers -> [op : {"none", "create", "move", "archive", "delete"},
                          row : Orgs \union {root}, to : Orgs \union {root},
                          path : Seq(Orgs), children : SUBSET Orgs]]
      /\ move' = [move EXCEPT ![r] = q]
      /\ UNCHANGED <<org, above, path, stale, torn>>
  BY DEF Prepare, OrgInv, OrgTypes, OrgMovesTypeOK
<1>2. q \in [op : {"none", "create", "move", "archive", "delete"}, row : Orgs \union {root},
             to : Orgs \union {root}, path : Seq(Orgs), children : SUBSET Orgs]
  OBVIOUS
<1>3. OrgTypes'
  BY <1>1, <1>2 DEF OrgInv, OrgTypes, OrgMovesTypeOK
<1>4. Live' = Live
  BY <1>1 DEF Live
<1>5. move'[r] = q /\ \A x \in Movers \ {r} : move'[x] = move[x]
  BY <1>1
<1>6. ASSUME NEW x \in Movers PROVE Reserved(x)' /\ Held(x)'
  <2>1. Reserved(x) /\ Held(x)
    BY DEF OrgInv
  <2>2. CASE x = r
    <3>1. q.op # "create" => org[q.row] # "absent"
      BY DEF Live
    <3> QED
      BY <1>1, <1>4, <1>5, <2>2, <3>1 DEF Reserved, Held
  <2>3. CASE x # r
    <3>1. move'[x] = move[x]
      BY <1>5, <2>3
    <3>2. move[x].op = "create" => q.row # move[x].row
      BY <2>1, <2>3, <1>1 DEF Reserved, Live
    <3>3. Held(x)'
      BY <1>1, <1>4, <2>1, <3>1 DEF Held
    <3>4. Reserved(x)'
      BY <1>1, <1>5, <2>1, <2>3, <3>1, <3>2 DEF Reserved
    <3> QED
      BY <3>3, <3>4
  <2> QED
    BY <2>2, <2>3
<1>7. PathsAreTheTree'
  BY <1>1, <1>4 DEF OrgInv, PathsAreTheTree, PathOf
<1> QED
  BY <1>3, <1>6, <1>7 DEF OrgInv

(* A step that writes the rows T keeps what is known of every other request. *)
LEMMA RequestsKeep ==
  ASSUME OrgInv, NEW T,
         \A x \in Movers : move'[x] = move[x] \/ move'[x] = NoMove,
         \A x \in Movers : move'[x] # NoMove /\ x \notin stale' => x \notin stale /\ move[x].row \notin T,
         \A n \in Orgs \ T : org'[n] = org[n] /\ path'[n] = path[n],
         \A n \in Orgs : org[n] # "absent" => org'[n] # "absent",
         \A x \in Movers : move'[x].op = "create" => move'[x].row \notin T
  PROVE  \A x \in Movers : Reserved(x)' /\ Held(x)'
<1> SUFFICES ASSUME NEW x \in Movers PROVE Reserved(x)' /\ Held(x)'
  OBVIOUS
<1>1. Reserved(x) /\ Held(x)
  BY DEF OrgInv
<1>2. CASE move'[x] = NoMove
  BY <1>2 DEF NoMove, Reserved, Held
<1>3. CASE move'[x] = move[x] /\ move[x] # NoMove
  <2>1. Reserved(x)'
    <3>1. ASSUME move[x].op = "create"
          PROVE  /\ move[x].row \in Orgs /\ org'[move[x].row] = "absent"
                 /\ \A y \in Movers \ {x} : move'[y].row # move[x].row
      <4>1. /\ move[x].row \in Orgs /\ org[move[x].row] = "absent" /\ move[x].row \notin T
            /\ \A y \in Movers \ {x} : move[y].row # move[x].row
        BY <1>1, <1>3, <3>1 DEF Reserved
      <4>2. NoMove.row # move[x].row
        BY <4>1, OrgMovesAssumption DEF NoMove
      <4>3. \A y \in Movers \ {x} : move'[y].row # move[x].row
        BY <4>1, <4>2
      <4> QED
        BY <4>1, <4>3
    <3>2. move[x].op \in {"move", "archive", "delete"} => move[x].row \in Orgs /\ org'[move[x].row] # "absent"
      BY <1>1 DEF Reserved
    <3> QED
      BY <1>3, <3>1, <3>2 DEF Reserved
  <2>2. Held(x)'
    <3> SUFFICES ASSUME x \notin stale', move[x].op \in {"move", "archive", "delete"}
                 PROVE  /\ move[x].row \in Live'
                        /\ move[x].op = "move" /\ move[x].to # root => ~IsPrefix(path'[move[x].row], move[x].path)
                        /\ move[x].op = "delete" => move[x].children = {}
      BY <1>3 DEF Held
    <3>1. x \notin stale /\ move[x].row \notin T /\ move[x].row \in Live
      BY <1>1, <1>3 DEF Held
    <3>2. move[x].row \in Orgs /\ org'[move[x].row] = org[move[x].row] /\ path'[move[x].row] = path[move[x].row]
      BY <3>1 DEF Live
    <3>3. move[x].row \in Live'
      BY <3>1, <3>2 DEF Live
    <3> QED
      BY <1>1, <3>1, <3>2, <3>3 DEF Held
  <2> QED
    BY <2>1, <2>2
<1> QED
  BY <1>2, <1>3

LEMMA WritesKeep ==
  ASSUME OrgInv, NEW r \in Movers, NEW T, Writes(r, T)
  PROVE  /\ move' \in [Movers -> [op : {"none", "create", "move", "archive", "delete"},
                                  row : Orgs \union {root}, to : Orgs \union {root},
                                  path : Seq(Orgs), children : SUBSET Orgs]]
         /\ stale' \in SUBSET Movers /\ torn' \in BOOLEAN
         /\ move'[r] = NoMove /\ \A x \in Movers \ {r} : move'[x] = move[x]
         /\ \A x \in Movers : move'[x] # NoMove /\ x \notin stale' => x \notin stale /\ move[x].row \notin T
<1>1. /\ move \in [Movers -> [op : {"none", "create", "move", "archive", "delete"},
                          row : Orgs \union {root}, to : Orgs \union {root},
                          path : Seq(Orgs), children : SUBSET Orgs]]
      /\ move' = [move EXCEPT ![r] = NoMove]
      /\ stale \in SUBSET Movers /\ torn \in BOOLEAN
      /\ stale' = (stale \union {x \in Movers : move[x].row \in T}) \ {r}
  BY DEF Writes, OrgInv, OrgTypes, OrgMovesTypeOK
<1>2. NoMove \in [op : {"none", "create", "move", "archive", "delete"}, row : Orgs \union {root},
                  to : Orgs \union {root}, path : Seq(Orgs), children : SUBSET Orgs]
  BY EmptySeq DEF NoMove
<1>3. torn' \in BOOLEAN
  BY <1>1 DEF Writes, Torn
<1>4. move'[r] = NoMove /\ \A x \in Movers \ {r} : move'[x] = move[x]
  BY <1>1
<1>5. \A x \in Movers : move'[x] # NoMove /\ x \notin stale' => x \notin stale /\ move[x].row \notin T
  BY <1>1, <1>4
<1> QED
  BY <1>1, <1>2, <1>3, <1>4, <1>5

LEMMA ReopenKeeps ==
  ASSUME OrgInv, NEW n \in Orgs, Reopen(n)
  PROVE  OrgInv'
<1>1. /\ org \in [Orgs -> {"absent", "open", "archived", "deleted"}]
      /\ org' = [org EXCEPT ![n] = "open"] /\ org[n] = "archived"
      /\ stale \in SUBSET Movers /\ stale' = stale \union {x \in Movers : move[x].row = n}
      /\ UNCHANGED <<above, path, move, torn>>
  BY DEF Reopen, OrgInv, OrgTypes, OrgMovesTypeOK
<1>2. OrgTypes'
  BY <1>1 DEF OrgInv, OrgTypes, OrgMovesTypeOK
<1>3. Live' = Live
  BY <1>1 DEF Live
<1>4. \A x \in Movers : Reserved(x)' /\ Held(x)'
  <2>1. \A m \in Orgs \ {n} : org'[m] = org[m] /\ path'[m] = path[m]
    BY <1>1
  <2>2. \A m \in Orgs : org[m] # "absent" => org'[m] # "absent"
    BY <1>1
  <2>3. \A x \in Movers : move'[x].op = "create" => move'[x].row \notin {n}
    BY <1>1 DEF OrgInv, Reserved
  <2>4. \A x \in Movers : move'[x] # NoMove /\ x \notin stale' => x \notin stale /\ move[x].row \notin {n}
    BY <1>1
  <2> QED
    BY <1>1, <2>1, <2>2, <2>3, <2>4, RequestsKeep
<1>5. PathsAreTheTree'
  BY <1>1, <1>3 DEF OrgInv, PathsAreTheTree, PathOf
<1> QED
  BY <1>2, <1>4, <1>5 DEF OrgInv

LEMMA GiveUpKeeps ==
  ASSUME OrgInv, NEW r \in Movers, GiveUp(r)
  PROVE  OrgInv'
<1>1. /\ move \in [Movers -> [op : {"none", "create", "move", "archive", "delete"},
                          row : Orgs \union {root}, to : Orgs \union {root},
                          path : Seq(Orgs), children : SUBSET Orgs]]
      /\ move' = [move EXCEPT ![r] = NoMove]
      /\ stale \in SUBSET Movers /\ stale' = stale \ {r}
      /\ UNCHANGED <<org, above, path, torn>>
  BY DEF GiveUp, OrgInv, OrgTypes, OrgMovesTypeOK
<1>2. NoMove \in [op : {"none", "create", "move", "archive", "delete"}, row : Orgs \union {root},
                  to : Orgs \union {root}, path : Seq(Orgs), children : SUBSET Orgs]
  BY EmptySeq DEF NoMove
<1>3. OrgTypes'
  BY <1>1, <1>2 DEF OrgInv, OrgTypes, OrgMovesTypeOK
<1>4. move'[r] = NoMove /\ \A x \in Movers \ {r} : move'[x] = move[x]
  BY <1>1
<1>5. \A x \in Movers : Reserved(x)' /\ Held(x)'
  <2>1. \A x \in Movers : move'[x] = move[x] \/ move'[x] = NoMove
    BY <1>4
  <2> DEFINE none == {}
  <2>2. \A x \in Movers : move'[x] # NoMove /\ x \notin stale' => x \notin stale /\ move[x].row \notin none
    BY <1>1, <1>4
  <2>3. \A m \in Orgs \ none : org'[m] = org[m] /\ path'[m] = path[m]
    BY <1>1
  <2>4. \A m \in Orgs : org[m] # "absent" => org'[m] # "absent"
    BY <1>1
  <2>5. \A x \in Movers : move'[x].op = "create" => move'[x].row \notin none
    OBVIOUS
  <2> HIDE DEF none
  <2> QED
    BY <2>1, <2>2, <2>3, <2>4, <2>5, RequestsKeep
<1>6. PathsAreTheTree'
  <2>1. Live' = Live
    BY <1>1 DEF Live
  <2> QED
    BY <1>1, <2>1 DEF OrgInv, PathsAreTheTree, PathOf
<1> QED
  BY <1>3, <1>5, <1>6 DEF OrgInv

LEMMA ChangeStatusKeeps ==
  ASSUME OrgInv, NEW r \in Movers, ChangeStatus(r)
  PROVE  OrgInv'
<1> DEFINE n == move[r].row
<1>1. /\ org \in [Orgs -> {"absent", "open", "archived", "deleted"}]
      /\ move[r].op \in {"archive", "delete"} /\ r \notin stale
      /\ org' = [org EXCEPT ![n] = IF move[r].op = "archive" THEN "archived" ELSE "deleted"]
      /\ Writes(r, {n})
      /\ UNCHANGED <<above, path>>
  BY DEF ChangeStatus, OrgInv, OrgTypes, OrgMovesTypeOK
<1>2. /\ Reserved(r) /\ Held(r)
      /\ n \in Live /\ n \in Orgs
      /\ move[r].op = "delete" => move[r].children = {}
  BY <1>1 DEF OrgInv, Reserved, Held
<1>3. OrgTypes'
  BY <1>1, WritesKeep DEF OrgInv, OrgTypes, OrgMovesTypeOK
<1>4. \A m \in Orgs \ {n} : org'[m] = org[m] /\ path'[m] = path[m]
  BY <1>1
<1>5. \A m \in Orgs : org[m] # "absent" => org'[m] # "absent"
  BY <1>1
<1>6. \A x \in Movers : Reserved(x)' /\ Held(x)'
  <2>1. \A x \in Movers : move'[x].op = "create" => move'[x].row \notin {n}
    <3> SUFFICES ASSUME NEW x \in Movers, move'[x].op = "create" PROVE move'[x].row # n
      OBVIOUS
    <3>1. x # r /\ move'[x] = move[x]
      BY <1>1, WritesKeep DEF NoMove
    <3>2. org[move[x].row] = "absent"
      BY <3>1 DEF OrgInv, Reserved
    <3> QED
      BY <1>2, <3>1, <3>2 DEF Live
  <2>2. \A x \in Movers : move'[x] = move[x] \/ move'[x] = NoMove
    BY <1>1, WritesKeep
  <2>3. \A x \in Movers : move'[x] # NoMove /\ x \notin stale' => x \notin stale /\ move[x].row \notin {n}
    BY <1>1, WritesKeep
  <2> QED
    BY <1>4, <1>5, <2>1, <2>2, <2>3, RequestsKeep
<1>7. PathsAreTheTree'
  <2> SUFFICES ASSUME ~torn', NEW m \in Live'
               PROVE  above'[m] \in Live' \union {root} /\ path'[m] = Append(PathOf(above[m])', m)
    BY <1>1 DEF PathsAreTheTree, PathOf
  <2>1. ~torn /\ (move[r].op = "delete" => Children(n) = {})
    BY <1>1, <1>2 DEF Writes, Torn
  <2>2. m \in Live /\ Live \ {n} \subseteq Live' /\ (move[r].op = "archive" => n \in Live')
    BY <1>1, <1>2 DEF Live
  <2>3. above[m] \in Live \union {root} /\ path[m] = Append(PathOf(above[m]), m)
    BY <2>1, <2>2 DEF OrgInv, PathsAreTheTree
  <2>4. move[r].op = "delete" => above[m] # n
    BY <2>1, <2>2 DEF Children
  <2> QED
    BY <1>1, <2>2, <2>3, <2>4 DEF PathOf
<1> QED
  BY <1>3, <1>6, <1>7 DEF OrgInv

LEMMA CreateKeeps ==
  ASSUME OrgInv, NEW r \in Movers, Create(r)
  PROVE  OrgInv'
<1> DEFINE n == move[r].row
           p == move[r].to
<1>1. /\ org \in [Orgs -> {"absent", "open", "archived", "deleted"}]
      /\ above \in [Orgs -> Orgs \union {root}] /\ path \in [Orgs -> Seq(Orgs)]
      /\ move[r].op = "create"
      /\ org' = [org EXCEPT ![n] = "open"]
      /\ above' = [above EXCEPT ![n] = p]
      /\ path' = [path EXCEPT ![n] = Append(move[r].path, n)]
      /\ Writes(r, {n})
  BY DEF Create, OrgInv, OrgTypes, OrgMovesTypeOK
<1>2. /\ n \in Orgs /\ org[n] = "absent" /\ n \notin Live
      /\ \A x \in Movers \ {r} : move[x].row # n
      /\ p \in Orgs \union {root} /\ move[r].path \in Seq(Orgs)
  BY <1>1, MoveFields DEF OrgInv, Reserved, Live
<1>3. OrgTypes'
  <2>1. Append(move[r].path, n) \in Seq(Orgs)
    BY <1>2, AppendProperties
  <2> QED
    BY <1>1, <1>2, <2>1, WritesKeep DEF OrgInv, OrgTypes, OrgMovesTypeOK
<1>4. \A m \in Orgs \ {n} : org'[m] = org[m] /\ above'[m] = above[m] /\ path'[m] = path[m]
  BY <1>1
<1>5. \A x \in Movers : Reserved(x)' /\ Held(x)'
  <2>1. \A x \in Movers : move'[x].op = "create" => move'[x].row \notin {n}
    <3> SUFFICES ASSUME NEW x \in Movers, move'[x].op = "create" PROVE move'[x].row # n
      OBVIOUS
    <3>1. x # r /\ move'[x] = move[x]
      BY <1>1, WritesKeep DEF NoMove
    <3> QED
      BY <1>2, <3>1
  <2>2. \A x \in Movers : move'[x] = move[x] \/ move'[x] = NoMove
    BY <1>1, WritesKeep
  <2>3. \A x \in Movers : move'[x] # NoMove /\ x \notin stale' => x \notin stale /\ move[x].row \notin {n}
    BY <1>1, WritesKeep
  <2>4. \A m \in Orgs \ {n} : org'[m] = org[m] /\ path'[m] = path[m]
    BY <1>4
  <2>5. \A m \in Orgs : org[m] # "absent" => org'[m] # "absent"
    BY <1>1
  <2> QED
    BY <2>1, <2>2, <2>3, <2>4, <2>5, RequestsKeep
<1>6. PathsAreTheTree'
  <2> SUFFICES ASSUME ~torn', NEW m \in Live'
               PROVE  above'[m] \in Live' \union {root} /\ path'[m] = Append(PathOf(above[m])', m)
    BY DEF PathsAreTheTree, PathOf
  <2>1. ~torn /\ OpenParent(p) /\ PathOf(p) = move[r].path
    BY <1>1 DEF Writes, Torn
  <2>2. Live' = Live \union {n}
    BY <1>1, <1>2, <1>4 DEF Live
  <2>3. p # n /\ p \in Live \union {root}
    BY <1>2, <2>1, OrgMovesAssumption DEF OpenParent, Live
  <2>4. CASE m = n
    <3>1. above'[n] = p /\ path'[n] = Append(move[r].path, n)
      BY <1>1, <1>2
    <3>2. p # root => path'[p] = path[p]
      BY <1>2, <1>4, <2>3
    <3>3. path'[n] = Append(IF p = root THEN << >> ELSE path'[p], n)
      BY <2>1, <3>1, <3>2 DEF PathOf
    <3> QED
      BY <2>2, <2>3, <2>4, <3>1, <3>3 DEF PathOf
  <2>5. CASE m # n
    <3>1. m \in Live /\ m \in Orgs
      BY <2>2, <2>5 DEF Live
    <3>2. above[m] \in Live \union {root} /\ path[m] = Append(PathOf(above[m]), m)
      BY <2>1, <3>1 DEF OrgInv, PathsAreTheTree
    <3>3. above[m] # n
      BY <1>2, <3>2, OrgMovesAssumption
    <3>4. above'[m] = above[m] /\ path'[m] = path[m]
      BY <1>4, <2>5, <3>1
    <3>5. above[m] # root => above[m] \in Orgs \ {n}
      BY <3>2, <3>3 DEF Live
    <3>6. above[m] # root => path'[above[m]] = path[above[m]]
      BY <1>4, <3>5
    <3> QED
      BY <2>2, <3>2, <3>4, <3>6 DEF PathOf
  <2> QED
    BY <2>4, <2>5
<1> QED
  BY <1>3, <1>5, <1>6 DEF OrgInv

(* The row of a move, the rows below it, and the others, where what it read holds. *)
LEMMA MovedTree ==
  ASSUME OrgInv, ~torn, NEW n \in Live, NEW p, OpenParent(p), NotBelow(n, p),
         NEW m \in Live
  PROVE  LET after == Moved(n, Append(PathOf(p), n))
             parent == IF m = n THEN p ELSE above[m]
         IN  after[m] = Append(IF parent = root THEN << >> ELSE after[parent], m)
<1> DEFINE s == path[n]
           new == Append(PathOf(p), n)
           after == Moved(n, new)
           a == above[m]
<1>1. path \in [Orgs -> Seq(Orgs)] /\ n \in Orgs /\ m \in Orgs /\ s \in Seq(Orgs) /\ Live \subseteq Orgs
  BY DEF OrgInv, OrgTypes, Live
<1>2. /\ a \in Live \union {root} /\ path[m] = Append(PathOf(a), m)
      /\ above[n] \in Live \union {root} /\ s = Append(PathOf(above[n]), n)
  BY DEF OrgInv, PathsAreTheTree
<1>3. PathOf(p) \in Seq(Orgs) /\ PathOf(a) \in Seq(Orgs) /\ PathOf(above[n]) \in Seq(Orgs)
  BY <1>1, <1>2, EmptySeq DEF PathOf, OpenParent
<1>4. new \in Seq(Orgs)
  BY <1>1, <1>3, AppendProperties
<1>5. /\ after[n] = new
      /\ \A x \in Descendants(n) : after[x] = Rebased(s, new, path[x])
      /\ \A x \in Orgs \ {n} : x \notin Descendants(n) => after[x] = path[x]
  BY <1>1 DEF Moved, Descendants, Rebased
<1> HIDE DEF after, new
<1>0. /\ IsPrefix(s, PathOf(a)) => IsPrefix(s, path[m])
      /\ IsPrefix(s, path[m]) /\ s # path[m] => IsPrefix(s, PathOf(a))
      /\ IsPrefix(s, s)
  <2> HIDE DEF s, a
  <2>1. /\ IsPrefix(s, PathOf(a)) => IsPrefix(s, Append(PathOf(a), m))
        /\ IsPrefix(s, Append(PathOf(a), m)) /\ s # Append(PathOf(a), m) => IsPrefix(s, PathOf(a))
        /\ IsPrefix(s, s)
    BY <1>1, <1>3, PrefixOfAppend
  <2> QED
    BY <1>2, <2>1
<1>6. \A x \in Live \ {n} : x \in Descendants(n) <=> IsPrefix(s, path[x])
  BY <1>1 DEF Descendants, Live
<1> HIDE DEF s, a
<1>7. CASE m = n
  <2>1. ASSUME p # root PROVE after[p] = path[p]
    <3>1. p \in Live /\ ~IsPrefix(s, path[p])
      BY <2>1 DEF OpenParent, NotBelow, Live, s
    <3>2. p # n
      BY <1>0, <3>1 DEF s
    <3> QED
      BY <1>1, <1>5, <1>6, <3>1, <3>2
  <2> QED
    BY <1>5, <1>7, <2>1 DEF new, after, PathOf
<1>8. CASE m # n /\ IsPrefix(s, path[m])
  <2>1. s # path[m]
    BY <1>1, <1>2, <1>3, <1>8, AppendInjective
  <2>2. IsPrefix(s, PathOf(a))
    BY <1>0, <1>8, <2>1
  <2>3. a # root
    <3>1. Len(s) \in Nat /\ Len(s) # 0
      <4> DEFINE t == PathOf(above[n])
      <4>1. t \in Seq(Orgs) /\ s = Append(t, n)
        BY <1>2, <1>3
      <4> HIDE DEF t
      <4>2. Len(Append(t, n)) = Len(t) + 1 /\ Len(t) \in Nat
        BY <1>1, <4>1, AppendProperties, LenProperties
      <4> QED
        BY <4>1, <4>2
    <3>2. \A t \in Seq(Orgs) : IsPrefix(s, t) => Len(s) =< Len(t)
      BY <1>1, PrefixPointwise
    <3>3. Len(PathOf(a)) # 0
      BY <1>3, <2>2, <3>1, <3>2, LenProperties
    <3> QED
      BY <3>3, EmptySeq DEF PathOf
  <2>4. a \in Live /\ PathOf(a) = path[a]
    BY <1>2, <2>3 DEF PathOf
  <2>5. after[a] = Rebased(s, new, path[a])
    <3>1. CASE a = n
      BY <1>1, <1>4, <1>5, <3>1, RebaseSelf DEF s
    <3>2. CASE a # n
      BY <1>5, <1>6, <2>2, <2>4, <3>2
    <3> QED
      BY <3>1, <3>2
  <2>6. after[m] = Rebased(s, new, path[m])
    BY <1>5, <1>6, <1>8
  <2>7. after[m] = Append(after[a], m)
    <3>1. path[a] \in Seq(Orgs) /\ IsPrefix(s, path[a]) /\ path[m] = Append(path[a], m)
      BY <1>2, <1>3, <2>2, <2>4
    <3>2. Rebased(s, new, Append(path[a], m)) = Append(Rebased(s, new, path[a]), m)
      BY <1>1, <1>4, <3>1, Rebase
    <3> QED
      BY <2>5, <2>6, <3>1, <3>2
  <2> QED
    BY <1>8, <2>3, <2>7 DEF after, new, a
<1>9. CASE m # n /\ ~IsPrefix(s, path[m])
  <2>1. after[m] = path[m]
    BY <1>1, <1>5, <1>6, <1>9
  <2>2. ASSUME a # root PROVE after[a] = path[a]
    <3>1. a \in Live /\ PathOf(a) = path[a]
      BY <1>2, <2>2 DEF PathOf
    <3>2. ~IsPrefix(s, path[a])
      BY <1>0, <1>9, <3>1
    <3>3. a # n
      BY <1>0, <3>2 DEF s
    <3> QED
      BY <1>1, <1>5, <1>6, <3>1, <3>2, <3>3
  <2> QED
    BY <1>2, <1>9, <2>1, <2>2 DEF after, new, a, PathOf
<1> QED
  BY <1>7, <1>8, <1>9

LEMMA MoveKeeps ==
  ASSUME OrgInv, NEW r \in Movers, Move(r)
  PROVE  OrgInv'
<1> DEFINE n == move[r].row
           p == move[r].to
           new == Append(move[r].path, n)
<1>1. /\ above \in [Orgs -> Orgs \union {root}] /\ path \in [Orgs -> Seq(Orgs)]
      /\ move[r].op = "move" /\ r \notin stale
      /\ above' = [above EXCEPT ![n] = p]
      /\ path' = Moved(n, new)
      /\ Writes(r, {n} \union Descendants(n))
      /\ UNCHANGED org
  BY DEF Move, OrgInv, OrgTypes, OrgMovesTypeOK
<1>2. /\ n \in Live /\ n \in Orgs
      /\ p # root => ~IsPrefix(path[n], move[r].path)
      /\ p \in Orgs \union {root} /\ move[r].path \in Seq(Orgs)
  BY <1>1, MoveFields DEF OrgInv, Held, Live
<1>3. Live' = Live /\ Live \subseteq Orgs
  BY <1>1 DEF Live
<1>4. \A m \in Orgs \ ({n} \union Descendants(n)) : path'[m] = path[m]
  BY <1>1 DEF Moved
<1>5. path' \in [Orgs -> Seq(Orgs)]
  <2>1. new \in Seq(Orgs)
    BY <1>2, AppendProperties
  <2>2. ASSUME NEW m \in Descendants(n)
        PROVE  Rebased(path[n], new, path[m]) \in Seq(Orgs)
    <3>1. m \in Orgs /\ IsPrefix(path[n], path[m]) /\ path[m] \in Seq(Orgs) /\ path[n] \in Seq(Orgs)
      BY <1>1, <1>2 DEF Descendants
    <3> HIDE DEF new
    <3> QED
      BY <1>2, <2>1, <3>1, Rebase
  <2> HIDE DEF new
  <2> QED
    BY <1>1, <2>1, <2>2 DEF Moved, Rebased
<1>6. OrgTypes'
  BY <1>1, <1>2, <1>5, WritesKeep DEF OrgInv, OrgTypes, OrgMovesTypeOK
<1>7. \A x \in Movers : Reserved(x)' /\ Held(x)'
  <2> DEFINE T == {n} \union Descendants(n)
  <2>1. \A x \in Movers : move'[x].op = "create" => move'[x].row \notin T
    <3> SUFFICES ASSUME NEW x \in Movers, move'[x].op = "create" PROVE move'[x].row \notin T
      OBVIOUS
    <3>1. x # r /\ move'[x] = move[x]
      BY <1>1, WritesKeep DEF NoMove
    <3>2. org[move[x].row] = "absent"
      BY <3>1 DEF OrgInv, Reserved
    <3> QED
      BY <1>2, <3>1, <3>2 DEF Live, Descendants
  <2>2. \A x \in Movers : move'[x] = move[x] \/ move'[x] = NoMove
    BY <1>1, WritesKeep
  <2>3. \A x \in Movers : move'[x] # NoMove /\ x \notin stale' => x \notin stale /\ move[x].row \notin T
    BY <1>1, WritesKeep
  <2>4. \A m \in Orgs \ T : org'[m] = org[m] /\ path'[m] = path[m]
    BY <1>1, <1>4
  <2>5. \A m \in Orgs : org[m] # "absent" => org'[m] # "absent"
    BY <1>1
  <2> HIDE DEF T
  <2> QED
    BY <2>1, <2>2, <2>3, <2>4, <2>5, RequestsKeep
<1>8. PathsAreTheTree'
  <2> SUFFICES ASSUME ~torn', NEW m \in Live'
               PROVE  above'[m] \in Live' \union {root} /\ path'[m] = Append(PathOf(above[m])', m)
    BY DEF PathsAreTheTree, PathOf
  <2>1. ~torn /\ OpenParent(p) /\ PathOf(p) = move[r].path
    BY <1>1 DEF Writes, Torn
  <2>2. NotBelow(n, p)
    BY <1>2, <2>1 DEF NotBelow, PathOf
  <2>3. m \in Live /\ m \in Orgs
    BY <1>3
  <2>4. above[m] \in Live \union {root} /\ p \in Live \union {root}
    BY <2>1, <2>3 DEF OrgInv, PathsAreTheTree, OpenParent, Live
  <2>5. above'[m] = IF m = n THEN p ELSE above[m]
    BY <1>1, <2>3
  <2>6. path' = Moved(n, Append(PathOf(p), n))
    BY <1>1, <2>1
  <2>7. path'[m] = Append(IF above'[m] = root THEN << >> ELSE path'[above'[m]], m)
    <3> HIDE DEF p, n
    <3> DEFINE after == Moved(n, Append(PathOf(p), n))
               parent == IF m = n THEN p ELSE above[m]
    <3>1. after[m] = Append(IF parent = root THEN << >> ELSE after[parent], m)
      BY <1>2, <2>1, <2>2, <2>3, MovedTree
    <3>2. path' = after /\ above'[m] = parent
      BY <2>5, <2>6
    <3> HIDE DEF after, parent
    <3> QED
      BY <3>1, <3>2
  <2> QED
    BY <1>3, <2>4, <2>5, <2>7 DEF PathOf
<1> QED
  BY <1>6, <1>7, <1>8 DEF OrgInv

LEMMA OrgStepInv == OrgInv /\ [OrgMovesNext]_orgVars => OrgInv'
<1> SUFFICES ASSUME OrgInv, [OrgMovesNext]_orgVars PROVE OrgInv'
  OBVIOUS
<1>1. ASSUME NEW r \in Movers, NEW n \in Orgs, DecideArchive(r, n) PROVE OrgInv'
  <2> DEFINE q == [NoMove EXCEPT !.op = "archive", !.row = n]
  <2>1. /\ q \in [op : {"create", "move", "archive", "delete"}, row : Orgs, to : Orgs \union {root},
                  path : Seq(Orgs), children : SUBSET Orgs]
        /\ q.op = "archive" /\ q.row = n
    BY EmptySeq DEF NoMove
  <2>2. Prepare(r, q) /\ n \in Live
    BY <1>1 DEF DecideArchive, Live
  <2> HIDE DEF q
  <2> QED
    BY <2>1, <2>2, PrepareKeeps
<1>2. ASSUME NEW r \in Movers, NEW n \in Orgs, DecideDelete(r, n) PROVE OrgInv'
  <2> DEFINE q == [NoMove EXCEPT !.op = "delete", !.row = n, !.children = Children(n)]
  <2>1. n \in Live /\ Children(n) = {}
    BY <1>2 DEF DecideDelete
  <2>2. /\ q \in [op : {"create", "move", "archive", "delete"}, row : Orgs, to : Orgs \union {root},
                  path : Seq(Orgs), children : SUBSET Orgs]
        /\ q.op = "delete" /\ q.row = n /\ q.children = {}
    BY <2>1, EmptySeq DEF NoMove
  <2>3. Prepare(r, q)
    BY <1>2 DEF DecideDelete
  <2> HIDE DEF q
  <2> QED
    BY <2>1, <2>2, <2>3, PrepareKeeps
<1>3. ASSUME NEW r \in Movers, NEW n \in Orgs, NEW p \in Orgs \union {root}, DecideCreate(r, n, p) PROVE OrgInv'
  <2> DEFINE q == [NoMove EXCEPT !.op = "create", !.row = n, !.to = p, !.path = PathOf(p)]
  <2>1. PathOf(p) \in Seq(Orgs)
    BY EmptySeq DEF OrgInv, OrgTypes, PathOf
  <2>2. /\ q \in [op : {"create", "move", "archive", "delete"}, row : Orgs, to : Orgs \union {root},
                  path : Seq(Orgs), children : SUBSET Orgs]
        /\ q.op = "create" /\ q.row = n
    BY <2>1 DEF NoMove
  <2>3. Prepare(r, q) /\ org[n] = "absent" /\ \A x \in Movers : move[x].row # n
    BY <1>3 DEF DecideCreate
  <2> HIDE DEF q
  <2> QED
    BY <2>2, <2>3, PrepareKeeps
<1>4. ASSUME NEW r \in Movers, NEW n \in Orgs, NEW p \in Orgs \union {root}, DecideMove(r, n, p) PROVE OrgInv'
  <2> DEFINE q == [NoMove EXCEPT !.op = "move", !.row = n, !.to = p, !.path = PathOf(p)]
  <2>1. PathOf(p) \in Seq(Orgs)
    BY EmptySeq DEF OrgInv, OrgTypes, PathOf
  <2>2. /\ q \in [op : {"create", "move", "archive", "delete"}, row : Orgs, to : Orgs \union {root},
                  path : Seq(Orgs), children : SUBSET Orgs]
        /\ q.op = "move" /\ q.row = n /\ q.to = p /\ q.path = PathOf(p)
    BY <2>1 DEF NoMove
  <2>3. Prepare(r, q) /\ n \in Live /\ (p # root => ~IsPrefix(path[n], PathOf(p)))
    BY <1>4 DEF DecideMove, NotBelow, PathOf
  <2> HIDE DEF q
  <2> QED
    BY <2>2, <2>3, PrepareKeeps
<1>5. CASE UNCHANGED orgVars
  <2>1. Live' = Live
    BY <1>5 DEF orgVars, Live
  <2>2. OrgTypes'
    BY <1>5 DEF orgVars, OrgInv, OrgTypes, OrgMovesTypeOK
  <2>3. ASSUME NEW x \in Movers PROVE Reserved(x)' /\ Held(x)'
    <3>1. Reserved(x) /\ Held(x)
      BY DEF OrgInv
    <3>2. UNCHANGED <<org, path, move, stale>>
      BY <1>5 DEF orgVars
    <3> QED
      BY <2>1, <3>1, <3>2 DEF Reserved, Held
  <2>4. PathsAreTheTree'
    BY <1>5, <2>1 DEF orgVars, OrgInv, PathsAreTheTree, PathOf
  <2> QED
    BY <2>2, <2>3, <2>4 DEF OrgInv
<1> QED
  BY <1>1, <1>2, <1>3, <1>4, <1>5, ReopenKeeps, CreateKeeps, MoveKeeps, ChangeStatusKeeps, GiveUpKeeps DEF OrgMovesNext

(* Of any number of organizations and of requests at once, the paths are the
   tree of parents unless a request wrote on what had changed since it read it. *)
THEOREM TreeUnlessTorn == OrgMovesSpec => [](OrgMovesTypeOK /\ PathsAreTheTree)
<1>1. OrgInv => OrgMovesTypeOK /\ PathsAreTheTree
  BY DEF OrgInv, OrgTypes
<1> QED
  BY <1>1, OrgInitInv, OrgStepInv, PTL DEF OrgMovesSpec

-----------------------------------------------------------------------------
(* The record, the owners, the grants and the organizations side by side. *)

(* A behaviour of the composite run is one of each of its parts. *)
LEMMA RecordsParts == RecordsSpec => Spec /\ OwnersSpec /\ GrantCacheSpec /\ OrgMovesSpec
<1>1. RecordsInit => Init /\ OwnersInit /\ GrantCacheInit /\ OrgMovesInit
  BY DEF RecordsInit
<1>2. [RecordsNext]_allVars => /\ [Next]_vars /\ [OwnersNext]_ownerVars
                               /\ [GrantCacheNext]_grantVars /\ [OrgMovesNext]_orgVars
  BY DEF RecordsNext, allVars, recordVars
<1> QED
  BY <1>1, <1>2, PTL DEF RecordsSpec, Spec, OwnersSpec, GrantCacheSpec, OrgMovesSpec

Chosen == part \in {"record", "owners", "grants", "organizations"}

(* Every variable of the four parts keeps its type. *)
THEOREM RecordsTypes == RecordsSpec => []RecordsTypeOK
<1>1. RecordsInit => Chosen
  BY DEF RecordsInit, Chosen
<1>2. Chosen /\ [RecordsNext]_allVars => Chosen'
  BY DEF RecordsNext, allVars, Chosen
<1>3. TypeOK /\ OwnersTypeOK /\ GrantCacheTypeOK /\ OrgMovesTypeOK /\ Chosen => RecordsTypeOK
  BY DEF RecordsTypeOK, Chosen
<1> QED
  BY <1>1, <1>2, <1>3, RecordsParts, TypeCorrect, OwnerlessByCause, OldByCause, TreeUnlessTorn,
     PTL DEF RecordsSpec
=============================================================================
