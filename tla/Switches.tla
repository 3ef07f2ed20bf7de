------------------------------- MODULE Switches -------------------------------
(***************************************************************************)
(* The durable switches of the Zoho engine (modules/zoho/control/          *)
(* switches.py): system settings in Postgres, one key each, and the Redis  *)
(* hash that mirrors all of them for the checks of the transport and the   *)
(* planner.  Operators change them (zoho/admin/service.py) while processes *)
(* that miss the mirror rebuild it.                                        *)
(*                                                                         *)
(* A change is one transaction: the setting is read and flushed, the       *)
(* mirror is read and written as a whole, and get_db() commits at the end  *)
(* of the request, or rolls back.  The row of a setting, which has been    *)
(* set before, carries no row_version, and the ORM updates the columns     *)
(* that differ from what it has read, only.  The mirror has no expiry.     *)
(***************************************************************************)
EXTENDS FiniteSets

CONSTANTS
  Operators,  \* requests in flight that change a switch
  Readers,    \* processes whose cached snapshot has expired
  Flags,      \* switches with a value of their own, by what they stop
  Modules     \* members of the list paused_modules

ASSUME SwitchesAssumption == Operators \intersect Readers = {} /\ Flags \intersect Modules = {}

VARIABLES
  settings,  \* the committed settings: what is stopped
  mirror,    \* the hash: is it there, and what it says is stopped
  change,    \* what each operator's request is doing
  rebuild,   \* what each reader has loaded from Postgres and not yet mirrored
  doubt      \* history: may the mirror be wrong since it was last known to be right

switchVars == <<settings, mirror, change, rebuild, doubt>>

Stops == Flags \union Modules
Switch == {{f} : f \in Flags} \union {Modules}   \* the members each key decides on
NoChange == [at |-> "none", key |-> {}, value |-> {}, writes |-> "nothing", copy |-> {}]
NoRebuild == [at |-> "none", copy |-> {}, alone |-> FALSE]

SwitchesTypeOK ==
  /\ settings \in SUBSET Stops
  /\ mirror \in [loaded : BOOLEAN, stops : SUBSET Stops]
  /\ change \in [Operators -> [at : {"none", "loaded", "flushed", "read", "mirrored"},
                               key : Switch \union {{}}, value : SUBSET Stops,
                               writes : {"value", "name", "nothing"}, copy : SUBSET Stops]]
  /\ rebuild \in [Readers -> [at : {"none", "loaded"}, copy : SUBSET Stops, alone : BOOLEAN]]
  /\ doubt \in BOOLEAN

SwitchesInit ==
  /\ settings = {} /\ mirror = [loaded |-> FALSE, stops |-> {}]
  /\ change = [o \in Operators |-> NoChange]
  /\ rebuild = [r \in Readers |-> NoRebuild]
  /\ doubt = FALSE

\* From the flush of a change on, and from the moment a reader has loaded the settings,
\* the two can cross.
Changing == {o \in Operators : change[o].at \in {"flushed", "read", "mirrored"}}
Rebuilding == {r \in Readers : rebuild[r].at # "none"}

With(stops, t) == (stops \ t.key) \union t.value

\* An UPDATE, of the value or of updated_by alone, locks the row of the key until the end.
HasRow(o, key) == o \in Changing /\ change[o].key = key /\ change[o].writes # "nothing"

-----------------------------------------------------------------------------
(* set_switch(), pause_module(), EngineSwitches.set(). *)

\* set_setting(), the SELECT: what the flush is going to write.  Where the value is
\* already that, it is updated_by, or nothing if the same operator set it.
LoadSetting(o, key, value) == \E writes \in {"value", "name", "nothing"} :
  /\ change[o] = NoChange
  /\ writes = "value" <=> settings \intersect key # value
  /\ change' = [change EXCEPT ![o] = [NoChange EXCEPT !.at = "loaded", !.key = key,
                                        !.value = value, !.writes = writes]]
  /\ UNCHANGED <<settings, mirror, rebuild, doubt>>

CallSet(o, f, on) == LoadSetting(o, {f}, IF on THEN {f} ELSE {})

\* The module is added to or removed from the list of a snapshot, which the process may
\* have had for seconds: whatever list it says.
CallPause(o, m, pause) == \E seen \in SUBSET Modules :
  LoadSetting(o, Modules, (seen \ {m}) \union (IF pause THEN {m} ELSE {}))

\* A change that does not write the value, for it was that when it was read.
Stale(t) == t.writes # "value" /\ settings \intersect t.key # t.value

\* db.flush(): an UPDATE waits for the row.  A change that meets another one, or a
\* reader, may leave the mirror wrong.
Flush(o) ==
  /\ change[o].at = "loaded"
  /\ change[o].writes # "nothing" => \A p \in Operators : ~HasRow(p, change[o].key)
  /\ change' = [change EXCEPT ![o].at = "flushed"]
  /\ doubt' = (doubt \/ Changing \union Rebuilding # {} \/ Stale(change[o]))
  /\ rebuild' = [r \in Readers |-> [rebuild[r] EXCEPT !.alone = FALSE]]
  /\ UNCHANGED <<settings, mirror>>

\* _load_from_redis(); without a mirror, or an answer, the defaults.
ReadMirror(o, found) ==
  /\ change[o].at = "flushed" /\ (found => mirror.loaded)
  /\ change' = [change EXCEPT ![o] = [@ EXCEPT
                  !.at = "read", !.copy = IF found THEN mirror.stops ELSE {}]]
  /\ doubt' = (doubt \/ ~found)
  /\ UNCHANGED <<settings, mirror, rebuild>>

\* Mutant: the mirror gets what it already said.
OldCopy(t) == t.copy
NewMirror(t) == With(t.copy, t)

WriteMirror(o) ==
  /\ change[o].at = "read"
  /\ mirror' = [loaded |-> TRUE, stops |-> NewMirror(change[o])]
  /\ change' = [change EXCEPT ![o] = [@ EXCEPT !.at = "mirrored", !.copy = {}]]
  /\ UNCHANGED <<settings, rebuild, doubt>>

\* A RedisError is logged, and the request goes on.
MirrorUnwritten(o) ==
  /\ change[o].at = "read"
  /\ change' = [change EXCEPT ![o] = [@ EXCEPT !.at = "mirrored", !.copy = {}]]
  /\ doubt' = TRUE
  /\ UNCHANGED <<settings, mirror, rebuild>>

CommitChange(o) ==
  /\ change[o].at = "mirrored"
  /\ settings' = IF change[o].writes = "value" THEN With(settings, change[o]) ELSE settings
  /\ change' = [change EXCEPT ![o] = NoChange]
  /\ UNCHANGED <<mirror, rebuild, doubt>>

\* A refused value, an error, a crash: what is mirrored stays mirrored.
RollBackChange(o) ==
  /\ change[o].at # "none"
  /\ doubt' = (doubt \/ change[o].at = "mirrored")
  /\ change' = [change EXCEPT ![o] = NoChange]
  /\ UNCHANGED <<settings, mirror, rebuild>>

-----------------------------------------------------------------------------
(* snapshot() when _load_from_redis() finds no mirror or gets no answer - that of
   a check, or the one at the end of a change - and the loss of the mirror.    *)

LoadSettings(r) ==
  /\ rebuild[r] = NoRebuild
  /\ rebuild' = [x \in Readers |->
                   IF x = r THEN [at |-> "loaded", copy |-> settings, alone |-> Changing = {}]
                   ELSE rebuild[x]]
  /\ UNCHANGED <<settings, mirror, change, doubt>>

Rebuild(r) ==
  /\ rebuild[r].at = "loaded"
  /\ mirror' = [loaded |-> TRUE, stops |-> rebuild[r].copy]
  /\ doubt' = ~rebuild[r].alone
  /\ rebuild' = [rebuild EXCEPT ![r] = NoRebuild]
  /\ UNCHANGED <<settings, change>>

\* The reader dies, or Redis fails.
RebuildFails(r) ==
  /\ rebuild[r].at = "loaded"
  /\ rebuild' = [rebuild EXCEPT ![r] = NoRebuild]
  /\ UNCHANGED <<settings, mirror, change, doubt>>

\* Redis evicts the key or restarts.
LoseMirror ==
  /\ mirror.loaded
  /\ mirror' = [loaded |-> FALSE, stops |-> {}]
  /\ UNCHANGED <<settings, change, rebuild, doubt>>

SwitchesNext ==
  \/ LoseMirror
  \/ \E o \in Operators :
       \/ \E on \in BOOLEAN : (\E f \in Flags : CallSet(o, f, on)) \/ \E m \in Modules : CallPause(o, m, on)
       \/ \E found \in BOOLEAN : ReadMirror(o, found)
       \/ Flush(o) \/ WriteMirror(o) \/ MirrorUnwritten(o) \/ CommitChange(o) \/ RollBackChange(o)
  \/ \E r \in Readers : LoadSettings(r) \/ Rebuild(r) \/ RebuildFails(r)

SwitchesSpec == SwitchesInit /\ [][SwitchesNext]_switchVars

-----------------------------------------------------------------------------
(* Properties. *)

MirrorIsRight == (mirror.loaded /\ Changing = {}) => mirror.stops = settings

(* switches.py, "a Redis hash mirrors them": between two changes the mirror says
   what the settings say, however often it is lost and rebuilt, unless a
   change overlapped another one or a rebuild, was rolled back after it had
   written the mirror, could not write it, found none, or left the setting
   alone because it had read there what it was to set, before another change
   of that setting was committed.                                          *)
MirrorWrongOnlyByCause == ~doubt => MirrorIsRight
=============================================================================
