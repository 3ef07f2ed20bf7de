SPECIFICATION RecordsSpec
CONSTANTS
  r1 = r1  r2 = r2
  \* two lanes, a record edited twice, and room for a second entity row
  Lanes = {r1, r2}
  MaxTime = 2
  MaxEntities = 2
  \* an organization of two users, and one from elsewhere
  Removals = {r1, r2}
  Locals = {a, b}
  founder = a
  Outsiders = {c}
  Reaches = {"whole", "partial"}
  noUser = noUser
  \* one user's grants, one of which ends; a load depends on nothing another did
  Fillers = {load1}
  Ttl = 2
  GrantEnd = 1
  MaxClock = 2
  MaxEpoch = 1
  \* three organizations
  Movers = {r1, r2}
  Orgs = {o1, o2, o3}
  root = root
SYMMETRY Symmetry
CONSTRAINT UntilTorn
CHECK_DEADLOCK FALSE
INVARIANTS RecordsTypeOK EntityFollowsCrosswalk TombstonesAreRight
  OwnerlessOnlyByCause OldOnlyByCause PathsAreTheTree
PROPERTIES MirrorsTheRecord
