\* Two requests in every part. Shifts and sessions are the same two model
\* values, which are also the variants of an image.
SPECIFICATION RequestsSpec
CONSTANTS
  r1 = r1  r2 = r2  s1 = s1  s2 = s2
  none = none  nobody = nobody
  \* a field day
  Requests = {r1, r2}
  beat = beat
  Shifts = {s1, s2}
  Visits = {v1}
  MaxPauses = 2
  \* a user's sessions
  Clients = {r1, r2}
  Sids = {s1, s2}
  MaxLive = 1
  MaxPasswords = 2
  \* a tree of three nodes
  Editors = {r1, r2}
  Size = 3
  top = top
  \* the switches
  Operators = {r1, r2}
  Readers = {reader}
  Flags = {ingest}
  Modules = {contacts}
  \* an image
  Items = {m1}
  Variants = {s1, s2}
  Chords = {r1, r2}
SYMMETRY Symmetry
CHECK_DEADLOCK FALSE
INVARIANTS RequestsTypeOK PausesAreKept DanglesOnlyByOverlap
  SessionRuleHolds SeenLiveOnlyByCause
  BoundsAreTheTree RowsMatchTheStore MirrorWrongOnlyByCause
PROPERTIES ClosedIsFinal OneAfterAnother
