SPECIFICATION MCSpec
CONSTANTS
  Inherit <- MCInherit
  Leaf <- MCLeaf
  Nested <- MCNested
  Profile = "profile"
  Files = {"a"}
  Sessions = {s1}
  NewIds = {r1}
  Snaps = {"n1"}
  Tools = {p1, p2}
  MaxEdits = 1
  Starters = {t1}
  Secret = {1}
  BufferCap = 1
  MaxLines = 1
  MaxEvents = 3
  MaxSeq = 3
  MaxWriters = 3
SYMMETRY Interchangeable
INVARIANTS
  
  RestoreIsExact
  
  ManifestIsTrue
PROPERTIES
  
  SnapshotsAreKept
CHECK_DEADLOCK FALSE
