CONSTANTS
  h1 = h1
  h2 = h2
  main = main
  other = other
  plain = plain
  tuned = tuned
  Requests = {h1, h2}
  Ids = {main, other}
  Default = main
  Bodies = {plain, tuned}
  Blank = plain
  Absent = Absent
  Empty = Empty
  Torn = Torn
  None = None
  MaxAccidents = 1
SYMMETRY RequestSymmetry
SPECIFICATION Spec
INVARIANTS
  TypeOK
  LiveWhole
  LiveIsActive
PROPERTY SnapshotsKept
