CONSTANTS
  r2 = r2
  lup = lup
  m1 = m1
  m2 = m2
  Buttons = {r2}
  Directions = {lup}
  Mice = {m1}
  Patterns <- MCPatterns
  Period = 3
  OnTime = 1
  Window = 1
  RingCap = 2
  MaxTime = 4
SPECIFICATION Spec
INVARIANTS
  TypeOK
  PhaseFromRun
  WindowComplete
PROPERTY EveryPressShows
