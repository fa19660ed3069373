CONSTANTS
  r2 = r2
  lup = lup
  m1 = m1
  m2 = m2
  Buttons = {}
  Directions = {}
  Mice = {m1, m2}
  Patterns <- MCPatterns
  Period = 3
  OnTime = 1
  Window = 1
  RingCap = 4
  MaxTime = 5
SPECIFICATION Spec
INVARIANT WindowComplete
