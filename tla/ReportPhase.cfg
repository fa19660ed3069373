CONSTANTS
  r2 = r2
  lup = lup
  m1 = m1
  m2 = m2
  Buttons = {r2}
  Directions = {}
  Mice = {}
  Patterns <- MCPatterns
  Period = 3
  OnTime = 1
  Window = 1
  RingCap = 2
  MaxTime = 5
SPECIFICATION Spec
PROPERTY PhaseFromLatestPress
