CONSTANTS
  kb = kb
  ms = ms
  c = c
  ctrl = ctrl
  a = a
  b = b
  left = left
  Idle = Idle
  Devices = {kb}
  Modifiers = {ctrl}
  Usages = {a, b, c}
  Buttons = {}
  Switches <- KeyboardSwitches
  Chord <- NoChord
  KeysMax = 2
  Deltas = {}
  Clamp = 1
  MaxMotion = 0
  MaxQueue <- MCMaxQueue
SYMMETRY KeySymmetry
SPECIFICATION Spec
INVARIANT LastReportClear
