CONSTANTS
  kb = kb
  ms = ms
  c = c
  ctrl = ctrl
  a = a
  b = b
  left = left
  Idle = Idle
  Devices = {ms, kb}
  Modifiers = {ctrl}
  Usages = {}
  Buttons = {left}
  Switches <- MouseSwitches
  Chord <- CtrlChord
  KeysMax = 2
  Deltas = {2}
  Clamp = 1
  MaxMotion = 2
  MaxQueue <- MCMaxQueue
SPECIFICATION Spec
INVARIANTS
  HostFollowsButtons
  MotionAccounted
