CONSTANTS
  kb1 = kb1
  kb2 = kb2
  keyW = keyW
  keyE = keyE
  cross = cross
  r2 = r2
  None = None
  Devices = {kb1, kb2}
  Keys = {keyW, keyE}
  Actions = {cross, r2}
  Switches <- MCSwitches
  Configs <- MCConfigs
  MaxQueue <- MCMaxQueue
SPECIFICATION Spec
PROPERTY FiresOnlyWhenHeld
