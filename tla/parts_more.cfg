SPECIFICATION MCSpec
CONSTANTS
  Proc = {p1, p2, p3}
  Job = {j1, j2}
  MaxMint = 3
  Articles = {"a", "b"}
  MaxReloads = 1
  MaxUpset = 1
  Configs <- MCConfigs
  MaxUpsets = 3
  Volume <- MCVolumes
  EndsAt <- MCEnds
  Damaged = {"b1"}
  Broken = {"b"}
  NotRar = {}
  MaxUnpackers = 1
INVARIANTS Exclusion UnackedKeepsItsBit NoneLeftRunning PayloadKept HandedIsWhole
PROPERTY Par2OutlivesNeed
CHECK_DEADLOCK FALSE
