SPECIFICATION Spec
CONSTANTS
  None = None
  Others = Others
  Jobs = {j1, j2}
  MaxHistory = 1
  SlowSpawn = TRUE
  MaxCrashes = 0
  MaxKillFails = 0
  MaxDiskErrors = 0
CHECK_DEADLOCK FALSE
INVARIANTS AdmissionCovers
