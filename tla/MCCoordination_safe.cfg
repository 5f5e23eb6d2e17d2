SPECIFICATION MCSpec
CONSTANTS
  t1 = t1
  t2 = t2
  t3 = t3
  q1 = q1
  q2 = q2
  q3 = q3
  b1 = b1 b2 = b2 b3 = b3 d1 = d1 d2 = d2
  Builders = {b1, b2, b3}
  Ghost = ghost
  SourceDigests = {d1, d2}
  Nobody = Nobody
  NoDir = NoDir
  MaxMishaps = 1
  None = None
  NoOwner = NoOwner
  Others = Others
  Tasks = {t1, t2, t3}
  Procs = {q1, q2, q3}
  ProcOf <- Separate
  ProcessesEnd = TRUE
  Left = NoOwner
  Jobs = {j1, j2, j3}
  MaxHistory = 1
  SlowSpawn = FALSE
  MaxCrashes = 1
  MaxKillFails = 1
  MaxDiskErrors = 0
CHECK_DEADLOCK FALSE
SYMMETRY Symmetry
INVARIANTS CoordinationTypeOK GuardExclusive AdmissionCovers HistoryHolds CacheHolds
PROPERTIES ReclaimSpares
