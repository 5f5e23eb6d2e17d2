SPECIFICATION LockSpec
CONSTANTS
  t1 = t1
  t2 = t2
  q1 = q1
  Tasks = {t1, t2}
  Procs = {q1}
  ProcOf <- Process
  NoOwner = NoOwner
  ProcessesEnd = FALSE
  Left = NoOwner
CHECK_DEADLOCK FALSE
INVARIANT MutualExclusion
