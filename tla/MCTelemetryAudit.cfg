SPECIFICATION TelSpec
CONSTANTS
  Callers = {x, y}
  Audits = {a}
  MaxAppends = 1
  MaxCrashes = 1
INVARIANTS AppendsKept
CHECK_DEADLOCK FALSE
