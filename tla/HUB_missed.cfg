SPECIFICATION Spec
CONSTANTS
  Entries = {e1, e2}
  Calls = {c1, c2}
  MaxLog = 2
  MaxDrops = 1
  MaxFailures = 0
  MaxCatchUp = 1
  MayStop = FALSE
INVARIANTS NothingMissed
CHECK_DEADLOCK FALSE
