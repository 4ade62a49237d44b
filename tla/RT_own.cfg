SPECIFICATION Spec
CONSTANTS
  Entries = {e1}
  Tasks = {t1}
  OthersWrite = FALSE
  MaxLog = 1
  MaxDrops = 1
  MaxFailures = 0
INVARIANTS OwnViewCorrect
CHECK_DEADLOCK FALSE
