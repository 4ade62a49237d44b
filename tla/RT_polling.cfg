SPECIFICATION LiveFairSpec
CONSTANTS
  Entries = {e1}
  Tasks = {t1, t2}
  OthersWrite = TRUE
  MaxLog = 2
  MaxDrops = 1
  MaxFailures = 0
PROPERTIES PollingConverges
CHECK_DEADLOCK FALSE
