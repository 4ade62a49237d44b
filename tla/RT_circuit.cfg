SPECIFICATION FairSpec
CONSTANTS
  Entries = {e1}
  Tasks = {t1}
  OthersWrite = TRUE
  MaxLog = 1
  MaxDrops = 1
  MaxFailures = 2
INVARIANTS TypeOK NeverBlind
PROPERTIES ReconnectEnds OwnWriteShown
CHECK_DEADLOCK FALSE
