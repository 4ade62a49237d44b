SPECIFICATION FairSpec
CONSTANTS
  Entries = {e1}
  Calls = {c1, c2}
  MaxLog = 1
  MaxDrops = 2
  MaxFailures = 2
  MaxCatchUp = 0
  MayStop = TRUE
INVARIANTS NeverBlind NoOrphanTimer
PROPERTIES PollingConverges NeverStranded
CHECK_DEADLOCK FALSE
