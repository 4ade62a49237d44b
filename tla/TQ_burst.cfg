SPECIFICATION FairSpec
CONSTANTS
  Requests = {r1, r2, r3}
  MaxEntries = 2
  SeedEntries = 1
  MaxAttempts = 3
  MaxCatchUp = 1
  Operations = {"checkIn", "callNext", "document", "state", "since"}
  Impatient = {}
  MayCrash = FALSE
INVARIANT BaselineCovered
PROPERTIES CatchUpContiguous EveryRequestAnswered
CHECK_DEADLOCK FALSE
