SPECIFICATION Spec
CONSTANTS
  Requests = {r1, r2, r3}
  MaxEntries = 3
  SeedEntries = 1
  MaxAttempts = 2
  MaxCatchUp = 1
  Operations = {"checkIn", "callNext", "complete", "cancel"}
  Impatient = {r1, r2, r3}
  MayCrash = TRUE
SYMMETRY Symmetry
INVARIANTS IInv CountBalanced DistinctPositions NoDoubleServe AcknowledgedIsLogged 
CHECK_DEADLOCK FALSE
PROPERTIES LegalLifecycle LogRefines
