SPECIFICATION Spec
CONSTANTS
  Requests = {r1, r2}
  MaxEntries = 2
  SeedEntries = 1
  MaxCatchUp = 1
  Operations = {"callNext"}
  Impatient = {}
SYMMETRY Symmetry
INVARIANTS NoDoubleServe
CHECK_DEADLOCK FALSE
