SPECIFICATION Spec
CONSTANTS
  Entries = {e1, e2}
  Calls = {c1, c2}
  MaxLog = 2
  MaxDrops = 1
  MaxFailures = 1
  MaxCatchUp = 1
  MayStop = FALSE
SYMMETRY Symmetry
INVARIANTS TypeOK ReplayNeverUndoesPush
CHECK_DEADLOCK FALSE
