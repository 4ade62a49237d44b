SPECIFICATION FairSpec
CONSTANTS
  Requests = {r1, r2, r3, r4}
  MaxDocuments = 1
  Providers = {"Sqlite", "TableStorage"}
  Operations = {"upload", "callNext", "complete", "cancel", "view"}
  Faulty = {r1}
INVARIANTS TypeOK HeldUntilGone DanglingIsLate RestIsClean CountIsTold
PROPERTIES LeavesNothing
CHECK_DEADLOCK FALSE
