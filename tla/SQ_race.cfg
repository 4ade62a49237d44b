SPECIFICATION Spec
CONSTANTS
  Requests = {r1, r2, r3, r4}
  MaxEntries = 3
  SeedEntries = 1
  MaxCatchUp = 1
  Operations = {"checkIn", "callNext", "complete", "cancel", "document", "state", "since"}
  Impatient = {r1}
INVARIANTS RowsFollowLog AnswersFollowLog PositionIsRank
PROPERTIES LogRefines
CHECK_DEADLOCK FALSE
