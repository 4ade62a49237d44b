SPECIFICATION FairSpec
CONSTANTS
  Entries = {e1, e2}
  Numbers = {1, 2}
  None = None
  MaxLoads = 3
  MaxKey = 2
  MaxFailures = 1
  Providers = {"Sqlite", "TableStorage"}
  MaxVisits = 2
  MaxChanges = 3
  MaxCalls = 2
  MaxLosses = 1
  AUTO_RESET_SECONDS = 2
INVARIANTS TypeOK UrlsAreShown StaleOnlyAfterOverlap TimersHaveCards TrackedUnlessExcused
PROPERTIES RejectedKeySignsOut PlaceOnlyImproves CompletedLeaves
