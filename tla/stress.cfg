CONSTANTS
  Opponents = 2
  Wanted = 1
  FirstLimit = 2
  Limit = 2
  Overwrite = FALSE
  Failures = {"lost"}
  Worths = {"sound", "vague", "aliased"}
  Enough = {{1}, {1, 2}}
  Resumes = 1
  Fragile = {1}
  None = None
CHECK_DEADLOCK FALSE
SPECIFICATION FairSpec
INVARIANTS DeliveredOnce BudgetHolds
PROPERTIES ReportIsBacked EndsUnlessBlocked
