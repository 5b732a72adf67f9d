CONSTANTS
  Requests = {r1, r2}
  Providers = {newRecruit}
  ProviderOf <- MCProviderOf
  Control = {}
  MaxQueued = 1
  MayShutDown = TRUE
  MayDie = TRUE
  WritesFail = {r2}
  MaxLives = 2
CHECK_DEADLOCK FALSE
SPECIFICATION FairSpec
INVARIANTS OncePerLife LimitHolds
PROPERTIES NothingRunsAfterItsAnswer EveryRequestIsAnswered SpoolEmpties
