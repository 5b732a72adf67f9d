CONSTANTS
  Slots = {s1, s2}
  Tasks = 2
  MaxAttempts = 2
  MayAbort = TRUE
CHECK_DEADLOCK FALSE
SPECIFICATION FairSpec
INVARIANTS CompleteOrFailed NoOrphans VerdictIsFinal
PROPERTIES FailureStops BatchEnds
