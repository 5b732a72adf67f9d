CONSTANTS
  Runs = {r1, r2, r3}
  Reconcilers = {}
  Reusers = {u1}
  Nobody = Nobody
  WritesFail = TRUE
  ReliabilityFails = TRUE
  SettledInspection = FALSE
CHECK_DEADLOCK FALSE
SPECIFICATION Spec
SYMMETRY Symmetry
INVARIANT ReportedIsRecorded
PROPERTY OutcomesAreKept
