CONSTANTS
  Runs = {r1, r2}
  Reconcilers = {c1}
  Reusers = {}
  Nobody = Nobody
  WritesFail = FALSE
  ReliabilityFails = FALSE
  SettledInspection = TRUE
CHECK_DEADLOCK FALSE
SPECIFICATION FairSpec
INVARIANTS NoDuplicateList NothingForgotten InventoryMatchesReceipt
PROPERTY LeaseComesBack
