CONSTANTS
  Calls = {c1, c2, c3}
  Nobody = Nobody
  NoUpload = {c1}
  NoStress = {}
  WritesFail = TRUE
  MayDie = TRUE
  MaxRevision = 3
CHECK_DEADLOCK FALSE
SPECIFICATION Spec
SYMMETRY Symmetry
INVARIANTS OneExecution NoDoubtfulOffer TruthfulMutation OnlyTheDeadKeepTheLock
PROPERTIES ExecutesWhatWasSeen
