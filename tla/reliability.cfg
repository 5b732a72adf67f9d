SPECIFICATION Spec
CONSTANTS
  Procs = {p1, p2}
  w1 = w1
  w2 = w2
  k1 = k1
  k2 = k2
  b1 = b1
  b2 = b2
  Workflows = {w1, w2}
  Keys = {k1, k2}
  Bodies = {b1, b2}
  Requests <- MCRequests
  Harm = {"crash", "cut", "head", "registry"}
  None = None
  Unreadable = Unreadable
INVARIANTS ChainIsSound AckedIsKept
PROPERTIES AnswersAgree ImplementsJournal
CHECK_DEADLOCK FALSE
CONSTRAINT UntilRobbed
SYMMETRY Symmetry
