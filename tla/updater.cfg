CONSTANTS
  Callers = {p2, p3}
  Workers = {p1, p2}
  Mortal = {p1, p3}
  Jobs = {j1, j2}
  None = None
CHECK_DEADLOCK FALSE
SPECIFICATION LiveSpec
INVARIANTS OneWorker
PROPERTIES ImplementsQueue JobsEnd
