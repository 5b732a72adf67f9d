CONSTANTS
  Calls = {c1, c2}
  Rollers = {}
  Newest = 2
  None = None
  Faults = {}
CHECK_DEADLOCK FALSE
SPECIFICATION Spec
PROPERTY LeaseKeepsItsData
