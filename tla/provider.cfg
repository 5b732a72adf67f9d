CONSTANTS
  Calls = {c1, c2}
  Rollers = {c1}
  Newest = 1
  None = None
  Faults = {"load", "activate", "switch", "retain", "persist", "release"}
CHECK_DEADLOCK FALSE
SPECIFICATION LiveSpec
PROPERTIES OneSnapshot CallsEnd
