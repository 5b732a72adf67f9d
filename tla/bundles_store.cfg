CONSTANTS
  Bundles = {b1, b2, b3}
  Procs = {p1, p2}
  Readers = {p1}
  Pins = {k1}
  None = None
  Fragile = {b1, k1}
  KeptPrevious = 2
CHECK_DEADLOCK FALSE
SPECIFICATION Spec
SYMMETRY Symmetry
INVARIANTS StateIsValid PointersResolve WantedAreKept
PROPERTIES HoldIsObeyed
