CONSTANTS
  Procs = {p1, p2, p3}
  NoDir = NoDir
  NoOwner = NoOwner
SPECIFICATION FairSpec
CHECK_DEADLOCK FALSE
INVARIANT MutualExclusion
PROPERTIES AbandonedIsReclaimed
