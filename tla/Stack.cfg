SPECIFICATION FairSpec
CONSTANTS
  Threads = {t1, t2}
  Entries = {e1, e2}
  NULL = NULL
  Modes = {"mpmc", "grace", "nc"}
  MaxGen = 4
INVARIANT Represents
PROPERTY LockFree
