SPECIFICATION Spec
CONSTANTS
  Threads = {t1, t2}
  NULL = null
  Writer = t1
  Kinds = {"hp_fifo"}
  Stub = stub
  Entries = {a, b}
  FifoNodes = {a}
  Records = {x, y}
  MaxJoins = 1
  MaxEnqueue = 2
  MaxDequeue = 3
  MaxCalls = 5
  MaxHpCalls = 3
  Thresholds = {1, 2}
  CacheLimit = 1
  Trys = {TRUE}
  Reuses = {TRUE}
INVARIANT NoUseAfterFree
SYMMETRY Symmetry
CHECK_DEADLOCK FALSE
