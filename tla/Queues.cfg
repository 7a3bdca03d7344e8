SPECIFICATION Spec
CONSTANTS
  Threads = {t1, t2}
  NULL = null
  Writer = t1
  Kinds = {"fifo_spsc", "fifo_mpmc", "hp_fifo", "hp_stack", "lists", "array"}
  Stub = stub
  Entries = {a, b}
  FifoNodes = {a}
  Records = {x, y}
  MaxJoins = 1
  MaxEnqueue = 3
  MaxDequeue = 3
  MaxCalls = 5
  MaxHpCalls = 3
  Thresholds = {1, 2}
  CacheLimit = 1
  Trys = {TRUE, FALSE}
  Reuses = {TRUE, FALSE}
INVARIANTS LeavesInOrder EmptyIsEmpty NoUseAfterFree HpRecordsExclusive IterationSees Linked
SYMMETRY Symmetry
CHECK_DEADLOCK FALSE
