SPECIFICATION Spec
CONSTANTS
  Threads = {t1, t2}
  NULL = null
  Kinds = {"hs", "ht", "rhs", "rhs_wide"}
  Writer = t1
  Tombstone = tombstone
  Pending = pending
  NoMemory = no_memory
  A = a
  B = b
  C = c
  D = d
  X = x
  Y = y
  Z = z
  Generations = 2
  ApplyDeletes = FALSE
INVARIANT Counted
PROPERTY ImplementsDictionary
SYMMETRY Symmetry
