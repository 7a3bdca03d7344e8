SPECIFICATION FairSpec
CONSTANTS
  t1 = t1
  t2 = t2
  t3 = t3
  Threads = {t1, t2}
  Records = {1, 2}
  Objects = {o1}
  NULL = NULL
  Handles = {h1, h2}
  Starts <- StartsAll
  Mod = 8
  MaxTicks = 3
INVARIANT NoUseAfterFree EpochLag RecordsExclusive
PROPERTY SynchronizeReturns
