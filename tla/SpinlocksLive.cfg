SPECIFICATION FairSpec
CONSTANTS
  Threads = {t1, t2}
  NULL = NULL
  WordMod = 4
  Counts = {3, 4}
  NextMod = 8
  Base = 6
  unowned = n0
  Clusters = {c1, c2}
  globalNode = g0
PROPERTY NoStarvation Progress
