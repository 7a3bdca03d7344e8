SPECIFICATION FairSpec
CONSTANTS
  Threads = {t1, t2, t3}
  Mod = 4
  Base = 2
INVARIANT TypeOK Tickets
PROPERTY ImplementsFifoLock NoStarvation
