SPECIFICATION FairSpec
CONSTANTS
  Producers = {p1, p2}
  Consumers = {c1, c2}
  Sides <- AllSides
  Size = 4
  Mod = 8
  Base = 6
  Words = {w1}
  MaxOps = 3
  MaxCrashes = 1
INVARIANT NoOrphanTicket
PROPERTY CallsReturn ImplementsFifo
