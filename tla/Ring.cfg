SPECIFICATION Spec
CONSTANTS
  Producers = {p1, p2}
  Consumers = {c1, c2}
  Sides <- AllSides
  Size = 4
  Mod = 8
  Base = 6
  Words = {w1, w2}
  MaxOps = 4
  MaxCrashes = 0
SYMMETRY Symmetry
INVARIANT Fifo
PROPERTY EmptyIsReal FullIsReal
