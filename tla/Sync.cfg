SPECIFICATION Spec
CONSTANTS
  NULL = null
  One = {t1}
  Two = {t1, t2}
  Threads = {t1, t2, t3}
  Four = {t1, t2, t3, t4}
  Five = {t1, t2, t3, t4, t5}
  Six = {t1, t2, t3, t4, t5, t6}
  Kinds = {"rw", "sw", "tf", "pf", "br", "byte", "cohort", "sequence", "barrier_centralized", "barrier_combining", "barrier_dissemination", "barrier_tournament", "barrier_mcs", "ec", "ec_sp", "backoff"}
  EcSpThreads = {t1, t2}
  SlottedSets = {{t1, t2}, {t1}}
  Uses = {"own", "reads", "writes"}
  UNSLOTTED = unslotted
  Cohorts = {c1, c2}
  Writer = t1
  Groups = {g1, g2, g3}
  Root = root
  MaxDepth = 2
  Top = 4
  Wrap = 4
  SequenceWrap = 4
  MaxLag = 1
  PassLimit = 2
  TimeMax = 3
  NsecMax = 3
  UintMax = 7
  InitialWait = 1
  Scale = 2
  Shift = 0
INVARIANTS Exclusion FairPasses ConsistentRead Together SleepAhead
PROPERTIES Progress NoLostWakeup
