SPECIFICATION MCSpec
CONSTANTS
  Threads = {1, 2}
  Interferer = 2
  IntBits = 2
  Platforms = {"x86_64", "x86", "sparcv9", "ppc64", "s390x", "ppc", "arm", "aarch64", "aarch64_lse", "riscv64", "gcc"}
  WithDefects = FALSE
INVARIANT FenceOrders
PROPERTIES ImplementsAtomicWord CallsReturn
CHECK_DEADLOCK FALSE
