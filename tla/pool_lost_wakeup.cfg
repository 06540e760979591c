SPECIFICATION Spec
CONSTANTS
  Fibers = {f1, f2}
  Conns = {c1, c2, c3}
  NoConn = NoConn
  NoOne = NoOne
  Filler = Filler
  MaxPoolSize = 1
  MaxConnecting = 1
  MinPoolSize = 0
  IdleTimeout = FALSE
  Parallel = TRUE
  MaxGeneration = 1
SYMMETRY Symmetry
CHECK_DEADLOCK FALSE
INVARIANTS
  NoSleeperBesideFreeSlot
