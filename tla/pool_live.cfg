SPECIFICATION SpecLive
CONSTANTS
  Fibers = {f1, f2}
  Conns = {c1, c2}
  NoConn = NoConn
  NoOne = NoOne
  Filler = Filler
  MaxPoolSize = 1
  MaxConnecting = 1
  MinPoolSize = 0
  IdleTimeout = FALSE
  Parallel = FALSE
  MaxGeneration = 1
CHECK_DEADLOCK FALSE
INVARIANTS
  NoSleeperBesideFreeSlot
  NoSleeperOnClearedPool
PROPERTIES
  ClearedWaiterLeaves
  ClearedSocketsClose
  CloseReleasesAll
