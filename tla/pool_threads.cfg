SPECIFICATION Spec
CONSTANTS
  Fibers = {f1, f2}
  Conns = {c1, c2, c3}
  NoConn = NoConn
  NoOne = NoOne
  Filler = Filler
  MaxPoolSize = 2
  MaxConnecting = 2
  MinPoolSize = 1
  IdleTimeout = TRUE
  Parallel = TRUE
  MaxGeneration = 1
SYMMETRY Symmetry
CHECK_DEADLOCK FALSE
INVARIANTS
  TypeOK
  PoolSizeBounded
  ConnectingBounded
  OneOwner
  NoLeakedSlot
  InterruptsOnlyStale
PROPERTIES
  FreshHandOut
  ClearedWaiterNotServed
  ImplementsContract
