SPECIFICATION SpecHistory
CONSTANTS
  Fibers = {f1}
  Conns = {c1, c2, c3}
  NoConn = NoConn
  NoOne = NoOne
  Filler = Filler
  MaxPoolSize = 1
  MaxConnecting = 1
  MinPoolSize = 0
  IdleTimeout = FALSE
  Parallel = FALSE
  MaxGeneration = 1
SYMMETRY Symmetry
CHECK_DEADLOCK FALSE
INVARIANTS
  GenerationOfHandshake
