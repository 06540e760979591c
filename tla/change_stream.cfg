SPECIFICATION FairSpec
CONSTANTS
  None = None
  LoadBalanced = TRUE
  MaxLog = 3
  MaxBatch = 2
  MaxFaults = 1
CHECK_DEADLOCK FALSE
INVARIANTS
  TypeOK
  TokenExact
PROPERTIES
  ImplementsFeed
  Delivers
