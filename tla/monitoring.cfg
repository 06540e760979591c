SPECIFICATION FairSpec
CONSTANTS
  Fiber = {f1, f2}
  MaxFaults = 1
CHECK_DEADLOCK FALSE
INVARIANTS
  TypeOK
  RequestNotLost
  UnknownIsRechecked
PROPERTIES
  Recovers
  Served
