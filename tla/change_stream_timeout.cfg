SPECIFICATION Spec
CONSTANTS
  None = None
  LoadBalanced = FALSE
  MaxLog = 1
  MaxBatch = 1
  MaxFaults = 1
CHECK_DEADLOCK FALSE
PROPERTIES
  TimeoutNotTheEnd
