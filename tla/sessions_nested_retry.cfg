SPECIFICATION Spec
CONSTANTS
  f1 = f1
  f2 = f2
  Fibers = {f1, f2}
  Owner = f1
  Explicit = Explicit
  Lsids = {a, b, c, d}
  Servers = {s1, s2}
  Conns = {k1, k2}
  None = None
  MaxAdaptiveRetries = 2
  Scenarios <- MCNestedRetry
CHECK_DEADLOCK FALSE
INVARIANTS
  RetryKeepsSession
