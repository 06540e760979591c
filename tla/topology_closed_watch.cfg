SPECIFICATION Spec
CONSTANTS
  A = A
  B = B
  C = C
  Main = Main
  Other = Other
  None = None
  Address = {A, B, C}
  SetName = {Main, Other}
  MinWireVersion = 6
  MaxWireVersion = 29
  Slots = 2
  Scenarios <- Closed
INVARIANT ClosedClientUnwatched
CHECK_DEADLOCK FALSE
