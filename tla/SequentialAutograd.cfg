SPECIFICATION Spec
CONSTANTS
  a = a
  b = b
  Servers = {a, b}
  NumBlocks = 2
  Places <- MCPlaces
  Allowed = {a, b}
  MaxFaults = 1
  Batches = {x, y}
  None = None
INVARIANTS PassesRight RoutesConnected NoDeadEnds
PROPERTIES AllPassesEnd
