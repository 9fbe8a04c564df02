SPECIFICATION FairSpec
CONSTANTS
  r1 = r1
  r2 = r2
  r3 = r3
  p1 = p1
  p2 = p2
  Nobody = Nobody
  Requests <- MCRequests
  Procs = {p1}
  Proc <- MCProcOne
  Size <- MCSize
  LargestSize = 2
  NumTensors <- MCTensors
  Timeout <- MCUnlimited
  MaxAllocTimeout = "unlimited"
  MaxSize = 3
  PipeCapacity = 6
INVARIANTS
  BudgetRespected
  DeviceWithinBudget
PROPERTIES
  WaiterIsServed
  EveryRequestResolves
CHECK_DEADLOCK FALSE
