SPECIFICATION Spec
CONSTANTS
  r1 = r1
  r2 = r2
  r3 = r3
  p1 = p1
  p2 = p2
  Nobody = Nobody
  Requests <- MCRequests
  Procs = {p1, p2}
  Proc <- MCProcTwo
  Size <- MCSize
  LargestSize = 2
  NumTensors <- MCTensors
  Timeout <- MCMixed
  MaxAllocTimeout = "unlimited"
  MaxSize = 3
  PipeCapacity = 6
INVARIANTS
  BudgetRespected
CHECK_DEADLOCK FALSE
