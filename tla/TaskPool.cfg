SPECIFICATION FairSpec
CONSTANTS
  i1 = i1
  f1 = f1
  b1 = b1
  None = None
  Requests <- MCRequests
  Kind <- MCKind
  NumBlocks = 2
  Span <- MCSpan
  Streamed = {b1}
  Quirks <- MCQuirks
INVARIANTS TokensBacked RightResult
PROPERTIES EveryRequestAnswered
CHECK_DEADLOCK FALSE
