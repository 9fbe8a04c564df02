SPECIFICATION Spec
CONSTANTS
  h1 = h1
  h2 = h2
  s1 = s1
  s2 = s2
  None = None
  Handlers <- MCHandlers
  Sessions <- MCSessions
  Anonymous <- MCAnonymous
  NumSteps = 2
INVARIANTS StepsOnceInOrder
PROPERTIES EndedSessionsForgotten RequestsAnswered
CHECK_DEADLOCK FALSE
