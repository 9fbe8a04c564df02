SPECIFICATION PoolSpec
CONSTANTS
  Slots = {s1, s2}
  Batch = 2
  Tokens = {a, b}
  MaxLength = 2
  MaxStep = 2
  PoolPages = 5
  PageSize = 1
  Blank = Blank
INVARIANTS
  PagesConserved
SYMMETRY Symmetry
CHECK_DEADLOCK FALSE
