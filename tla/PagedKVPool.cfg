SPECIFICATION PoolSpec
CONSTANTS
  Slots = {s1, s2}
  Batch = 2
  Tokens = {a, b}
  MaxLength = 3
  MaxStep = 2
  PoolPages = 3
  PageSize = 2
  Blank = Blank
INVARIANTS
  NoSharing
PROPERTIES
  ImplementsKVStore
SYMMETRY Symmetry
CHECK_DEADLOCK FALSE
