SPECIFICATION Spec
CONSTANTS
  g = g
  a1 = a1
  a2 = a2
  b1 = b1
  b2 = b2
  x1 = x1
  x2 = x2
  x3 = x3
  Blocks = {g, a1, a2, b1, b2}
  Genesis = g
  Height <- MCHeight
  Chain <- MCChain
  AhBlocks = {x1, x2, x3}
  Included <- MCIncluded
  Queries <- MCQueries
  None = None
INVARIANTS
  NewestIsAnswered
CHECK_DEADLOCK FALSE
