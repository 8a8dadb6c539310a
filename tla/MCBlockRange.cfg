SPECIFICATION Spec
CONSTANTS
  g = g
  a1 = a1
  a2 = a2
  b1 = b1
  b2 = b2
  x1 = x1
  x2 = x2
  x3 = x3
  Blocks = {g, a1, a2, b1, b2}
  Genesis = g
  Height <- MCHeight
  Chain <- MCChain
  Slots = 2
  MaxRange = 3
  Numbers = {0, 1, 2, 3}
  Queries <- MCQueries
  AhBlocks = {x1, x2, x3}
  AhNumber <- MCAhNumber
  Included <- MCIncluded
  NaN = NaN
  None = None
INVARIANTS
  WholeRange
  SettledRangeIsOneChain
PROPERTIES
  RangeAnsweredAndDrained
CHECK_DEADLOCK FALSE
