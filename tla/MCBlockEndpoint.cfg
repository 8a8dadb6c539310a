SPECIFICATION Spec
CONSTANTS
  Requests = {r1, r2}
  g = g
  a1 = a1
  a2 = a2
  b1 = b1
  b2 = b2
  Blocks = {g, a1, a2, b1, b2}
  Genesis = g
  Height <- MCHeight
  Chain <- MCChain
  Queries <- MCQueries
  Finalizes = TRUE
  CacheMax = 1
  None = None
SYMMETRY Symmetry
INVARIANTS
  ByHashTagSound
  HeadIsFinal
  FinalFeesAtParent
  AnswersTheQuestion
  FreshTagCurrent
CHECK_DEADLOCK FALSE
