SPECIFICATION Spec
CONSTANTS
  Requests = {r1, r2}
  Blocks <- MCTwoChains
  Threshold = 3
  MinCalcFeeRuntime = 2
  KnownWithoutCall = Null
  KnownWithCall = Null
  MaxTasks = 2
  Flaky = FALSE
  Null = Null
INVARIANTS
  WithCallSound
CHECK_DEADLOCK FALSE
