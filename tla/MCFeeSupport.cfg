SPECIFICATION Spec
CONSTANTS
  Requests = {r1, r2}
  Blocks <- MCBlocks
  Threshold = 3
  MinCalcFeeRuntime = 2
  KnownWithoutCall = Null
  KnownWithCall = Null
  MaxTasks = 2
  Flaky = TRUE
  Null = Null
INVARIANTS
  WithCallSound
  NoSecondProbe
  FeeKindRight
PROPERTIES
  AvailableStays
  EveryBlockAnswered
CHECK_DEADLOCK FALSE
