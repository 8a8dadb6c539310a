SPECIFICATION Spec
CONSTANTS
  Null = Null
  NaN = NaN
  MaxRange = 500
  LeasePeriod = 4
  LeaseOffset = 3
  EndingPeriod = 6
  SampleLength = 2
  LeasePeriodsPerSlot = 2
  Accuracy = 100
  Inputs <- MCInputs
INVARIANTS
  PromisesKept
