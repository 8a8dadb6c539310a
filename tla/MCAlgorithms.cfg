SPECIFICATION Spec
CONSTANTS
  Null = Null
  alice = alice
  bob = bob
  Depth = 5
  BatchSize = 2
  Boundary <- MCBoundary
  LeasePeriod = 4
  LeaseOffset = 3
  EndingPeriod = 6
  SampleLength = 2
  LeasePeriodsPerSlot = 3
  EpochDuration = 3
  GenesisSlot = 2
  SessionsPerEra = 2
  Accuracy = 100
  MaxAddresses = 3
INVARIANTS
  VestingSound
  ParasExact
  ProgressExact
  ClaimsExact
  OperationsExact
  CoretimeExact
  AmountsExact
  ContentsExact
  ListingsExact
  HoldingsExact
  RenderingExact
  RequestsAnswered
CHECK_DEADLOCK FALSE
