CONSTANTS
  None = None
  Transactions <- MCTransactions
  Merchants <- MCMerchants
  Kinds <- DeviceKinds
  RingsPerKind = 1
  LegitClusters = 0
  MinSize = 3
  MaxSize = 12
  TestTenths = 3
  Amount = 60
  CycleAmounts = {60}
  RandInt <- MCRandInt
  Draw <- MCDraw
  MinFaninSize = 3
  MaxFaninSize = 3
  MaxFaninStepWindow = 60
  MinCycleLen = 3
  MaxCycleLen = 4
SPECIFICATION PlantedSpec
CHECK_DEADLOCK FALSE
INVARIANTS
  FirstHitIsTheMatch
