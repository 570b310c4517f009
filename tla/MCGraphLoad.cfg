CONSTANTS
  None = None
  Plans <- MCPlans
  BatchSize = 2
SPECIFICATION Spec
INVARIANTS
  TypeOK
  LoadIsComplete
  LoadIsExact
  VerifyIsRight
