CONSTANTS
  None = None
  MaxRetries = 8
  BaseDelay = 5000
  MaxDelay = 30000
  Hints <- MCHints
  MaxHint = 45000
SPECIFICATION Spec
INVARIANTS
  RetryInv
  GivesUpOnlyAtTheLimit
  SleepBudget
PROPERTY CallSettles
