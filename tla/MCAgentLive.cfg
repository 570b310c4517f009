CONSTANTS
  None = None
  Threads = {t1, t2}
  Candidates <- MCLiveCandidates
  Diagnoses <- MCLiveDiagnoses
  MaxRetries = 2
  BaseDelay = 5000
  MaxDelay = 30000
  Hints <- MCHints
  MaxHint = 0
SPECIFICATION FairSpec
PROPERTIES
  ImplementsFairContract
  AutoRunConcludes
