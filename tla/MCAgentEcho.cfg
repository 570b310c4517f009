CONSTANTS
  None = None
  Threads = {t1}
  Candidates <- MCCandidates
  Diagnoses <- MCEchoDiagnoses
  MaxRetries = 2
  BaseDelay = 5000
  MaxDelay = 30000
  Hints <- MCHints
  MaxHint = 0
SPECIFICATION Spec
INVARIANT UnclearNeverFlagged
