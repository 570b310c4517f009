CONSTANTS
  None = None
  Threads = {t1, t2}
  Candidates <- MCCandidates
  Diagnoses <- MCDiagnoses
  MaxRetries = 2
  BaseDelay = 5000
  MaxDelay = 30000
  Hints <- MCHints
  MaxHint = 0
SPECIFICATION Spec
INVARIANTS
  TypeOK
  FlagJustified
  ReturnsWhatItOwes
  FailureIsNoVerdict
  NoCallInVain
  PausedIsReviewable
  AgentInv
PROPERTY ImplementsContract
SYMMETRY MCSymmetry
