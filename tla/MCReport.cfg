CONSTANTS
  None = None
  Diagnoses <- MCDiagnoses
  Batches <- MCFanBatches
  RingTags <- MCRingTags
  MainRuns = 3
  StabilityRuns = 2
  StabilityCandidates = 1
SPECIFICATION Spec
INVARIANT NegativeExampleDeclined
CHECK_DEADLOCK FALSE
