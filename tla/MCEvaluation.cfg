CONSTANTS
  None = None
  Diagnoses <- MCDiagnoses
  Batches <- MCBatches
  RingTags <- MCRingTags
  MainRuns = 3
  StabilityRuns = 2
  StabilityCandidates = 1
SPECIFICATION Spec
INVARIANTS
  TypeOK
  FailedRunsDoNotVote
  ExampleSupportsVerdict
  BorderlineIsClosest
  ScoresAddUp
  FailuresAreVisible
PROPERTIES
  VoteIsRespected
  EvaluationEnds
CHECK_DEADLOCK FALSE
