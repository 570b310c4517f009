CONSTANTS
  None = None
  Plans <- MCPlans
  BatchSize = 1
SPECIFICATION PipelineSpec
INVARIANTS
  CompletedMeansDone
  LoneReportIsJustified
  PassedIsScored
PROPERTIES
  ReportsComeFromResults
