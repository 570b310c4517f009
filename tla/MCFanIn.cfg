CONSTANTS
  None = None
  Graphs <- FanGraphs
  MinFaninSize = 3
  MaxFaninSize = 8
  MaxFaninStepWindow = 60
  MinCycleLen = 3
  MaxCycleLen = 6
SPECIFICATION Spec
CHECK_DEADLOCK FALSE
INVARIANTS
  GroupsHaveThreeMembers
