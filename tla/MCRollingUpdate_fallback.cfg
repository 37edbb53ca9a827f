SPECIFICATION Spec
CONSTANTS
  NumWorkers = 1
  HasApply <- NoNodes
  Launches <- OnlyDefaults
  MaxRuns = 1
  Faults = {}
INVARIANTS AlreadyCurrentIsCurrent
CHECK_DEADLOCK FALSE
