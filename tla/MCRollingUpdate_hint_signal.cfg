SPECIFICATION Spec
CONSTANTS
  NumWorkers = 1
  HasApply <- AllNodes
  Launches <- OnlyDefaults
  MaxRuns = 1
  Faults = {"signal"}
INVARIANTS HintForEveryCordonedNode
CHECK_DEADLOCK FALSE
