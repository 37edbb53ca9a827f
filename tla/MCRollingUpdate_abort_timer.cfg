SPECIFICATION Spec
CONSTANTS
  NumWorkers = 1
  HasApply <- AllNodes
  Launches <- OnlyDefaults
  MaxRuns = 1
  Faults = {"drain"}
INVARIANTS AbortRestoresTimer
CHECK_DEADLOCK FALSE
