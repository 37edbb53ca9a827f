SPECIFICATION FairSpec
CONSTANTS
  NumWorkers = 2
  HasApply <- AllNodes
  Launches <- OnlyDefaults
  MaxRuns = 1
  Faults = {}
PROPERTIES RollCompletes
CHECK_DEADLOCK FALSE
