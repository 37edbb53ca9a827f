SPECIFICATION FairSpec
CONSTANTS
  NumWorkers = 2
  HasApply <- AllButTheLast
  Launches <- CPOrWorkers
  MaxRuns = 1
  Faults = {"ssh", "kubectl", "digest", "upgrade", "timeout"}
INVARIANTS HintForEveryCordonedNode
PROPERTIES RunTerminates
CHECK_DEADLOCK FALSE
