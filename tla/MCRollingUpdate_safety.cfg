SPECIFICATION Spec
CONSTANTS
  NumWorkers = 1
  HasApply <- AllButTheLast
  Launches <- EveryFlag
  MaxRuns = 2
  Faults = {"ssh", "kubectl", "drain", "digest", "upgrade", "timeout", "hang", "signal"}
INVARIANTS TypeOK NoSilentDisruption GatedMeansRebooted SummaryIsComplete
CHECK_DEADLOCK FALSE
