SPECIFICATION Spec
CONSTANTS
  CP = cp
  Worker = {w1}
  Spawned = {s1}
  Hummingbird = {w1, s1}
  WorkersSet = TRUE
  Pinned = TRUE
  MaxGen = 2
  Faults = {"call", "lost", "crash", "slow", "discover"}
INVARIANTS TypeOK NoWorkerWithoutJoin DeployDelivers LeftoversNeverBlock DestroyIsComplete
PROPERTIES InstalledDiskKept OthersUntouched
