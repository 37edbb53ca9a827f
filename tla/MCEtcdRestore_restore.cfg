SPECIFICATION Spec
CONSTANTS
  Snap = {s1, s2}
  Own = Own
  Empty = Empty
  None = None
  Partial = Partial
  MaxDirs = 3
  PromptStop = TRUE
  Faults = {"call", "step", "lost", "crash"}
INVARIANTS TypeOK NothingLost
PROPERTIES RestoreServesSnapshot ControlPlaneReturns
