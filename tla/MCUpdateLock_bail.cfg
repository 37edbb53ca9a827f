SPECIFICATION Spec
CONSTANTS
  r1 = r1
  r2 = r2
  r3 = r3
  Invocation <- OneInvocation
  Faults = {}
  PromptFlock = TRUE
INVARIANTS BailLeavesLockFree
CHECK_DEADLOCK FALSE
