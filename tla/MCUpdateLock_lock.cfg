SPECIFICATION FairSpec
CONSTANTS
  r1 = r1
  r2 = r2
  r3 = r3
  Invocation <- ThreeInvocations
  Faults = {"signal", "crash", "spawn"}
  PromptFlock = TRUE
INVARIANTS IndInv MutualExclusion
PROPERTIES ImplementsSection LockReleased
CHECK_DEADLOCK FALSE
