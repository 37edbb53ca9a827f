SPECIFICATION Spec
CONSTANTS
  r1 = r1
  r2 = r2
  r3 = r3
  Invocation <- TwoInvocations
  Faults = {}
  PromptFlock = FALSE
INVARIANTS MutualExclusion
CHECK_DEADLOCK FALSE
