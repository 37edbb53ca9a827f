SPECIFICATION Spec
CONSTANTS
  Deploy = {d1}
  Sources = {"ghcr", "local"}
  Images <- MCImages
  None = None
  Partial = Partial
  PoolIsLocal = TRUE
  Exclusive = TRUE
  Faults = {}
PROPERTIES StrictFailsClosed
