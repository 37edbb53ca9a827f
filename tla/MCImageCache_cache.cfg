SPECIFICATION Spec
CONSTANTS
  Deploy = {d1}
  Sources = {"ghcr", "local"}
  Images <- MCImages
  None = None
  Partial = Partial
  PoolIsLocal = TRUE
  Exclusive = TRUE
  Faults = {"abort", "inspect", "sidecar"}
INVARIANTS TypeOK SidecarIsTrue
PROPERTIES TemplateIsFresh
