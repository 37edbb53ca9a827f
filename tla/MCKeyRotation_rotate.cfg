SPECIFICATION Spec
CONSTANTS
  k0 = k0
  k1 = k1
  k2 = k2
  k3 = k3
  plain = plain
  none = none
  secret = secret
  configmap = configmap
  BootstrapKey <- k0
  Plain <- plain
  NoConfig <- none
  Row <- TwoRows
  Rotation <- ThreeRotations
  PromptReload = TRUE
  Exclusive = TRUE
INVARIANTS IndInv RowsReadable OldKeyRetired
