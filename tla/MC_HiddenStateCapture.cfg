SPECIFICATION Spec
CONSTANTS
  Configs <- MCConfigs
  Widths <- MCWidths
  Batches <- MCBatches
  n_layer = 40
  n_ubatch = 3
  TensorLayers = {0, 1, 2}
  NoLayer = NoLayer
  MaxEvals = 3
INVARIANTS
  SnapshotIsLastDecode
  ReadoutExact
  NeverAborts
PROPERTIES
  DisabledReadsNothing
  PoisonIsFinal
  ImplementsReadout
