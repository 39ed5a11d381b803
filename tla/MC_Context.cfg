SPECIFICATION MCSpec
CONSTANTS
  Batches = {a}
  MaxTokens = 3
  NoBatch = NoBatch
  Seqs = {0, 1}
  MaxPos = 1
  MaxRun = 2
  I32_MAX = 1
  Slots = {k}
  Files = {f}
  MaxSaved = 1
  MaxCalls = 4
  Params <- MCParams
  MaxDrafts = 2
  Models = {"steerable", "flat"}
  Adapters = {a1, a2}
  Contexts = {c1}
  NEmbd <- MCNEmbd
  NLayer <- MCNLayer
  Scales = {one, half, nan}
  FiniteScales = {one, half}
  Vectors = {u, v}
  NoVector = NoVector
  NoModel = NoModel
  MaxStack = 2
  MaxLen = 5
INVARIANTS
  ListIsOutputs
  GuardMatchesOutputs
  MemoryAsPromised
  LoadedTokensAreSaved
  CallerInStep
  ToldOfLastDraft
  NoDanglingAdapter
  StackAsSet
  SteeringAsSet
PROPERTY
  SettledOnce
CHECK_DEADLOCK FALSE
