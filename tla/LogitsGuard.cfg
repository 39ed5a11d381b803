SPECIFICATION BatchSpec
CONSTANTS
  Batches = {a}
  MaxTokens = 3
  NoBatch = NoBatch
INVARIANT
  OnlyInitializedLogits
