SPECIFICATION Spec
CONSTANTS
  Paths = {"p", "q", "bad"}
  Contents <- MCContents
  Disk <- MCDisk
  Links <- MCLinks
  MaxWrites = 3
  KNOWN_FEATURES = {"common", "system-ggml", "dynamic-backends"}
  CanonicalNames = {1, 2, 3}
  Required = {1}
  MAX_ARTIFACTS = 2
  PlainPaths = {"p", "q"}
  Builds <- MCBuilds
INVARIANTS
  StableFingerprint
  HashOfOneMoment
  EvidenceComplete
CHECK_DEADLOCK FALSE
