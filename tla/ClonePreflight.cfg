SPECIFICATION Spec
CONSTANTS
  MaxObjects = 5
  Mixes <- Families
  MaxValues = 5
INVARIANT PreflightExcludesAbort
CHECK_DEADLOCK FALSE
