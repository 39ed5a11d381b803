SPECIFICATION Spec
CONSTANTS
  MaxObjects = 5
  Mixes <- Families
  MaxValues = 5
INVARIANTS
  OneOwner
  UsesAlive
  KnownMisuse
CHECK_DEADLOCK FALSE
