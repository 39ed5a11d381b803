SPECIFICATION LogSpec
CONSTANTS
  Callers = {t1}
  Levels = {"NONE", "INFO", "CONT"}
  Enabled = {"INFO"}
  MaxCalls = 3
INVARIANT
  LegalLevels
CHECK_DEADLOCK FALSE
