SPECIFICATION MCSpec
CONSTANTS
  Threads = {t1, t2, t3}
  Inits = {"init", "init_numa"}
  Callers = {t1, t2}
  Levels = {"DEBUG", "INFO", "CONT"}
  Enabled = {"INFO"}
  MaxCalls = 4
INVARIANTS
  OneBackend
  DropFindsFlag
  SeparateLogStates
  LogTypeOK
  NothingLostOrRepeated
  EventIsOneMessage
  OneThreadAsLogged
PROPERTY
  EventuallyFlushed
CHECK_DEADLOCK FALSE
