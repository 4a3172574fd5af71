CONSTANTS
  Modes = {iso}
  Threads = {t1, t2}
  MaxBegins = 2
  MaxInstances = 2
  MaxPending = 1
  MayRefuse = TRUE
  NoMode = NoMode
SPECIFICATION FairSpec
INVARIANTS
  OutcomeRecordedOnce
  HookStartedOnce
  ForegroundKept
PROPERTIES
  ServiceStops
CHECK_DEADLOCK FALSE
