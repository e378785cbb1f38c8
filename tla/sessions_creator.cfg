\* Two browsers that create sessions one after the other.
SPECIFICATION Spec
CONSTANTS
  Client = {b1, b2}
  Addr = {a1, a2}
  Slot = {t1}
  Svc = svc_run
  Stray = {}
  FirstId = 10
  MaxSessions = 2
  MaxHandles = 2
  MaxEngines = 0
  MayLeave = {}
  EarlyRelease = FALSE
  NULL = NULL
  Absent = Absent
CHECK_DEADLOCK FALSE
INVARIANT CallbackToCreator
