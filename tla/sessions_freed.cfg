\* A session released before its callback thread has run.
SPECIFICATION Spec
CONSTANTS
  Client = {b1}
  Addr = {a1}
  Slot = {t1}
  Svc = svc_run
  Stray = {}
  FirstId = 10
  MaxSessions = 1
  MaxHandles = 2
  MaxEngines = 0
  MayLeave = {}
  EarlyRelease = TRUE
  NULL = NULL
  Absent = Absent
CHECK_DEADLOCK FALSE
INVARIANT CallbackOnLiveSession
