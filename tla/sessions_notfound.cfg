\* A request for an unknown session, then one for a live session.
SPECIFICATION Spec
CONSTANTS
  Client = {b1}
  Addr = {a1}
  Slot = {t1}
  Svc = svc_run
  Stray = {s1}
  FirstId = 10
  MaxSessions = 1
  MaxHandles = 2
  MaxEngines = 0
  MayLeave = {}
  EarlyRelease = TRUE
  NULL = NULL
  Absent = Absent
CHECK_DEADLOCK FALSE
INVARIANT NotFoundMeansUnknown
