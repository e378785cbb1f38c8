\* Clients that also name unknown sessions, release sessions that still have callbacks to
\* come, and disappear: what stays sound, and what comes to an end all the same.
SPECIFICATION Spec
CONSTANTS
  Client = {b1, b2}
  Addr = {a1}
  Slot = {t1}
  Svc = svc_run
  Stray = {s1}
  FirstId = 10
  MaxSessions = 1
  MaxHandles = 3
  MaxEngines = 1
  MayLeave = {b2}
  EarlyRelease = TRUE
  NULL = NULL
  Absent = Absent
CHECK_DEADLOCK FALSE
INVARIANTS RegistrySound StatusOnLiveSession
PROPERTIES CallsAnswered CallbacksEnd
