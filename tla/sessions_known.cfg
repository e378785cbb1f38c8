\* Clients that name only sessions they hold and release a session only when its
\* callbacks are over.
SPECIFICATION Spec
CONSTANTS
  Client = {b1, b2}
  Addr = {a1, a2}
  Slot = {t1, t2}
  Svc = svc_run
  Stray = {}
  FirstId = 10
  MaxSessions = 2
  MaxHandles = 3
  MaxEngines = 0
  MayLeave = {}
  EarlyRelease = FALSE
  NULL = NULL
  Absent = Absent
SYMMETRY AllAlike
CHECK_DEADLOCK FALSE
INVARIANTS TypeOK RegistrySound IdsUnique RegistryExact CallbackIdentity CallbackOnLiveSession ReadyFollowsUpdate
PROPERTY ImplementsDirectory
