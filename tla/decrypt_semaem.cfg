\* One stream longer than the undo range of the semaphores, scaled down to 2.
SPECIFICATION Spec
CONSTANTS
  Worker = {w1}
  Block = {m1, m2}
  MaxSamples = 4
  SEMAEM = 2
  Fit = {"ok"}
  Form = {"plain"}
  Unknown = {}
  MayRelease = {}
  MayDie = {}
  Overlap = FALSE
  NULL = NULL
INVARIANT ExclusiveArea
CHECK_DEADLOCK FALSE
