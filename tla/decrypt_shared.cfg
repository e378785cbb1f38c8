\* Two streams whose samples overlap.
SPECIFICATION Spec
CONSTANTS
  Worker = {w1, w2}
  Block = {m1, m2}
  MaxSamples = 1
  SEMAEM = 32767
  Fit = {"ok"}
  Form = {"plain"}
  Unknown = {}
  MayRelease = {}
  MayDie = {}
  Overlap = TRUE
  NULL = NULL
SYMMETRY AllAlike
INVARIANT ContentConsumed
CHECK_DEADLOCK FALSE
