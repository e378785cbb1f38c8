\* One stream and a key that has not 16 bytes.
SPECIFICATION Spec
CONSTANTS
  Worker = {w1}
  Block = {m1, m2}
  MaxSamples = 3
  SEMAEM = 32767
  Fit = {"ok", "size"}
  Form = {"plain"}
  Unknown = {}
  MayRelease = {}
  MayDie = {}
  Overlap = FALSE
  NULL = NULL
INVARIANT HeapSound
CHECK_DEADLOCK FALSE
