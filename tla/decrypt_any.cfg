\* Overlapping streams, any key, an unknown session, a released session and
\* a killed client: the areas stay exclusive, samples are answered and workers end.
SPECIFICATION Spec
CONSTANTS
  Worker = {w1, w2}
  Block = {m1, m2}
  MaxSamples = 1
  SEMAEM = 32767
  Fit = {"ok", "size"}
  Form = {"plain"}
  Unknown = {w2}
  MayRelease = {w1}
  MayDie = {w2}
  Overlap = TRUE
  NULL = NULL
INVARIANTS ExclusiveArea NeverBothAsleep
PROPERTIES SamplesAnswered WorkersEnd
CHECK_DEADLOCK FALSE
