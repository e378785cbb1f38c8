\* Two streams whose samples do not overlap; sessions install 16-byte keys at any time,
\* and a sample may be rejected: an IV of 16 bytes, a segment with the id 0.
SPECIFICATION Spec
CONSTANTS
  Worker = {w1, w2}
  Block = {m1, m2}
  MaxSamples = 2
  SEMAEM = 32767
  Fit = {"ok", "zero"}
  Form = {"plain", "iv16", "id0"}
  Unknown = {}
  MayRelease = {}
  MayDie = {}
  Overlap = FALSE
  NULL = NULL
SYMMETRY AllAlike
INVARIANTS TypeOK ExclusiveArea HeapSound NothingLeaked ContentConsumed
PROPERTY ImplementsChannel
CHECK_DEADLOCK FALSE
