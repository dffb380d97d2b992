CONSTANTS
  ka = ka
  kb = kb
  kc = kc
  kl = kl
  Key = {ka, kb, kc}
  LongKey = {}
  HashOf <- MCHashOf
  Queue = {q1, q2, q3, q4}
  Sizes = {3}
  MaxSize = 3
  NULL = NULL
  CUT = CUT
  JUNK = JUNK
  STALE = STALE
SPECIFICATION Spec
SYMMETRY MCQueueSymmetry
CHECK_DEADLOCK FALSE
INVARIANT
  AlwaysExact
