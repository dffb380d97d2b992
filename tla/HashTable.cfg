CONSTANTS
  ka = ka
  kb = kb
  kc = kc
  kl = kl
  Key = {ka, kb, kc, kl}
  LongKey = {kl}
  HashOf <- MCHashOf
  Queue = {q1, q2, q3, q4}
  Sizes = {2, 3}
  MaxSize = 6
  NULL = NULL
  CUT = CUT
  JUNK = JUNK
  STALE = STALE
SPECIFICATION Spec
SYMMETRY MCQueueSymmetry
CHECK_DEADLOCK FALSE
INVARIANTS
  TypeOK
  BucketsOwnQueues
  TotalCountsBuckets
  ChainsEnd
  ExactWhileIntact
