CONSTANTS
  ka = ka
  kb = kb
  Key = {ka, kb}
  LongKey = {}
  HashOf <- MCHashOf
  Queue = {q1, q2, q3}
  Sizes = {2}
  MaxSize = 4
  NULL = NULL
  CUT = CUT
  JUNK = JUNK
  STALE = STALE
  Value = {x}
  Fd = {0, 7}
  Chunks = {2}
  AoqMaxSize = 1
  MaxUsed = 6
SPECIFICATION Spec
SYMMETRY MCQueueSymmetry
CHECK_DEADLOCK FALSE
INVARIANTS
  TypeOK
  ChunksOwned
PROPERTIES
  ImplementsService
