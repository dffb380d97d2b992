CONSTANTS
  ra = ra
  rb = rb
  rc = rc
  Request = {ra, rb, rc}
  Size <- MCSize
  Breaks <- MCBreaks
  Width = 2
  Threshold = 3
  Block = 2
  NULL = NULL
  MaxPieces = 7
  MaxStarts = 3
SPECIFICATION FairSpec
CHECK_DEADLOCK FALSE
INVARIANTS
  TypeOK
  LogExact
  ReplayIsState
PROPERTIES
  StopKeepsAll
  CrashKeepsPrefix
  RecoveryExtends
  FullBufferIsSaved
