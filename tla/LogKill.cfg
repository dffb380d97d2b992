CONSTANTS
  ra = ra
  rb = rb
  rc = rc
  Request = {ra, rb, rc}
  Size <- MCSize
  Breaks <- MCBreaks
  Width = 2
  Threshold = 3
  Block = 2
  NULL = NULL
  MaxPieces = 7
  MaxStarts = 3
SPECIFICATION Spec
CHECK_DEADLOCK FALSE
PROPERTIES
  KillKeepsAll
