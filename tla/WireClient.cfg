CONSTANTS
  n = n
  a = a
  s = s
  v = v
  w = w
  NL = NL
  NUL = NUL
  ONE = ONE
  ZERO = ZERO
  JUNK = JUNK
  Letter <- MCLetter
  Blank <- MCBlank
  Request <- MCClientRequest
  W = 4
  KeySize = 2
  NameMax = 8
  HtSize = 2
  AoqMaxSize = 1
  Tool = "aoq-client"
  MaxAsks = 2
  MaxBlocks = 0
SPECIFICATION FairSpec
CHECK_DEADLOCK FALSE
PROPERTIES
  Answered
