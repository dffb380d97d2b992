CONSTANTS
  n = n
  a = a
  s = s
  v = v
  w = w
  NL = NL
  NUL = NUL
  ONE = ONE
  ZERO = ZERO
  JUNK = JUNK
  Letter <- MCLetter
  Blank <- MCBlank
  Request <- MCRequest
  W = 4
  KeySize = 2
  NameMax = 8
  HtSize = 2
  AoqMaxSize = 1
  Tool = "aoq.php"
  MaxAsks = 3
  MaxBlocks = 1
SPECIFICATION FairSpec
CHECK_DEADLOCK FALSE
INVARIANTS
  TypeOK
  AnswersExact
  NothingInvented
  ItemsFaithful
PROPERTIES
  Answered
