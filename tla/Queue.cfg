CONSTANTS
  n1 = n1
  n2 = n2
  n3 = n3
  n4 = n4
  n5 = n5
  x = x
  y = y
  NULL = NULL
  Node = {n1, n2, n3, n4, n5}
  Arg = {x, y}
  AoqMaxSize = 3
SPECIFICATION Spec
INVARIANTS
  TypeOK
  ListExact
  NodesAccounted
  IdsDistinct
PROPERTIES
  ImplementsFifo
  DeleteTerminates
