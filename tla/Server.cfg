CONSTANTS
  Client = {c1, c2, c3}
  MaxClients = 2
  FdLimits = {1, 3}
SPECIFICATION PatientSpec
CHECK_DEADLOCK FALSE
INVARIANTS
  TypeOK
  CountAccounts
  ExactUnlessSpoilt
  DiesOnlyOfLeaks
PROPERTIES
  LoopReturns
  RequestsAreServed
  NoneWaitsForEver
