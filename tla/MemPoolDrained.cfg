CONSTANTS
  Chunk = {1, 2, 3, 4, 5, 6, 7}
  Slab = {101, 102}
  NULL = NULL
  Options <- MCDrained
  Reserve = 1
  Forecasts <- MCDrainedForecasts
  MaxSlabs = 2
  Malloc <- MCLowest
SPECIFICATION Spec
INVARIANT
  PoolUsable
