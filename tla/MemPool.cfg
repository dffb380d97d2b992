CONSTANTS
  Chunk = {1, 2, 3, 4, 5, 6, 7}
  Slab = {101, 102}
  NULL = NULL
  Options <- MCSafe
  Reserve = 3
  Forecasts <- MCSafeForecasts
  MaxSlabs = 2
  Malloc <- MCLowest
SPECIFICATION Spec
INVARIANTS
  TypeOK
  PoolExact
  SlabsExact
  ChunksConserved
  PoolZeroed
  TuneReachesTarget
PROPERTIES
  LoopsEnd
