SPECIFICATION Spec
CONSTANTS
  Classes = {1000, 65536}
  ChunkSize <- MCChunkSize
  ElemSize <- MCElemSize
  MaxChunks = 2
  MaxSelf = 1
  MaxSizes = 1
  MayFail = TRUE
INVARIANTS ObjectsConserved NeverFreedEarly UsedNotBelowInUse TestIsExact
CHECK_DEADLOCK FALSE
