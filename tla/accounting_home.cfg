SPECIFICATION Spec
CONSTANTS
  Classes = {24}
  ChunkSize <- MCChunkSize
  ElemSize <- MCElemSize
  MaxChunks = 2
  MaxSelf = 1
  MaxSizes = 0
  MayFail = FALSE
INVARIANT FreeableWhenHome
CHECK_DEADLOCK FALSE
