SPECIFICATION Spec
CONSTANTS
  COMMON_CHUNK_SIZE = 12
  COMMON_CHUNKS_IN_LARGE_CHUNK = 2
  LARGE_CHUNKS_IN_REGION = 2
  COMMON_SIZE_MAX = 4
  Sizes = {1, 2, 4, 6, 8, 24}
  SIZE_OF_STATE = 6
  SIZE_OF_NLPM = 1
  SIZE_OF_REGION_VIEW = 2
  SizeOfTable <- TableSizes
  MAX_STATES = 2
  Limits = {1, 2, 100}
  UserSizes = {2, 8}
  MaxUser = 4
  MaxOps = 6
INVARIANTS VectorsFit TablesExist MemoryPartitioned HandedOutOnce OwnMemoryCounted OnlyTheLimitPanics
PROPERTY EveryCallReturns
