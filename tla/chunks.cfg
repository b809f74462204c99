SPECIFICATION Spec
CONSTANTS
  Regions = {r1, r2}
  Zero = Zero
  COMMON_CHUNK_SIZE = 65536
  COMMON_CHUNKS_IN_LARGE_CHUNK = 2
  LARGE_CHUNKS_IN_REGION = 2
  CommonSizes = {1024}
  LargeSizes = {102400}
  MaxDepth = 2
INVARIANTS ChunksDisjoint CountCoversUse MetadataInPlace
SYMMETRY Symmetry
CHECK_DEADLOCK FALSE
