SPECIFICATION Spec
CONSTANTS
  Regions = {r1, r2}
  Zero = Zero
  COMMON_CHUNK_SIZE = 65536
  COMMON_CHUNKS_IN_LARGE_CHUNK = 8
  LARGE_CHUNKS_IN_REGION = 3
  CommonSizes = {1024}
  LargeSizes = {102400}
  MaxDepth = 1
INVARIANT MetadataInPlace
CHECK_DEADLOCK FALSE
