\* Past the largest class and its header, and far enough for the limit to
\* reach every class from 128 to 8192.  The words are small: every product of
\* two sizes below Word is tried.
SPECIFICATION Spec
CONSTANTS
  MaxSize = 33000
  Word = 512
  MaxAllocSize = 100
  AlignBits = 7
  allocChunkLimit = 32
  Word32 = 256
  MaxBlockOffset = 63
INVARIANTS
  FreeIndexIsLeast
  CarvingUsesTheRoom
  ChunkLimitIsGreatest
  BlockHoldsChunk
  RequestsHeld
  SafeToDouble
CHECK_DEADLOCK FALSE
