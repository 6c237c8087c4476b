\* Every size that a Size can have, and the alignments from 1 to 64.
SPECIFICATION Spec
CONSTANTS
  MaxSize = 511
  Word = 512
  MaxAllocSize = 100
  AlignBits = 7
  allocChunkLimit = 32
  Word32 = 256
  MaxBlockOffset = 63
INVARIANTS
  AlignedRequestsHeld
CHECK_DEADLOCK FALSE
