\* One set with the small parameters and its keeper block of 824 bytes.  Of the
\* sizes, 100 is cut from a block, 400 gets a block of its own, and 200 does so
\* or not by the limit of the set.
SPECIFICATION Spec
CONSTANTS
  NULL = NULL
  Keeper = keeper
  Block = {keeper, b1, b2}
  Value = {v1, v2}
  Size = {100, 200, 400}
  MinContextSize = 0
  InitBlockSize = 1024
  MaxBlockSize = {1024, 2048}
  MaxInUse = 3
INVARIANTS
  AllocSetTypeOK
  BlockListOK
  AccountingOK
  ChunksTile
  FreelistsSound
  StatsAddUp
  CheckPasses
PROPERTY
  ImplementsHeap
SYMMETRY Exchange
