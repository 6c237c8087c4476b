\* Two headers for clients and two blocks besides their keepers, of two sizes.  A
\* freelist is full with one header, so that it is emptied, and one callback may
\* allocate, free or delete once while a call is in progress.
SPECIFICATION MemorySpec
CONSTANTS
  Context = {top, err, a, b}
  NULL = NULL
  Top = top
  Error = err
  Callback = {k}
  FreeLists = {0}
  MaxFreeContexts = 1
  MaxCallbackOps = 1
  Subject = {a, b}
  Discipline = {"dying", "resetting"}
  Block = {b1, b2}
  KeeperBytes = 1
  BlockBytes = {2}
  LargeBytes = {3}
  MaxInHand = 2
SYMMETRY Exchange
INVARIANTS
  PointersSound
  NothingLost
  TreeAccounts
