\* Two headers of either class for clients, a freelist that is full with one,
\* and a callback that may do two things.  Liveness is checked, so headers are
\* not exchanged.
CONSTANTS
  Context = {top, err, a, b}
  NULL = NULL
  Top = top
  Error = err
  Callback = {k}
  FreeLists = {0}
  MaxFreeContexts = 1
  MaxCallbackOps = 2
  Subject = {a, b}
  Discipline = {"dying", "resetting"}
SPECIFICATION FairSpec
INVARIANTS
  LifecycleTypeOK
  EmptyMeansEmpty
  FreelistsOK
  ResetReturnsEmpty
PROPERTIES
  CalledOnce
  TreeSpec
  CallsReturn
