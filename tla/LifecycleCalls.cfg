\* Three headers for clients, none of a freelist class: enough for a callback to
\* create, move or delete a context beside the ones a walk is in the middle of.
CONSTANTS
  Context = {top, err, a, b, c}
  NULL = NULL
  Top = top
  Error = err
  Callback = {k}
  FreeLists = {}
  MaxFreeContexts = 1
  MaxCallbackOps = 2
  Subject = {a, b, c}
  Discipline = {"dying", "resetting"}
SPECIFICATION Spec
SYMMETRY Exchange
INVARIANTS
  CallsTouchOnlyLive
  DeleteAssertions
  ResetReturnsChildless
  NoCallbackLost
