\* A callback may create a child of the context that is being reset.
CONSTANTS
  Context = {top, err, a, b}
  NULL = NULL
  Top = top
  Error = err
  Callback = {k}
  FreeLists = {}
  MaxFreeContexts = 1
  MaxCallbackOps = 1
  Subject = {a, b}
  Discipline = {"dying"}
SPECIFICATION Spec
INVARIANT ResetReturnsChildless
