\* Five headers, two of them live from the start: a context between two
\* siblings, a chain of three below the root, and a header
\* that is used again after its context was deleted.
CONSTANTS
  Context = {top, err, a, b, c}
  NULL = NULL
  Top = top
  Error = err
SPECIFICATION TreeSpec
INVARIANTS
  TreeTypeOK
  LinksOK
  ParentsAcyclic
  SiblingsAcyclic
  TraversalIsPreorder
PROPERTY
  ImplementsForest
