--------------------------- MODULE ContextTraversal ----------------------------
(***************************************************************************)
(* How mcxt.c walks the context tree, and the forest its links stand for.  *)
(* This module is checked with TLC only: it follows links by recursion.    *)
(***************************************************************************)
EXTENDS ContextTree, Sequences, SequencesExt

(* The list of siblings that starts with x. *)
RECURSIVE ListFrom(_)
ListFrom(x) == IF x = NULL THEN <<>> ELSE <<x>> \o ListFrom(nextchild[x])

Children == [c \in live |-> ListFrom(firstchild[c])]

(* The contexts that the loop of MemoryContextResetChildren,               *)
(* MemoryContextMemAllocated and MemoryContextMemConsumed visits.          *)
RECURSIVE VisitedFrom(_, _)
VisitedFrom(curr, top) ==
  IF curr = NULL THEN <<>>
  ELSE <<curr>> \o VisitedFrom(TraverseNext(curr, top), top)

Visited(top) == VisitedFrom(firstchild[top], top)

--------------------------------------------------------------------------------
(* The pre-order of the tree at c, by its definition. *)
RECURSIVE Preorder(_)
Preorder(c) == <<c>> \o FlattenSeq([i \in DOMAIN Children[c] |-> Preorder(Children[c][i])])

(***************************************************************************)
(* The loops over a context's descendants, which keep no stack and no mark *)
(* on the nodes, visit each descendant once, before its own children, and  *)
(* nothing outside: MemoryContextTraverseNext promises a pre-order.        *)
(***************************************************************************)
TraversalIsPreorder == \A c \in live : <<c>> \o Visited(c) = Preorder(c)

(***************************************************************************)
(* The doubly linked lists implement the forest: a move keeps the order of *)
(* the children it passes, setting the parent a context already has moves  *)
(* nothing, and a deleted context leaves its parent's list only.           *)
(***************************************************************************)
Forest == INSTANCE ContextForest WITH children <- Children
ImplementsForest == Forest!Spec

================================================================================
