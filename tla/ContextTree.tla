------------------------------ MODULE ContextTree ------------------------------
(***************************************************************************)
(* The tree of memory contexts that mcxt.c keeps: every context header     *)
(* (MemoryContextData, memnodes.h) carries a parent pointer, the head of   *)
(* the list of its children, and its own two links in its parent's list.   *)
(* Three operations of mcxt.c write these fields: MemoryContextCreate,     *)
(* MemoryContextSetParent and, through it, MemoryContextDeleteOnly.        *)
(*                                                                         *)
(* ContextLifecycle.tla extends this module with the operations that call  *)
(* them; ContextTreeProofs.tla proves the invariants stated here.          *)
(***************************************************************************)

CONSTANTS
  Context,   \* addresses a context header can have
  NULL,      \* the null pointer
  Top,       \* TopMemoryContext, the root that MemoryContextInit creates
  Error      \* ErrorContext, which it creates below Top

ASSUME ContextAssumption ==
  /\ NULL \notin Context
  /\ Top \in Context
  /\ Error \in Context \ {Top}

VARIABLES
  live,        \* contexts created and not yet given to delete_context
  parent,      \* header->parent
  firstchild,  \* header->firstchild
  prevchild,   \* header->prevchild
  nextchild    \* header->nextchild

treeVars == <<live, parent, firstchild, prevchild, nextchild>>

Pointer == Context \cup {NULL}

(***************************************************************************)
(* The contexts at or below c: the smallest set that holds c and, with a   *)
(* context, each live context whose parent it is (no such set lacks one of *)
(* them).                                                                  *)
(***************************************************************************)
ClosedBelow(S) == \A x \in live : parent[x] \in S => x \in S

Subtree(c) ==
  {x \in live \cup {c} :
     \A S \in SUBSET ((live \cup {c}) \ {x}) : c \in S => ~ClosedBelow(S)}

Below(c) == Subtree(c) \ {c}

--------------------------------------------------------------------------------
(***************************************************************************)
(* Taking c out of its parent's list (the first half of                    *)
(* MemoryContextSetParent): what the three list fields hold afterwards,    *)
(* c's own links still being the old ones.                                 *)
(***************************************************************************)
(* Mutants: the neighbour on one side is not told. *)
DelinkedNextForgotten(c) == nextchild
DelinkedPrevForgotten(c) == prevchild

DelinkedFirst(c) ==
  IF parent[c] # NULL /\ prevchild[c] = NULL
  THEN [firstchild EXCEPT ![parent[c]] = nextchild[c]]
  ELSE firstchild

DelinkedNext(c) ==
  IF parent[c] # NULL /\ prevchild[c] # NULL
  THEN [nextchild EXCEPT ![prevchild[c]] = nextchild[c]]
  ELSE nextchild

DelinkedPrev(c) ==
  IF parent[c] # NULL /\ nextchild[c] # NULL
  THEN [prevchild EXCEPT ![nextchild[c]] = prevchild[c]]
  ELSE prevchild

(***************************************************************************)
(* Pushing c onto the front of p's list, or leaving it without a parent,   *)
(* given what the list fields hold (fst, prv, nxt) at that point.          *)
(***************************************************************************)
Relink(c, p, fst, prv, nxt) ==
  /\ parent' = [parent EXCEPT ![c] = p]
  /\ IF p = NULL
     THEN /\ firstchild' = fst
          /\ prevchild' = [prv EXCEPT ![c] = NULL]
          /\ nextchild' = [nxt EXCEPT ![c] = NULL]
     ELSE /\ firstchild' = [fst EXCEPT ![p] = c]
          /\ prevchild' = [x \in Context |->
                             CASE x = c      -> NULL
                               [] x = fst[p] -> c
                               [] OTHER      -> prv[x]]
          /\ nextchild' = [nxt EXCEPT ![c] = fst[p]]

(***************************************************************************)
(* MemoryContextSetParent(c, p), with the fast path for an unchanged       *)
(* parent.                                                                 *)
(***************************************************************************)
SetParentAlways(c, p) ==   \* mutant: no fast path
  Relink(c, p, DelinkedFirst(c), DelinkedPrev(c), DelinkedNext(c))

SetParent(c, p) ==
  IF p = parent[c]
  THEN UNCHANGED <<parent, firstchild, prevchild, nextchild>>
  ELSE Relink(c, p, DelinkedFirst(c), DelinkedPrev(c), DelinkedNext(c))

(***************************************************************************)
(* The linkage half of MemoryContextCreate: the node may be a recycled     *)
(* header, so all of its links are set.                                    *)
(***************************************************************************)
CreateNode(c, p) ==
  /\ live' = live \cup {c}
  /\ Relink(c, p, [firstchild EXCEPT ![c] = NULL], prevchild, nextchild)

(***************************************************************************)
(* MemoryContextDeleteOnly's SetParent(c, NULL) followed by                *)
(* delete_context.  The allocator owns the header from then on and stores  *)
(* `chain` in its nextchild: AllocSetDelete chains recycled headers        *)
(* through that field.                                                     *)
(***************************************************************************)
RemoveNode(c, chain) ==
  /\ live' = live \ {c}
  /\ parent' = [parent EXCEPT ![c] = NULL]
  /\ firstchild' = DelinkedFirst(c)
  /\ prevchild' = [DelinkedPrev(c) EXCEPT ![c] = NULL]
  /\ nextchild' = [DelinkedNext(c) EXCEPT ![c] = chain]

(***************************************************************************)
(* MemoryContextTraverseNext(curr, top): the first child, or else the next *)
(* sibling of curr or of the nearest ancestor below top that has one.      *)
(* Outside the subtree of top the loop would never meet it.                *)
(***************************************************************************)
TraverseNextNoClimb(curr, top) ==   \* mutant: never goes back up
  IF firstchild[curr] # NULL THEN firstchild[curr] ELSE nextchild[curr]

TraverseNext(curr, top) ==
  LET Upward[x \in Below(top)] ==
        IF nextchild[x] # NULL THEN nextchild[x]
        ELSE IF parent[x] = top THEN NULL
        ELSE Upward[parent[x]]
  IN  IF firstchild[curr] # NULL THEN firstchild[curr] ELSE Upward[curr]

--------------------------------------------------------------------------------
(***************************************************************************)
(* The tree on its own: what any sequence of those three operations can    *)
(* do, provided that the caller keeps to the two conditions the code       *)
(* relies on and does not test: a new parent is not below the context it   *)
(* adopts, and a context that is removed has no children.                  *)
(***************************************************************************)
TreeInit ==   \* the tree that MemoryContextInit leaves
  /\ live = {Top, Error}
  /\ parent = [c \in Context |-> IF c = Error THEN Top ELSE NULL]
  /\ firstchild = [c \in Context |-> IF c = Top THEN Error ELSE NULL]
  /\ prevchild = [c \in Context |-> NULL]
  /\ nextchild = [c \in Context |-> NULL]

Create(c, p) ==
  /\ c \notin live
  /\ CreateNode(c, p)

Reparent(c, p) ==
  /\ p \notin Subtree(c)
  /\ SetParent(c, p)
  /\ UNCHANGED live

(* Mutants: TopMemoryContext is removed; a context that has children is. *)
DeleteAnyLeaf(c) ==
  /\ firstchild[c] = NULL
  /\ \E chain \in Pointer : RemoveNode(c, chain)

DeleteInner(c) ==
  /\ c # Top
  /\ \E chain \in Pointer : RemoveNode(c, chain)

DeleteLeaf(c) ==
  /\ c # Top
  /\ firstchild[c] = NULL
  /\ \E chain \in Pointer : RemoveNode(c, chain)

TreeNext ==
  \/ \E c \in Context, p \in live \cup {NULL} : Create(c, p)
  \/ \E c \in live, p \in live \cup {NULL} : Reparent(c, p)
  \/ \E c \in live : DeleteLeaf(c)

TreeSpec == TreeInit /\ [][TreeNext]_treeVars

--------------------------------------------------------------------------------
(* The types of the five variables; TopMemoryContext is never deleted. *)
TreeTypeOK ==
  /\ Top \in live
  /\ live \subseteq Context
  /\ parent \in [Context -> Pointer]
  /\ firstchild \in [Context -> Pointer]
  /\ prevchild \in [Context -> Pointer]
  /\ nextchild \in [Context -> Pointer]

(***************************************************************************)
(* The four link fields of the live contexts agree with one another, and   *)
(* no live context points at a deleted one: the hazard is the pair of      *)
(* neighbours MemoryContextSetParent patches, and the parent's head when   *)
(* the context was the first child.                                        *)
(***************************************************************************)
UpOK(c) ==
  IF parent[c] = NULL
  THEN prevchild[c] = NULL /\ nextchild[c] = NULL
  ELSE parent[c] \in live /\ (prevchild[c] = NULL => firstchild[parent[c]] = c)

DownOK(c) ==
  firstchild[c] # NULL =>
    /\ firstchild[c] \in live
    /\ parent[firstchild[c]] = c
    /\ prevchild[firstchild[c]] = NULL

NextOK(c) ==
  nextchild[c] # NULL =>
    /\ nextchild[c] \in live
    /\ parent[nextchild[c]] = parent[c]
    /\ prevchild[nextchild[c]] = c

PrevOK(c) ==
  prevchild[c] # NULL =>
    /\ prevchild[c] \in live
    /\ parent[prevchild[c]] = parent[c]
    /\ nextchild[prevchild[c]] = c

LinksOK == \A c \in live : UpOK(c) /\ DownOK(c) /\ NextOK(c) /\ PrevOK(c)

(***************************************************************************)
(* No context is its own ancestor, so the loops that climb by parent       *)
(* (MemoryContextTraverseNext, MemoryContextDelete) end: every non-empty   *)
(* set of live contexts has a member whose parent is outside the set.      *)
(***************************************************************************)
ParentsAcyclic ==
  \A S \in SUBSET live : S # {} => \E x \in S : parent[x] \notin S

(***************************************************************************)
(* No child list runs in a circle in either direction, so the loops that   *)
(* follow nextchild end, and every child can be reached from the head of   *)
(* its parent's list.                                                      *)
(***************************************************************************)
SiblingsAcyclic ==
  \A S \in SUBSET live : S # {} =>
    /\ \E x \in S : nextchild[x] \notin S
    /\ \E x \in S : prevchild[x] \notin S

================================================================================
