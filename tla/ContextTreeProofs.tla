--------------------------- MODULE ContextTreeProofs ---------------------------
(***************************************************************************)
(* Proofs that the operations on the context tree keep its links           *)
(* consistent and its lists and chains of parents free of cycles, for any  *)
(* number of contexts.                                                     *)
(***************************************************************************)
EXTENDS ContextTree, TLAPS

(* What the steps preserve together: no part is inductive without the     *)
(* types, and neither form of acyclicity without the links.               *)
TreeInv == TreeTypeOK /\ LinksOK /\ ParentsAcyclic /\ SiblingsAcyclic

(* Subtree(c) holds c and every live context with a parent in it: what    *)
(* the condition of MemoryContextSetParent's caller is used for.          *)
LEMMA SubtreeClosed ==
  ASSUME NEW c \in live
  PROVE  /\ c \in Subtree(c)
         /\ ClosedBelow(Subtree(c))
  BY DEF Subtree, ClosedBelow

(* No live context is its own sibling, and none has itself as parent.     *)
LEMMA NoSelfLink ==
  ASSUME TreeInv, NEW c \in live
  PROVE  nextchild[c] # c /\ prevchild[c] # c /\ parent[c] # c
<1>1. nextchild[c] # c
  <2>1. {c} \in SUBSET live /\ {c} # {}
    OBVIOUS
  <2> QED
    BY <2>1 DEF TreeInv, SiblingsAcyclic
<1>2. prevchild[c] # c
  <2>1. PrevOK(c)
    BY DEF TreeInv, LinksOK
  <2>2. c # NULL
    BY ContextAssumption DEF TreeInv, TreeTypeOK
  <2> QED
    BY <1>1, <2>1, <2>2 DEF PrevOK
<1>3. parent[c] # c
  <2>1. {c} \in SUBSET live /\ {c} # {}
    OBVIOUS
  <2> QED
    BY <2>1 DEF TreeInv, ParentsAcyclic
<1> QED
  BY <1>1, <1>2, <1>3

--------------------------------------------------------------------------------
(* Each operation keeps the types. *)
LEMMA CreateTypes ==
  ASSUME TreeInv, NEW c \in Context, NEW p \in live \cup {NULL}, Create(c, p)
  PROVE  TreeTypeOK'
  BY ContextAssumption
  DEF TreeInv, TreeTypeOK, Create, CreateNode, Relink, Pointer

(* MemoryContextSetParent keeps the types. *)
LEMMA ReparentTypes ==
  ASSUME TreeInv, NEW c \in live, NEW p \in live \cup {NULL}, Reparent(c, p)
  PROVE  TreeTypeOK'
  BY ContextAssumption
  DEF TreeInv, TreeTypeOK, Reparent, SetParent, Relink, Pointer,
      DelinkedFirst, DelinkedPrev, DelinkedNext

(* MemoryContextDeleteOnly keeps the types. *)
LEMMA RemoveTypes ==
  ASSUME TreeInv, NEW c \in live, DeleteLeaf(c)
  PROVE  TreeTypeOK'
  BY ContextAssumption
  DEF TreeInv, TreeTypeOK, DeleteLeaf, RemoveNode, Pointer,
      DelinkedFirst, DelinkedPrev, DelinkedNext

--------------------------------------------------------------------------------
(* Each operation keeps the links. *)
LEMMA CreateLinks ==
  ASSUME TreeInv, NEW c \in Context, NEW p \in live \cup {NULL}, Create(c, p)
  PROVE  LinksOK'
<1> SUFFICES ASSUME NEW x \in live'
             PROVE  UpOK(x)' /\ DownOK(x)' /\ NextOK(x)' /\ PrevOK(x)'
  BY DEF LinksOK
<1> USE ContextAssumption
  DEF TreeInv, TreeTypeOK, LinksOK, Create, CreateNode, Relink, Pointer
<1>1. UpOK(x)'
  BY DEF UpOK, DownOK, NextOK, PrevOK
<1>2. DownOK(x)'
  BY DEF UpOK, DownOK, NextOK, PrevOK
<1>3. NextOK(x)'
  BY DEF UpOK, DownOK, NextOK, PrevOK
<1>4. PrevOK(x)'
  BY DEF UpOK, DownOK, NextOK, PrevOK
<1> QED
  BY <1>1, <1>2, <1>3, <1>4

(* MemoryContextSetParent keeps the links sound. *)
LEMMA ReparentLinks ==
  ASSUME TreeInv, NEW c \in live, NEW p \in live \cup {NULL}, Reparent(c, p)
  PROVE  LinksOK'
<1>0. p # c /\ nextchild[c] # c /\ prevchild[c] # c /\ parent[c] # c
  BY SubtreeClosed, NoSelfLink DEF Reparent
<1>1. CASE p = parent[c]
  BY <1>1 DEF TreeInv, LinksOK, Reparent, SetParent, UpOK, DownOK, NextOK, PrevOK
<1>2. CASE p # parent[c]
  <2> SUFFICES ASSUME NEW x \in live'
               PROVE  UpOK(x)' /\ DownOK(x)' /\ NextOK(x)' /\ PrevOK(x)'
    BY DEF LinksOK
  <2> USE ContextAssumption, <1>0, <1>2
    DEF TreeInv, TreeTypeOK, LinksOK, Reparent, SetParent, Relink, Pointer,
        DelinkedFirst, DelinkedPrev, DelinkedNext
  <2>1. UpOK(x)'
    BY DEF UpOK, DownOK, NextOK, PrevOK
  <2>2. DownOK(x)'
    BY DEF UpOK, DownOK, NextOK, PrevOK
  <2>3. NextOK(x)'
    BY DEF UpOK, DownOK, NextOK, PrevOK
  <2>4. PrevOK(x)'
    BY DEF UpOK, DownOK, NextOK, PrevOK
  <2> QED
    BY <2>1, <2>2, <2>3, <2>4
<1> QED
  BY <1>1, <1>2

(* A context without a first child is nobody's parent: MemoryContextDelete *)
(* takes an empty child list for the absence of children.                  *)
LEMMA NoChildren ==
  ASSUME TreeInv, NEW c \in live, firstchild[c] = NULL, NEW x \in live
  PROVE  parent[x] # c
<1> DEFINE S == {y \in live : parent[y] = c}
<1>1. \A y \in S : prevchild[y] \in S
  <2> SUFFICES ASSUME NEW y \in S
               PROVE  prevchild[y] \in S
    OBVIOUS
  <2>1. UpOK(y) /\ PrevOK(y)
    BY DEF TreeInv, LinksOK
  <2>2. c # NULL /\ y # NULL
    BY ContextAssumption DEF TreeInv, TreeTypeOK
  <2> QED
    BY <2>1, <2>2 DEF UpOK, PrevOK
<1>2. S \in SUBSET live
  OBVIOUS
<1>3. S = {}
  BY <1>1, <1>2 DEF TreeInv, SiblingsAcyclic
<1> QED
  BY <1>3

(* So does MemoryContextDeleteOnly. *)
LEMMA RemoveLinks ==
  ASSUME TreeInv, NEW c \in live, DeleteLeaf(c)
  PROVE  LinksOK'
<1> SUFFICES ASSUME NEW x \in live'
             PROVE  UpOK(x)' /\ DownOK(x)' /\ NextOK(x)' /\ PrevOK(x)'
  BY DEF LinksOK
<1>0. /\ nextchild[c] # c /\ prevchild[c] # c /\ parent[c] # c
      /\ \A y \in live : parent[y] # c
  BY NoSelfLink, NoChildren DEF DeleteLeaf
<1> USE ContextAssumption, <1>0
  DEF TreeInv, TreeTypeOK, LinksOK, DeleteLeaf, RemoveNode, Pointer,
      DelinkedFirst, DelinkedPrev, DelinkedNext
<1>1. UpOK(x)'
  BY DEF UpOK, DownOK, NextOK, PrevOK
<1>2. DownOK(x)'
  BY DEF UpOK, DownOK, NextOK, PrevOK
<1>3. NextOK(x)'
  BY DEF UpOK, DownOK, NextOK, PrevOK
<1>4. PrevOK(x)'
  BY DEF UpOK, DownOK, NextOK, PrevOK
<1> QED
  BY <1>1, <1>2, <1>3, <1>4

--------------------------------------------------------------------------------
(* Each operation keeps the chains of parents free of cycles. *)
LEMMA CreateParents ==
  ASSUME TreeInv, NEW c \in Context, NEW p \in live \cup {NULL}, Create(c, p)
  PROVE  ParentsAcyclic'
<1> SUFFICES ASSUME NEW S \in SUBSET live', S # {}
             PROVE  \E x \in S : parent'[x] \notin S
  BY DEF ParentsAcyclic
<1>1. /\ c \notin live /\ live' = live \cup {c}
      /\ parent'[c] = p
      /\ \A x \in live : parent'[x] = parent[x] /\ parent[x] # c
  BY ContextAssumption
  DEF TreeInv, TreeTypeOK, LinksOK, UpOK, Create, CreateNode, Relink, Pointer
<1>2. CASE S \subseteq {c}
  BY <1>1, <1>2, ContextAssumption
<1>3. CASE ~(S \subseteq {c})
  <2>1. S \ {c} \in SUBSET live /\ S \ {c} # {}
    BY <1>1, <1>3
  <2>2. PICK x \in S \ {c} : parent[x] \notin S \ {c}
    BY <2>1 DEF TreeInv, ParentsAcyclic
  <2> QED
    BY <1>1, <2>1, <2>2
<1> QED
  BY <1>2, <1>3

(* A move puts no context below itself. *)
LEMMA ReparentParents ==
  ASSUME TreeInv, NEW c \in live, NEW p \in live \cup {NULL}, Reparent(c, p)
  PROVE  ParentsAcyclic'
<1> SUFFICES ASSUME NEW S \in SUBSET live', S # {}
             PROVE  \E x \in S : parent'[x] \notin S
  BY DEF ParentsAcyclic
<1>1. live' = live /\ parent' = [parent EXCEPT ![c] = p]
  BY DEF TreeInv, TreeTypeOK, Reparent, SetParent, Relink
<1>2. /\ parent'[c] = p
      /\ \A x \in live : x # c => parent'[x] = parent[x]
  BY <1>1 DEF TreeInv, TreeTypeOK
<1> DEFINE T == S \ Subtree(c)
<1>3. CASE c \notin S
  BY <1>1, <1>2, <1>3 DEF TreeInv, ParentsAcyclic
<1>4. CASE c \in S /\ T = {}
  BY <1>2, <1>4 DEF Reparent
<1>5. CASE c \in S /\ T # {}
  <2>1. T \in SUBSET live
    BY <1>1
  <2>2. PICK x \in T : parent[x] \notin T
    BY <1>5, <2>1 DEF TreeInv, ParentsAcyclic
  <2>3. x # c /\ parent'[x] = parent[x]
    BY <1>2, <2>1, <2>2, SubtreeClosed
  <2>4. parent[x] \notin S
    BY <2>1, <2>2, SubtreeClosed DEF ClosedBelow
  <2> QED
    BY <2>2, <2>3, <2>4
<1> QED
  BY <1>3, <1>4, <1>5

(* Nor does a deletion. *)
LEMMA RemoveParents ==
  ASSUME TreeInv, NEW c \in live, DeleteLeaf(c)
  PROVE  ParentsAcyclic'
<1> SUFFICES ASSUME NEW S \in SUBSET live', S # {}
             PROVE  \E x \in S : parent'[x] \notin S
  BY DEF ParentsAcyclic
<1>1. /\ live' = live \ {c}
      /\ \A x \in live : x # c => parent'[x] = parent[x]
  BY DEF TreeInv, TreeTypeOK, DeleteLeaf, RemoveNode
<1> QED
  BY <1>1 DEF TreeInv, ParentsAcyclic

--------------------------------------------------------------------------------
(* A set of contexts that c is not in keeps its two ends while c is taken  *)
(* out of its list.                                                        *)
LEMMA DelinkKeepsEnds ==
  ASSUME TreeInv, NEW c \in live,
         NEW S \in SUBSET (live \ {c}), S # {}
  PROVE  /\ \E x \in S : DelinkedNext(c)[x] \notin S
         /\ \E x \in S : DelinkedPrev(c)[x] \notin S
<1>1. UpOK(c) /\ NextOK(c) /\ PrevOK(c)
  BY DEF TreeInv, LinksOK
<1>2. S \in SUBSET live /\ S \cup {c} \in SUBSET live
  OBVIOUS
<1>3. NULL \notin live /\ live \subseteq Context
  BY ContextAssumption DEF TreeInv, TreeTypeOK
<1>4. \E x \in S : DelinkedNext(c)[x] \notin S
  <2>1. PICK y \in S : nextchild[y] \notin S
    BY <1>2 DEF TreeInv, SiblingsAcyclic
  <2>2. PICK z \in S \cup {c} : nextchild[z] \notin S \cup {c}
    BY <1>2 DEF TreeInv, SiblingsAcyclic
  <2> QED
    BY <1>1, <1>2, <1>3, <2>1, <2>2
    DEF DelinkedNext, TreeInv, TreeTypeOK, LinksOK, UpOK, NextOK, PrevOK
<1>5. \E x \in S : DelinkedPrev(c)[x] \notin S
  <2>1. PICK y \in S : prevchild[y] \notin S
    BY <1>2 DEF TreeInv, SiblingsAcyclic
  <2>2. PICK z \in S \cup {c} : prevchild[z] \notin S \cup {c}
    BY <1>2 DEF TreeInv, SiblingsAcyclic
  <2> QED
    BY <1>1, <1>2, <1>3, <2>1, <2>2
    DEF DelinkedPrev, TreeInv, TreeTypeOK, LinksOK, UpOK, NextOK, PrevOK
<1> QED
  BY <1>4, <1>5

(* Once c is out of its list, no other context has it as a neighbour.      *)
LEMMA DelinkForgets ==
  ASSUME TreeInv, NEW c \in live, NEW x \in live, x # c
  PROVE  DelinkedNext(c)[x] # c /\ DelinkedPrev(c)[x] # c
<1>1. /\ UpOK(c) /\ NextOK(c) /\ PrevOK(c)
      /\ UpOK(x) /\ NextOK(x) /\ PrevOK(x)
  BY DEF TreeInv, LinksOK
<1>2. NULL \notin live /\ live \subseteq Context
  BY ContextAssumption DEF TreeInv, TreeTypeOK
<1> QED
  BY <1>1, <1>2, NoSelfLink
  DEF DelinkedNext, DelinkedPrev, TreeInv, TreeTypeOK, UpOK, NextOK, PrevOK

--------------------------------------------------------------------------------
(* Each operation keeps the lists of children free of circles. *)
LEMMA CreateSiblings ==
  ASSUME TreeInv, NEW c \in Context, NEW p \in live \cup {NULL}, Create(c, p)
  PROVE  SiblingsAcyclic'
<1> SUFFICES ASSUME NEW S \in SUBSET live', S # {}
             PROVE  /\ \E x \in S : nextchild'[x] \notin S
                    /\ \E x \in S : prevchild'[x] \notin S
  BY DEF SiblingsAcyclic
<1>1. NULL \notin live /\ NULL # c /\ live' = live \cup {c} /\ c \notin live
  BY ContextAssumption DEF TreeInv, TreeTypeOK, Create, CreateNode
<1>2. /\ prevchild'[c] = NULL
      /\ p = NULL => nextchild'[c] = NULL
      /\ p # NULL => nextchild'[c] = firstchild[p] /\ firstchild[p] # c
      /\ \A x \in live : nextchild'[x] = nextchild[x] /\ nextchild[x] # c
      /\ \A x \in live : prevchild'[x] = prevchild[x] \/ prevchild'[x] = c
      /\ \A x \in live : prevchild[x] # c
  BY ContextAssumption
  DEF TreeInv, TreeTypeOK, LinksOK, DownOK, NextOK, PrevOK, Pointer,
      Create, CreateNode, Relink
<1>3. CASE c \notin S
  BY <1>1, <1>2, <1>3 DEF TreeInv, SiblingsAcyclic
<1>4. CASE S = {c}
  BY <1>1, <1>2, <1>4
<1>5. CASE c \in S /\ S # {c}
  <2>1. S \ {c} \in SUBSET live /\ S \ {c} # {}
    BY <1>1, <1>5
  <2>2. PICK x \in S \ {c} : nextchild[x] \notin S \ {c}
    BY <2>1 DEF TreeInv, SiblingsAcyclic
  <2> QED
    BY <1>1, <1>2, <1>5, <2>1, <2>2
<1> QED
  BY <1>3, <1>4, <1>5

(* A move closes no ring of siblings. *)
LEMMA ReparentSiblings ==
  ASSUME TreeInv, NEW c \in live, NEW p \in live \cup {NULL}, Reparent(c, p)
  PROVE  SiblingsAcyclic'
<1>1. CASE p = parent[c]
  BY <1>1 DEF TreeInv, SiblingsAcyclic, Reparent, SetParent
<1>2. CASE p # parent[c]
  <2> SUFFICES ASSUME NEW S \in SUBSET live', S # {}
               PROVE  /\ \E x \in S : nextchild'[x] \notin S
                      /\ \E x \in S : prevchild'[x] \notin S
    BY DEF SiblingsAcyclic
  <2>1. /\ NULL \notin live /\ live \subseteq Context
        /\ live' = live /\ p # c
    BY ContextAssumption, SubtreeClosed DEF TreeInv, TreeTypeOK, Reparent
  <2>2. Relink(c, p, DelinkedFirst(c), DelinkedPrev(c), DelinkedNext(c))
    BY <1>2 DEF Reparent, SetParent
  <2>3. /\ DelinkedNext(c) \in [Context -> Pointer]
        /\ DelinkedPrev(c) \in [Context -> Pointer]
        /\ DelinkedFirst(c) \in [Context -> Pointer]
    BY ContextAssumption
    DEF TreeInv, TreeTypeOK, Pointer, DelinkedNext, DelinkedPrev, DelinkedFirst
  <2>4. p # NULL => DelinkedFirst(c)[p] = firstchild[p] /\ firstchild[p] # c
    BY <1>2, <2>1
    DEF TreeInv, TreeTypeOK, LinksOK, DownOK, DelinkedFirst, Pointer
  <2>5. /\ prevchild'[c] = NULL
        /\ nextchild'[c] \in live \cup {NULL} /\ nextchild'[c] # c
        /\ \A x \in live : x # c => /\ nextchild'[x] = DelinkedNext(c)[x]
                                   /\ \/ prevchild'[x] = DelinkedPrev(c)[x]
                                      \/ prevchild'[x] = c
    <3>1. c \in Context /\ c # NULL
      BY <2>1
    <3>2. CASE p = NULL
      BY <2>1, <2>2, <2>3, <3>1, <3>2 DEF Relink
    <3>3. CASE p # NULL
      <4>1. firstchild[p] \in live \cup {NULL}
        BY <3>3 DEF TreeInv, LinksOK, DownOK
      <4> QED
        BY <2>1, <2>2, <2>3, <2>4, <3>1, <3>3, <4>1 DEF Relink
    <3> QED
      BY <3>2, <3>3
  <2>6. CASE c \notin S
    BY <2>1, <2>5, <2>6, DelinkKeepsEnds
  <2>7. CASE S = {c}
    BY <2>1, <2>5, <2>7
  <2>8. CASE c \in S /\ S # {c}
    <3>1. S \ {c} \in SUBSET (live \ {c}) /\ S \ {c} # {}
      BY <2>1, <2>8
    <3>2. PICK x \in S \ {c} : DelinkedNext(c)[x] \notin S \ {c}
      BY <3>1, DelinkKeepsEnds
    <3>3. nextchild'[x] \notin S
      BY <2>5, <3>1, <3>2, DelinkForgets
    <3>4. prevchild'[c] \notin S
      BY <2>1, <2>5
    <3> QED
      BY <2>8, <3>2, <3>3, <3>4
  <2> QED
    BY <2>6, <2>7, <2>8
<1> QED
  BY <1>1, <1>2

(* Nor does a deletion. *)
LEMMA RemoveSiblings ==
  ASSUME TreeInv, NEW c \in live, DeleteLeaf(c)
  PROVE  SiblingsAcyclic'
<1> SUFFICES ASSUME NEW S \in SUBSET live', S # {}
             PROVE  /\ \E x \in S : nextchild'[x] \notin S
                    /\ \E x \in S : prevchild'[x] \notin S
  BY DEF SiblingsAcyclic
<1>1. /\ DelinkedNext(c) \in [Context -> Pointer]
      /\ DelinkedPrev(c) \in [Context -> Pointer]
  BY ContextAssumption
  DEF TreeInv, TreeTypeOK, Pointer, DelinkedNext, DelinkedPrev
<1>2. /\ live' = live \ {c}
      /\ \A x \in live : x # c => /\ nextchild'[x] = DelinkedNext(c)[x]
                                 /\ prevchild'[x] = DelinkedPrev(c)[x]
  BY <1>1 DEF TreeInv, TreeTypeOK, DeleteLeaf, RemoveNode
<1> QED
  BY <1>2, DelinkKeepsEnds

--------------------------------------------------------------------------------
(* The invariant holds at the start, and every step keeps it. *)
LEMMA TreeInvInitially ==
  ASSUME TreeInit
  PROVE  TreeInv
<1> USE ContextAssumption DEF TreeInit
<1>1. TreeTypeOK
  BY DEF TreeTypeOK, Pointer
<1>2. LinksOK
  BY DEF LinksOK, UpOK, DownOK, NextOK, PrevOK
<1>3. ParentsAcyclic
  <2> SUFFICES ASSUME NEW S \in SUBSET live, S # {}
               PROVE  \E x \in S : parent[x] \notin S
    BY DEF ParentsAcyclic
  <2>1. CASE Top \in S
    BY <2>1
  <2>2. CASE S = {Error}
    BY <2>2
  <2>3. S \subseteq {Top, Error}
    OBVIOUS
  <2> HIDE DEF TreeInit
  <2>4. Top \in S \/ S = {Error}
    BY <2>3
  <2> QED
    BY <2>1, <2>2, <2>4
<1>4. SiblingsAcyclic
  BY DEF SiblingsAcyclic
<1> QED
  BY <1>1, <1>2, <1>3, <1>4 DEF TreeInv

(* Every operation. *)
LEMMA TreeInvStep ==
  ASSUME TreeInv, [TreeNext]_treeVars
  PROVE  TreeInv'
<1>1. ASSUME NEW c \in Context, NEW p \in live \cup {NULL}, Create(c, p)
      PROVE  TreeInv'
  BY <1>1, CreateTypes, CreateLinks, CreateParents, CreateSiblings DEF TreeInv
<1>2. ASSUME NEW c \in live, NEW p \in live \cup {NULL}, Reparent(c, p)
      PROVE  TreeInv'
  BY <1>2, ReparentTypes, ReparentLinks, ReparentParents, ReparentSiblings
  DEF TreeInv
<1>3. ASSUME NEW c \in live, DeleteLeaf(c)
      PROVE  TreeInv'
  BY <1>3, RemoveTypes, RemoveLinks, RemoveParents, RemoveSiblings DEF TreeInv
<1>4. CASE UNCHANGED treeVars
  BY <1>4
  DEF treeVars, TreeInv, TreeTypeOK, LinksOK, UpOK, DownOK, NextOK, PrevOK,
      ParentsAcyclic, SiblingsAcyclic
<1> QED
  BY <1>1, <1>2, <1>3, <1>4 DEF TreeNext

(* MemoryContextCreate, MemoryContextSetParent and MemoryContextDeleteOnly *)
(* store only context addresses and NULL, and the root stays.              *)
THEOREM TreeTypesCorrect == TreeSpec => []TreeTypeOK
<1>1. TreeInv => TreeTypeOK
  BY DEF TreeInv
<1> QED
  BY <1>1, TreeInvInitially, TreeInvStep, PTL DEF TreeSpec

(* After any sequence of creations, moves and deletions the four link      *)
(* fields of the live contexts agree, and none leads to a deleted context. *)
THEOREM TreeLinksCorrect == TreeSpec => []LinksOK
<1>1. TreeInv => LinksOK
  BY DEF TreeInv
<1> QED
  BY <1>1, TreeInvInitially, TreeInvStep, PTL DEF TreeSpec

(* No context becomes its own ancestor.                                    *)
THEOREM TreeHasNoParentCycle == TreeSpec => []ParentsAcyclic
<1>1. TreeInv => ParentsAcyclic
  BY DEF TreeInv
<1> QED
  BY <1>1, TreeInvInitially, TreeInvStep, PTL DEF TreeSpec

(* No list of children becomes a ring.                                     *)
THEOREM TreeHasNoSiblingCycle == TreeSpec => []SiblingsAcyclic
<1>1. TreeInv => SiblingsAcyclic
  BY DEF TreeInv
<1> QED
  BY <1>1, TreeInvInitially, TreeInvStep, PTL DEF TreeSpec

--------------------------------------------------------------------------------
(***************************************************************************)
(* What Subtree means in a tree that keeps the invariant.                  *)
(***************************************************************************)
(* Subtree(c) is the least set that holds c and is closed below.           *)
LEMMA SubtreeLeast ==
  ASSUME NEW c \in live, NEW S \in SUBSET live, c \in S, ClosedBelow(S)
  PROVE  Subtree(c) \subseteq S
  BY DEF Subtree

(* It holds live contexts only.                                            *)
LEMMA SubtreeLive ==
  ASSUME NEW c \in live
  PROVE  Subtree(c) \in SUBSET live
  BY DEF Subtree

(* A member's own subtree is a part of it.                                 *)
LEMMA SubtreeOfMember ==
  ASSUME NEW c \in live, NEW x \in Subtree(c)
  PROVE  Subtree(x) \subseteq Subtree(c)
<1>1. x \in live
  BY SubtreeLive
<1> QED
  BY <1>1, SubtreeLive, SubtreeClosed, SubtreeLeast

(* Every member but the root has its parent there.                         *)
LEMMA ParentInside ==
  ASSUME NEW c \in live, NEW x \in Below(c)
  PROVE  parent[x] \in Subtree(c)
<1> DEFINE S == {y \in Subtree(c) : y = c \/ parent[y] \in Subtree(c)}
<1>1. S \in SUBSET live /\ c \in S /\ ClosedBelow(S)
  BY SubtreeLive, SubtreeClosed DEF ClosedBelow
<1>2. x \in S
  BY <1>1, SubtreeLeast DEF Below
<1> QED
  BY <1>2 DEF Below

(* A context is outside the subtree of each context below it.              *)
LEMMA NotAbove ==
  ASSUME TreeInv, NEW c \in live, NEW x \in Below(c)
  PROVE  c \notin Subtree(x)
<1> SUFFICES ASSUME c \in Subtree(x)
             PROVE  FALSE
  OBVIOUS
<1>1. x \in live /\ x \in Subtree(c) /\ x # c
  BY SubtreeLive DEF Below
<1>2. Subtree(x) = Subtree(c)
  BY <1>1, SubtreeOfMember
<1>3. \A y \in Subtree(c) : parent[y] \in Subtree(c)
  BY <1>1, <1>2, ParentInside DEF Below
<1>4. Subtree(c) \in SUBSET live /\ Subtree(c) # {}
  BY <1>1, SubtreeLive
<1> QED
  BY <1>3, <1>4 DEF TreeInv, ParentsAcyclic

(* The root's own parent is not in it.                                     *)
LEMMA ParentOutside ==
  ASSUME TreeInv, NEW c \in live
  PROVE  parent[c] \notin Subtree(c)
<1> SUFFICES ASSUME parent[c] \in Subtree(c)
             PROVE  FALSE
  OBVIOUS
<1>1. parent[c] \in Below(c)
  BY NoSelfLink DEF Below
<1>2. c \in Subtree(parent[c])
  BY <1>1, SubtreeLive, SubtreeClosed DEF ClosedBelow, Below
<1> QED
  BY <1>1, <1>2, NotAbove

(* A child is below its parent.                                            *)
LEMMA ChildBelow ==
  ASSUME TreeInv, NEW c \in live, NEW x \in live, parent[x] \in Subtree(c)
  PROVE  x \in Below(c)
  BY SubtreeClosed, ParentOutside DEF ClosedBelow, Below

(* A context without children is all of its subtree.                       *)
LEMMA LeafSubtree ==
  ASSUME TreeInv, NEW c \in live, firstchild[c] = NULL
  PROVE  Subtree(c) = {c}
<1>1. ClosedBelow({c})
  BY NoChildren DEF ClosedBelow
<1> QED
  BY <1>1, SubtreeLeast, SubtreeClosed

--------------------------------------------------------------------------------
(***************************************************************************)
(* How the three operations change subtrees: what a call in progress knows *)
(* of the contexts it holds, after a callback has worked on the tree.      *)
(***************************************************************************)
(* A new context changes no other's place.                                 *)
LEMMA CreateKeepsSubtrees ==
  ASSUME TreeInv, NEW c \in Context, NEW p \in live \cup {NULL}, Create(c, p),
         NEW d \in live, NEW h \in live
  PROVE  h \in Subtree(d)' <=> h \in Subtree(d)
<1>1. /\ c \notin live /\ live' = live \cup {c}
      /\ \A x \in live : parent'[x] = parent[x] /\ parent[x] # c
  BY ContextAssumption
  DEF TreeInv, TreeTypeOK, LinksOK, UpOK, Create, CreateNode, Relink, Pointer
<1>2. ASSUME h \in Subtree(d)'
      PROVE  h \in Subtree(d)
  <2> DEFINE S == Subtree(d) \cup {c}
  <2>1. S \in SUBSET (live' \cup {d}) /\ d \in S
    BY <1>1, SubtreeLive, SubtreeClosed
  <2>2. \A x \in live' : parent'[x] \in S => x \in S
    BY <1>1, SubtreeClosed DEF ClosedBelow
  <2> HIDE DEF S
  <2>3. h \in S
    BY <1>2, <2>1, <2>2 DEF Subtree, ClosedBelow
  <2> QED
    BY <1>1, <2>3 DEF S
<1>3. ASSUME h \in Subtree(d), NEW S \in SUBSET (live' \cup {d}), d \in S,
             \A x \in live' : parent'[x] \in S => x \in S
      PROVE  h \in S
  <2>1. S \cap live \in SUBSET live /\ d \in S \cap live /\ ClosedBelow(S \cap live)
    BY <1>1, <1>3 DEF ClosedBelow
  <2> QED
    BY <1>3, <2>1, SubtreeLeast
<1>4. h \in Subtree(d) => h \in Subtree(d)'
  BY <1>1, <1>3 DEF Subtree, ClosedBelow
<1> QED
  BY <1>2, <1>4

(* What a move changes of the field parent.                                *)
LEMMA ReparentParent ==
  ASSUME TreeInv, NEW y \in live, NEW p \in live \cup {NULL}, Reparent(y, p)
  PROVE  /\ live' = live
         /\ p \notin Subtree(y)
         /\ parent'[y] = p
         /\ \A x \in live : x # y => parent'[x] = parent[x]
<1>1. live' = live /\ parent' = [parent EXCEPT ![y] = p] /\ p \notin Subtree(y)
  BY DEF TreeInv, TreeTypeOK, Reparent, SetParent, Relink
<1> QED
  BY <1>1 DEF TreeInv, TreeTypeOK

(* A context that is not moved along with y stays below what it was below. *)
LEMMA ReparentKeepsSubtrees ==
  ASSUME TreeInv, NEW y \in live, NEW p \in live \cup {NULL}, Reparent(y, p),
         NEW d \in live, NEW h \in live \ Subtree(y)
  PROVE  h \in Subtree(d)' <=> h \in Subtree(d)
<1>1. /\ live' = live
      /\ \A x \in live : x # y => parent'[x] = parent[x]
  BY ReparentParent
<1>2. ASSUME h \in Subtree(d)'
      PROVE  h \in Subtree(d)
  <2> DEFINE S == Subtree(d) \cup Subtree(y)
  <2>1. S \in SUBSET (live' \cup {d}) /\ d \in S
    BY <1>1, SubtreeLive, SubtreeClosed
  <2>2. \A x \in live' : parent'[x] \in S => x \in S
    BY <1>1, SubtreeClosed DEF ClosedBelow
  <2> HIDE DEF S
  <2>3. h \in S
    BY <1>2, <2>1, <2>2 DEF Subtree, ClosedBelow
  <2> QED
    BY <2>3 DEF S
<1>3. ASSUME h \in Subtree(d), NEW S \in SUBSET (live' \cup {d}), d \in S,
             \A x \in live' : parent'[x] \in S => x \in S
      PROVE  h \in S
  <2> DEFINE T == S \cup Subtree(y)
  <2>1. T \in SUBSET live /\ d \in T /\ ClosedBelow(T)
    BY <1>1, <1>3, SubtreeLive, SubtreeClosed DEF ClosedBelow
  <2> HIDE DEF T
  <2>2. h \in T
    BY <1>3, <2>1, SubtreeLeast
  <2> QED
    BY <2>2 DEF T
<1>4. h \in Subtree(d) => h \in Subtree(d)'
  BY <1>1, <1>3 DEF Subtree, ClosedBelow
<1> QED
  BY <1>2, <1>4

(* Nothing comes below d when the new parent is not at or below d.         *)
LEMMA ReparentAddsNothing ==
  ASSUME TreeInv, NEW y \in live, NEW p \in live \cup {NULL}, Reparent(y, p),
         NEW d \in live, p \notin Subtree(d)
  PROVE  Subtree(d)' \subseteq Subtree(d)
<1>1. /\ live' = live /\ parent'[y] = p
      /\ \A x \in live : x # y => parent'[x] = parent[x]
  BY ReparentParent
<1>2. Subtree(d) \in SUBSET (live' \cup {d}) /\ d \in Subtree(d)
  BY <1>1, SubtreeLive, SubtreeClosed
<1>3. \A x \in live' : parent'[x] \in Subtree(d) => x \in Subtree(d)
  BY <1>1, SubtreeClosed DEF ClosedBelow
<1>4. ASSUME NEW S, S \in SUBSET (live' \cup {d}), d \in S,
             \A x \in live' : parent'[x] \in S => x \in S
      PROVE  Subtree(d)' \subseteq S
  BY <1>4 DEF Subtree, ClosedBelow
<1> QED
  BY <1>2, <1>3, <1>4

(* Without the leaf x the others stay where they were, and nothing is      *)
(* below x.                                                                *)
LEMMA RemoveKeepsSubtrees ==
  ASSUME TreeInv, NEW x \in live, DeleteLeaf(x)
  PROVE  /\ \A d, h \in live \ {x} : h \in Subtree(d)' <=> h \in Subtree(d)
         /\ \A h \in live \ {x} : h \notin Subtree(x)'
<1>1. /\ live' = live \ {x}
      /\ \A z \in live : z # x => parent'[z] = parent[z]
      /\ \A z \in live : parent[z] # x
  BY NoChildren DEF TreeInv, TreeTypeOK, DeleteLeaf, RemoveNode
<1>2. ASSUME NEW d \in live \ {x}, NEW h \in live \ {x}, h \in Subtree(d)'
      PROVE  h \in Subtree(d)
  <2> DEFINE S == Subtree(d) \ {x}
  <2>1. S \in SUBSET (live' \cup {d}) /\ d \in S
    BY <1>1, SubtreeLive, SubtreeClosed
  <2>2. \A z \in live' : parent'[z] \in S => z \in S
    BY <1>1, SubtreeClosed DEF ClosedBelow
  <2> HIDE DEF S
  <2>3. h \in S
    BY <1>2, <2>1, <2>2 DEF Subtree, ClosedBelow
  <2> QED
    BY <2>3 DEF S
<1>3. ASSUME NEW d \in live \ {x}, NEW h \in live \ {x}, h \in Subtree(d),
             NEW S \in SUBSET (live' \cup {d}), d \in S,
             \A z \in live' : parent'[z] \in S => z \in S
      PROVE  h \in S
  <2>1. S \cup {x} \in SUBSET live /\ d \in S \cup {x} /\ ClosedBelow(S \cup {x})
    BY <1>1, <1>3 DEF ClosedBelow
  <2> QED
    BY <1>3, <2>1, SubtreeLeast
<1>4. \A d, h \in live \ {x} : h \in Subtree(d) => h \in Subtree(d)'
  BY <1>1, <1>3 DEF Subtree, ClosedBelow
<1>5. ASSUME NEW h \in live \ {x}
      PROVE  h \notin Subtree(x)'
  <2>1. {x} \in SUBSET (live' \cup {x}) /\ \A z \in live' : parent'[z] \in {x} => z \in {x}
    BY <1>1
  <2> QED
    BY <2>1, <1>5 DEF Subtree, ClosedBelow
<1> QED
  BY <1>2, <1>4, <1>5

(* A context without children has none after an operation that does not   *)
(* give it one.                                                            *)
LEMMA CreateKeepsLeaves ==
  ASSUME TreeInv, NEW c \in Context, NEW p \in live \cup {NULL}, Create(c, p),
         NEW x \in live, x # p, firstchild[x] = NULL
  PROVE  firstchild'[x] = NULL
  BY ContextAssumption DEF TreeInv, TreeTypeOK, Create, CreateNode, Relink

(* A context gets its first child only as the new parent. *)
LEMMA ReparentKeepsLeaves ==
  ASSUME TreeInv, NEW y \in live, NEW p \in live \cup {NULL}, Reparent(y, p),
         NEW x \in live, x # p, firstchild[x] = NULL
  PROVE  firstchild'[x] = NULL
<1>1. parent[y] # x
  BY NoChildren
<1> QED
  BY <1>1, ContextAssumption
  DEF TreeInv, TreeTypeOK, Reparent, SetParent, Relink, DelinkedFirst

(* A removal gives no context a child. *)
LEMMA RemoveKeepsLeaves ==
  ASSUME TreeInv, NEW y \in live, DeleteLeaf(y), NEW x \in live, firstchild[x] = NULL
  PROVE  firstchild'[x] = NULL
<1>1. parent[y] # x
  BY NoChildren
<1> QED
  BY <1>1 DEF TreeInv, TreeTypeOK, DeleteLeaf, RemoveNode, DelinkedFirst

(* A header that is not in the tree keeps what its allocator has stored in *)
(* nextchild, while the operations work on others.                         *)
LEMMA CreateKeepsChains ==
  ASSUME TreeInv, NEW c \in Context, NEW p \in live \cup {NULL}, Create(c, p),
         NEW x \in Context \ live, x # c
  PROVE  nextchild'[x] = nextchild[x]
  BY DEF TreeInv, TreeTypeOK, Create, CreateNode, Relink

(* Moving a context leaves the link fields of freed headers alone. *)
LEMMA ReparentKeepsChains ==
  ASSUME TreeInv, NEW y \in live, NEW p \in live \cup {NULL}, Reparent(y, p),
         NEW x \in Context \ live
  PROVE  nextchild'[x] = nextchild[x]
<1>1. prevchild[y] # x
  BY ContextAssumption DEF TreeInv, LinksOK, PrevOK
<1> QED
  BY <1>1 DEF TreeInv, TreeTypeOK, Reparent, SetParent, Relink, DelinkedNext

(* So does removing one, but for its own. *)
LEMMA RemoveKeepsChains ==
  ASSUME TreeInv, NEW c \in live, NEW chain \in Pointer, RemoveNode(c, chain)
  PROVE  /\ \A x \in Context \ live : nextchild'[x] = nextchild[x]
         /\ nextchild'[c] = chain
         /\ live' = live \ {c}
<1>1. \A x \in Context \ live : prevchild[c] # x
  BY ContextAssumption DEF TreeInv, LinksOK, PrevOK
<1>2. DelinkedNext(c) \in [Context -> Pointer]
  BY DEF TreeInv, TreeTypeOK, DelinkedNext
<1> QED
  BY <1>1, <1>2 DEF TreeInv, TreeTypeOK, RemoveNode, DelinkedNext

--------------------------------------------------------------------------------
(***************************************************************************)
(* The climb of MemoryContextTraverseNext from x, when x has no children.  *)
(* It is defined by its equation, so the proof first builds a function     *)
(* that satisfies it: from x the climb ends at the one context of Ends(x), *)
(* as a step up does not change that set.                                  *)
(***************************************************************************)
Climb(top) ==
  CHOOSE Upward : Upward = [x \in Below(top) |->
                              IF nextchild[x] # NULL THEN nextchild[x]
                              ELSE IF parent[x] = top THEN NULL
                              ELSE Upward[parent[x]]]

(* The climb satisfies its equation. *)
LEMMA ClimbEquation ==
  ASSUME NEW top \in live, NEW x \in Below(top)
  PROVE  Climb(top)[x] = IF nextchild[x] # NULL THEN nextchild[x]
                         ELSE IF parent[x] = top THEN NULL ELSE Climb(top)[parent[x]]
<1> DEFINE
      D == Below(top)
      Stops(y) == nextchild[y] # NULL \/ parent[y] = top
      Closed(S) == \A z \in S : Stops(z) \/ parent[z] \in S
      Ends(y) == {z \in D : /\ Stops(z)
                            /\ \A S \in SUBSET D : y \in S /\ Closed(S) => z \in S}
      Value(z) == IF nextchild[z] # NULL THEN nextchild[z] ELSE NULL
      g == [y \in D |-> Value(CHOOSE z : z \in Ends(y))]
      Eqn(f) == f = [y \in D |-> IF nextchild[y] # NULL THEN nextchild[y]
                                 ELSE IF parent[y] = top THEN NULL ELSE f[parent[y]]]
<1>1. \A y \in D : ~Stops(y) => parent[y] \in D
  BY ParentInside DEF Below
<1>2. ASSUME NEW y \in D, Stops(y)
      PROVE  Ends(y) = {y}
  <2>1. {y} \in SUBSET D /\ Closed({y})
    BY <1>2
  <2> QED
    BY <2>1, <1>2
<1>3. ASSUME NEW y \in D, ~Stops(y)
      PROVE  Ends(y) = Ends(parent[y])
  <2>1. ASSUME NEW S \in SUBSET D, parent[y] \in S, Closed(S)
        PROVE  S \cup {y} \in SUBSET D /\ y \in S \cup {y} /\ Closed(S \cup {y})
    BY <2>1
  <2>2. ASSUME NEW S \in SUBSET D, y \in S, Closed(S)
        PROVE  parent[y] \in S
    BY <1>3, <2>2
  <2>3. ASSUME NEW z \in Ends(y)
        PROVE  z \in Ends(parent[y])
    BY <1>3, <2>1, <2>3
  <2>4. ASSUME NEW z \in Ends(parent[y])
        PROVE  z \in Ends(y)
    BY <1>3, <2>2, <2>4
  <2> QED
    BY <2>3, <2>4
<1> HIDE DEF Ends
<1>4. ASSUME NEW y \in D
      PROVE  g[y] = IF nextchild[y] # NULL THEN nextchild[y]
                    ELSE IF parent[y] = top THEN NULL ELSE g[parent[y]]
  <2>1. CASE Stops(y)
    BY <1>2, <2>1
  <2>2. CASE ~Stops(y)
    BY <1>1, <1>3, <2>2
  <2> QED
    BY <2>1, <2>2
<1> HIDE DEF Value
<1>5. Eqn(g)
  <2>1. g = [y \in D |-> g[y]]
    OBVIOUS
  <2> HIDE DEF g, D
  <2> QED
    BY <1>4, <2>1
<1> HIDE DEF g
<1>6. Eqn(Climb(top))
  BY <1>5 DEF Climb
<1> QED
  BY <1>6

(* One call, in terms of the climb. *)
LEMMA TraverseNextIs ==
  ASSUME NEW top, NEW curr
  PROVE  TraverseNext(curr, top) =
           IF firstchild[curr] # NULL THEN firstchild[curr] ELSE Climb(top)[curr]
  BY DEF TraverseNext, Climb

(* MemoryContextTraverseNext ends, and leads to a context below the one    *)
(* whose children are being reset, or to none.                             *)
LEMMA TraverseNextBelow ==
  ASSUME TreeInv, NEW top \in live, NEW curr \in Below(top)
  PROVE  TraverseNext(curr, top) \in Below(top) \cup {NULL}
<1> DEFINE D == Below(top)
           Up == Climb(top)
<1>1. D \in SUBSET live
  BY SubtreeLive DEF Below
<1>2. \A x \in D : parent[x] # top => parent[x] \in D
  BY ParentInside DEF Below
<1>3. \A x \in D : Up[x] = IF nextchild[x] # NULL THEN nextchild[x]
                           ELSE IF parent[x] = top THEN NULL ELSE Up[parent[x]]
  BY ClimbEquation
<1> HIDE DEF Up
<1>4. \A x \in live : parent[x] \in Subtree(top) => x \in D
  BY ChildBelow
<1>5. ASSUME NEW x \in D, nextchild[x] # NULL
      PROVE  nextchild[x] \in D
  <2>1. nextchild[x] \in live /\ parent[nextchild[x]] = parent[x]
    BY <1>1, <1>5 DEF TreeInv, LinksOK, NextOK
  <2> QED
    BY <1>4, <2>1, ParentInside
<1>6. \A x \in D : Up[x] \in D \cup {NULL}
  <2> DEFINE B == {x \in D : Up[x] \notin D \cup {NULL}}
  <2>1. \A x \in B : parent[x] \in B
    BY <1>2, <1>3, <1>5
  <2>2. B \in SUBSET live
    BY <1>1
  <2> QED
    BY <2>1, <2>2 DEF TreeInv, ParentsAcyclic
<1>7. firstchild[curr] # NULL => firstchild[curr] \in D
  <2>1. curr \in live /\ curr \in Subtree(top)
    BY SubtreeLive DEF Below
  <2>2. firstchild[curr] # NULL => firstchild[curr] \in live /\ parent[firstchild[curr]] = curr
    BY <2>1 DEF TreeInv, LinksOK, DownOK
  <2> QED
    BY <1>4, <2>1, <2>2
<1> QED
  BY <1>6, <1>7, TraverseNextIs DEF Up

================================================================================
