-------------------------- MODULE ContextMemoryProofs --------------------------
(***************************************************************************)
(* Proofs about ContextMemory, for any contexts, blocks and sizes: the     *)
(* memory of the contexts leaves their lifecycle as it is, a pointer stays *)
(* with the context that it was asked for from, and what the walks over a  *)
(* subtree add up is what malloc gave to the contexts in it.               *)
(***************************************************************************)
EXTENDS ContextMemory, ContextLifecycleProofs, AllocSizesProofs

(* Clients are only current in contexts that they allocate in.             *)
CurrentKnown == current \in Subject \cup {Top}

MemoryTypes ==
  /\ aset \in [Block -> Pointer]
  /\ askedOf \in [Pointers -> Pointer]
  /\ external \subseteq Block

MemoryInv == MemoryTypes /\ PointersSound /\ NothingLost

--------------------------------------------------------------------------------
(* For the lifecycle, pfree and repalloc are operations of the client that *)
(* change nothing, as switching to the current context is.                 *)
LEMMA NothingIsASwitch ==
  ASSUME LifecycleInv, CurrentKnown, ClientRuns, LifecycleUnchanged
  PROVE  Next
<1>1. current \in live \cap (Subject \cup {Top})
  BY DEF LifecycleInv, StackInv, StackOK, CurrentKnown
<1>2. MaySwitch(current)
  <2> SUFFICES ASSUME NEW f \in Clearing, current \in Subtree(f.ctx)
               PROVE  f.op = "DeleteChildren" /\ current = f.ctx
    BY DEF MaySwitch
  <2>1. f \in Calls /\ f.op \in {"Delete", "DeleteNext", "DeleteChildren"}
    BY DEF Clearing
  <2>2. current \notin Doomed(f)
    BY <2>1, CallOnStack DEF Fixed
  <2> QED
    BY <2>1, <2>2 DEF Doomed, Below
<1>3. SwitchTo(current)
  BY <1>2 DEF SwitchTo, LifecycleUnchanged
<1> QED
  BY <1>1, <1>3 DEF Next, ClientOp, QuietClientOp

(* Each step is a step of the lifecycle.                                   *)
LEMMA MemoryStepIsLifecycleStep ==
  ASSUME LifecycleInv, CurrentKnown, [MemoryNext]_allVars
  PROVE  [Next]_vars
<1>1. ASSUME NEW p, pfree(p) \/ repalloc(p)
      PROVE  Next
  BY <1>1, NothingIsASwitch DEF pfree, repalloc
<1>2. ASSUME NEW c \in live \cap Subject, AllocIn(c) \/ AllocFails(c)
      PROVE  Next
  BY <1>2 DEF AllocIn, AllocFails, Next, ClientOp
<1>3. ASSUME NEW p \in Parents, NEW class \in Class,
             CreateFromFreelist(p, class) \/ CreateFromMalloc(p, class)
      PROVE  Next
  BY <1>3 DEF CreateFromFreelist, CreateFromMalloc, Next, ClientOp
<1>4. ASSUME ResetMemory \/ DeleteMemory
      PROVE  Next
  BY <1>4 DEF ResetMemory, DeleteMemory, Next, LibraryStep
<1>5. ASSUME QuietClientOp \/ QuietStep
      PROVE  Next
  BY <1>5 DEF Next, ClientOp, LibraryStep
<1>6. CASE UNCHANGED allVars
  BY <1>6 DEF allVars
<1>7. ASSUME MemoryNext
      PROVE  Next
  <2>1. CASE \E c \in live \cap Subject : AllocIn(c) \/ AllocFails(c)
    BY <1>2, <2>1
  <2>2. CASE \E p \in InHand : pfree(p) \/ repalloc(p)
    BY <1>1, <2>2
  <2>3. CASE \E p \in Parents, class \in Class :
               CreateFromFreelist(p, class) \/ CreateFromMalloc(p, class)
    BY <1>3, <2>3
  <2>4. CASE ResetMemory \/ DeleteMemory \/ QuietClientOp \/ QuietStep
    BY <1>4, <1>5, <2>4
  <2> QED
    BY <1>7, <2>1, <2>2, <2>3, <2>4 DEF MemoryNext
<1> QED
  BY <1>6, <1>7

(* Every step. *)
LEMMA StepKeepsCurrentKnown ==
  ASSUME CurrentKnown, [Next]_vars
  PROVE  CurrentKnown'
<1>1. ASSUME NEW c \in live \cap (Subject \cup {Top}), SwitchTo(c)
      PROVE  CurrentKnown'
  BY <1>1 DEF SwitchTo, CurrentKnown
<1>2. CASE current' = current
  BY <1>2 DEF CurrentKnown
<1> QED
  BY <1>1, <1>2
  DEF Next, ClientOp, QuietClientOp, LibraryStep, QuietStep, OnlyTheCalls, vars, Recycle,
      CreateFresh, Alloc, RegisterResetCallback, UnregisterResetCallback, MoveContext,
      StartReset, StartResetOnly, StartResetChildren, StartDelete, StartDeleteChildren,
      RunCallback, CallbackReturns, ResetChildrenFirst, ResetSelf, ResetReturn,
      ResetDescendant, ResetNextDescendant, DeleteFirstChild, DescendToLeaf,
      DeleteLeafContext, DeleteContinues, FinishResetOnly, FinishDeleteOnly

(* The lifecycle of the contexts is the one of ContextLifecycle, so that   *)
(* its theorems hold of it.                                                *)
THEOREM MemoryImplementsLifecycle ==
  ASSUME "dying" \in Discipline
  PROVE  MemorySpec => Spec /\ []LifecycleInv
<1> DEFINE Inv == LifecycleInv /\ CurrentKnown
<1>1. MemoryInit => Init /\ Inv
  BY LifecycleInvInitially DEF MemoryInit, Init, CurrentKnown
<1>2. Inv /\ [MemoryNext]_allVars => [Next]_vars /\ Inv'
  BY MemoryStepIsLifecycleStep, LifecycleInvStep, StepKeepsCurrentKnown
<1> QED
  BY <1>1, <1>2, PTL DEF MemorySpec, Spec

--------------------------------------------------------------------------------
(* What the steps do to the pointers of clients and to the blocks.         *)
QuietlyReset == \A x \in live : isReset'[x] => isReset[x]

(* Steps of the contexts that touch no memory. *)
LEMMA QuietKeepsMemory ==
  ASSUME MemoryInv, UNCHANGED memoryVars, live \subseteq live', QuietlyReset
  PROVE  MemoryInv'
<1>1. UNCHANGED <<aset, external, askedOf>>
  BY DEF memoryVars
<1> QED
  BY <1>1
  DEF MemoryInv, MemoryTypes, PointersSound, NothingLost, InHand, GetMemoryChunkContext,
      QuietlyReset

(* The set of c hands out a chunk in q, and other pointers may be dropped. *)
LEMMA ObtainKeepsMemory ==
  ASSUME LifecycleInv, MemoryInv, NEW c \in live, NEW q \in Pointers, Obtain(c, q),
         live' = live, ~isReset'[c], QuietlyReset,
         askedOf' \in [Pointers -> Pointer], askedOf'[q] = c,
         \A x \in Pointers \ {q} :
           \/ askedOf'[x] = askedOf[x]
           \/ askedOf'[x] = NULL /\ x \notin external
  PROVE  MemoryInv'
<1>1. c \in Context /\ c # NULL /\ c \in Pointer
  BY ContextAssumption DEF LifecycleInv, TreeInv, TreeTypeOK, Pointer
<1>2. CASE FromOwnBlock(c, q)
  <2>1. /\ q \notin InHand \cup external /\ GetMemoryChunkContext(q) = c
        /\ aset' = aset /\ external' = external
    BY <1>2 DEF FromOwnBlock
  <2>2. MemoryTypes'
    BY <2>1 DEF MemoryInv, MemoryTypes
  <2>3. ASSUME NEW x \in InHand'
        PROVE  x = q \/ (x \in InHand /\ askedOf'[x] = askedOf[x])
    BY DEF InHand
  <2>4. PointersSound'
    <3>1. \A x : GetMemoryChunkContext(x)' = GetMemoryChunkContext(x)
      BY <2>1 DEF GetMemoryChunkContext
    <3> QED
      BY <1>1, <2>1, <2>3, <3>1 DEF MemoryInv, PointersSound, QuietlyReset
  <2>5. NothingLost'
    BY <1>1, <2>1 DEF MemoryInv, MemoryTypes, NothingLost, InHand, QuietlyReset
  <2> QED
    BY <2>2, <2>4, <2>5 DEF MemoryInv
<1>3. ASSUME NEW size, NEW large, FromMalloc(c, q, size, large)
      PROVE  MemoryInv'
  <2>1. /\ q \in Block /\ aset[q] = NULL /\ q \notin Context
        /\ aset' = [aset EXCEPT ![q] = c]
        /\ external' \subseteq external \cup {q}
    BY <1>3, MemoryAssumption DEF FromMalloc
  <2>2. MemoryTypes'
    BY <1>1, <2>1 DEF MemoryInv, MemoryTypes
  <2>3. \A b \in Block : aset'[b] = IF b = q THEN c ELSE aset[b]
    BY <2>1 DEF MemoryInv, MemoryTypes
  <2>4. ASSUME NEW x \in InHand'
        PROVE  x \in Pointers /\ (x = q \/ (x \in InHand /\ askedOf'[x] = askedOf[x]))
    BY DEF InHand
  <2>5. \A x \in Pointers : GetMemoryChunkContext(x)' = IF x = q THEN c ELSE GetMemoryChunkContext(x)
    BY <2>1, <2>3 DEF GetMemoryChunkContext, Pointers
  <2>6. PointersSound'
    BY <1>1, <2>4, <2>5 DEF MemoryInv, PointersSound, QuietlyReset
  <2>7. \A b \in Block : aset'[b] # NULL => aset'[b] \in live' /\ ~isReset'[aset'[b]]
    BY <2>3 DEF MemoryInv, NothingLost, QuietlyReset
  <2>8. external' \subseteq InHand'
    BY <1>1, <2>1 DEF MemoryInv, MemoryTypes, NothingLost, InHand
  <2> QED
    BY <2>2, <2>6, <2>7, <2>8 DEF MemoryInv, NothingLost
<1> QED
  BY <1>2, <1>3 DEF Obtain

(* An allocation.                                                          *)
LEMMA AllocKeepsMemory ==
  ASSUME LifecycleInv, MemoryInv, NEW c \in live, AllocIn(c) \/ AllocFails(c)
  PROVE  MemoryInv'
<1>1. /\ live' = live /\ isReset' = [isReset EXCEPT ![c] = FALSE]
      /\ c \in Context /\ isReset \in [Context -> BOOLEAN]
  BY DEF AllocIn, AllocFails, Alloc, treeVars, LifecycleInv, TreeInv, TreeTypeOK, ContentTypes
<1>2. ~isReset'[c] /\ QuietlyReset
  BY <1>1 DEF QuietlyReset, LifecycleInv, TreeInv, TreeTypeOK
<1>3. CASE AllocFails(c)
  BY <1>1, <1>2, <1>3, QuietKeepsMemory DEF AllocFails
<1>4. CASE AllocIn(c)
  <2>1. PICK q \in Pointers : Obtain(c, q) /\ askedOf' = [askedOf EXCEPT ![q] = c]
    BY <1>4 DEF AllocIn
  <2>2. /\ askedOf' \in [Pointers -> Pointer] /\ askedOf'[q] = c
        /\ \A x \in Pointers \ {q} : askedOf'[x] = askedOf[x]
    BY <1>1, <2>1 DEF MemoryInv, MemoryTypes, Pointer
  <2> QED
    BY <1>1, <1>2, <2>1, <2>2, ObtainKeepsMemory
<1> QED
  BY <1>3, <1>4

(* What is known of a pointer in a client's hands.                         *)
LEMMA PointerInHand ==
  ASSUME LifecycleInv, MemoryInv, NEW p \in InHand
  PROVE  /\ p \in Pointers /\ askedOf[p] = GetMemoryChunkContext(p)
         /\ GetMemoryChunkContext(p) \in live
         /\ ~isReset[GetMemoryChunkContext(p)]
         /\ GetMemoryChunkContext(p) \in Context /\ GetMemoryChunkContext(p) # NULL
  BY ContextAssumption
  DEF MemoryInv, PointersSound, InHand, LifecycleInv, TreeInv, TreeTypeOK

(* pfree: the chunk goes, and its block if it has one of its own. *)
LEMMA FreeKeepsMemory ==
  ASSUME LifecycleInv, MemoryInv, NEW p \in InHand, pfree(p)
  PROVE  MemoryInv'
<1>1. /\ live' = live /\ isReset' = isReset
      /\ askedOf' = [askedOf EXCEPT ![p] = NULL]
      /\ NULL \in Pointer /\ p \in Pointers
  BY DEF pfree, LifecycleUnchanged, treeVars, contentVars, Pointer, InHand
<1>2. \/ /\ p \in external /\ external' = external \ {p}
         /\ aset' = [aset EXCEPT ![p] = NULL]
      \/ p \notin external /\ aset' = aset /\ external' = external
  BY DEF pfree, FreeBlock, FreeChunk
<1>3. MemoryTypes'
  BY <1>1, <1>2 DEF MemoryInv, MemoryTypes
<1>4. ASSUME NEW x \in InHand'
      PROVE  x \in InHand /\ x # p /\ askedOf'[x] = askedOf[x]
  BY <1>1 DEF MemoryInv, MemoryTypes, InHand
<1>5. \A x \in Pointers : x # p => GetMemoryChunkContext(x)' = GetMemoryChunkContext(x)
  BY <1>2 DEF MemoryInv, MemoryTypes, GetMemoryChunkContext, Pointers
<1>6. PointersSound'
  <2> SUFFICES ASSUME NEW x \in InHand'
               PROVE  /\ GetMemoryChunkContext(x)' = askedOf'[x]
                      /\ GetMemoryChunkContext(x)' \in live'
                      /\ ~isReset'[GetMemoryChunkContext(x)']
    BY DEF PointersSound
  <2> QED
    BY <1>1, <1>4, <1>5, PointerInHand
<1>7. NothingLost'
  BY <1>1, <1>2 DEF MemoryInv, MemoryTypes, NothingLost, InHand
<1> QED
  BY <1>3, <1>6, <1>7 DEF MemoryInv

(* repalloc: an external chunk goes where realloc puts it, any other is    *)
(* replaced by one of the same set.                                        *)
LEMMA ReallocKeepsMemory ==
  ASSUME LifecycleInv, MemoryInv, NEW p \in InHand, repalloc(p)
  PROVE  MemoryInv'
<1> DEFINE c == GetMemoryChunkContext(p)
<1>1. /\ live' = live /\ isReset' = isReset /\ NULL \in Pointer
  BY DEF repalloc, LifecycleUnchanged, treeVars, contentVars, Pointer
<1>2. /\ p \in Pointers /\ askedOf[p] = c /\ c \in live /\ ~isReset[c]
      /\ c \in Context /\ c # NULL /\ c \in Pointer
  BY PointerInHand DEF Pointer
<1>3. ASSUME NEW q \in Pointers, GrowChunk(p, q)
      PROVE  MemoryInv'
  <2>1. /\ p \notin external /\ Obtain(c, q)
        /\ askedOf' = [askedOf EXCEPT ![p] = NULL, ![q] = askedOf[p]]
    BY <1>3 DEF GrowChunk, OwnSet
  <2> HIDE DEF c
  <2>2. /\ askedOf' \in [Pointers -> Pointer] /\ askedOf'[q] = c
        /\ \A x \in Pointers \ {q} : askedOf'[x] = IF x = p THEN NULL ELSE askedOf[x]
    BY <1>1, <1>2, <2>1 DEF MemoryInv, MemoryTypes
  <2>3. \A x \in Pointers \ {q} :
          \/ askedOf'[x] = askedOf[x]
          \/ askedOf'[x] = NULL /\ x \notin external
    BY <2>1, <2>2
  <2> QED
    BY <1>1, <1>2, <2>1, <2>2, <2>3, ObtainKeepsMemory DEF QuietlyReset
<1>4. ASSUME NEW b \in Block, NEW size, ReallocBlock(p, b, size)
      PROVE  MemoryInv'
  <2>1. /\ p \in external /\ p \in Block /\ p \notin Context /\ aset[p] = c
        /\ b \notin Context /\ b \in Pointers
        /\ b = p \/ aset[b] = NULL
        /\ aset' = [aset EXCEPT ![p] = NULL, ![b] = aset[p]]
        /\ external' = (external \ {p}) \cup {b}
        /\ askedOf' = [askedOf EXCEPT ![p] = NULL, ![b] = askedOf[p]]
    BY <1>2, <1>4, MemoryAssumption
    DEF ReallocBlock, MemoryInv, MemoryTypes, GetMemoryChunkContext, Pointers
  <2> HIDE DEF c
  <2>2. \A x \in Block : aset'[x] = IF x = b THEN c ELSE IF x = p THEN NULL ELSE aset[x]
    BY <2>1 DEF MemoryInv, MemoryTypes
  <2>3. \A x \in Pointers : askedOf'[x] = IF x = b THEN c ELSE IF x = p THEN NULL ELSE askedOf[x]
    BY <1>2, <2>1 DEF MemoryInv, MemoryTypes
  <2>4. MemoryTypes'
    BY <1>1, <1>2, <2>1 DEF MemoryInv, MemoryTypes
  <2>5. ASSUME NEW x \in InHand'
        PROVE  x \in Pointers /\ (x = b \/ (x # b /\ x # p /\ x \in InHand))
    BY <2>3 DEF InHand
  <2>6. GetMemoryChunkContext(b)' = c
    BY <2>1, <2>2 DEF GetMemoryChunkContext
  <2>7. \A x \in Pointers : x # b /\ x # p => GetMemoryChunkContext(x)' = GetMemoryChunkContext(x)
    BY <2>2 DEF GetMemoryChunkContext, Pointers
  <2>8. PointersSound'
    <3> SUFFICES ASSUME NEW x \in InHand'
                 PROVE  /\ GetMemoryChunkContext(x)' = askedOf'[x]
                        /\ GetMemoryChunkContext(x)' \in live'
                        /\ ~isReset'[GetMemoryChunkContext(x)']
      BY DEF PointersSound
    <3>1. CASE x = b
      BY <1>1, <1>2, <2>1, <2>3, <2>6, <3>1
    <3>2. CASE x # b /\ x # p /\ x \in InHand
      BY <1>1, <2>3, <2>7, <3>2, PointerInHand
    <3> QED
      BY <2>5, <3>1, <3>2
  <2>9. NothingLost'
    <3>1. external' \subseteq InHand'
      BY <1>2, <2>1, <2>3 DEF MemoryInv, MemoryTypes, NothingLost, InHand, Pointers
    <3>2. \A x \in Block : aset'[x] # NULL => aset'[x] \in live' /\ ~isReset'[aset'[x]]
      BY <1>1, <1>2, <2>2 DEF MemoryInv, NothingLost
    <3> QED
      BY <3>1, <3>2 DEF NothingLost
  <2> QED
    BY <2>4, <2>8, <2>9 DEF MemoryInv
<1> QED
  BY <1>3, <1>4 DEF repalloc

(* A set gives its blocks back: those that it frees are all that it has,   *)
(* also when AllocSetDelete sees that there is nothing to reset.           *)
LEMMA ReleaseKeepsMemory ==
  ASSUME LifecycleInv, MemoryInv, NEW c \in live, NEW S \in SUBSET Block,
         Release(S, c), BlocksOf(c) = S,
         live \ {c} \subseteq live',
         \A x \in live \ {c} : isReset'[x] = isReset[x]
  PROVE  MemoryInv'
<1>1. /\ aset' = [b \in Block |-> IF b \in S THEN NULL ELSE aset[b]]
      /\ external' = external \ S
      /\ askedOf' = [p \in Pointers |-> IF askedOf[p] = c THEN NULL ELSE askedOf[p]]
      /\ NULL \in Pointer
  BY DEF Release, Pointer
<1>2. c \in Context /\ c # NULL
  BY ContextAssumption DEF LifecycleInv, TreeInv, TreeTypeOK
<1>3. MemoryTypes'
  BY <1>1 DEF MemoryInv, MemoryTypes
<1>4. ASSUME NEW x \in InHand'
      PROVE  x \in InHand /\ askedOf'[x] = askedOf[x] /\ askedOf[x] # c
  BY <1>1 DEF InHand
<1>5. \A b \in Block : aset[b] # c => aset'[b] = aset[b]
  BY <1>1 DEF BlocksOf
<1>6. PointersSound'
  <2> SUFFICES ASSUME NEW x \in InHand'
               PROVE  /\ GetMemoryChunkContext(x)' = askedOf'[x]
                      /\ GetMemoryChunkContext(x)' \in live'
                      /\ ~isReset'[GetMemoryChunkContext(x)']
    BY DEF PointersSound
  <2>1. /\ x \in Pointers /\ askedOf[x] = GetMemoryChunkContext(x)
        /\ GetMemoryChunkContext(x) \in live \ {c} /\ ~isReset[GetMemoryChunkContext(x)]
    BY <1>4, PointerInHand
  <2>2. GetMemoryChunkContext(x)' = GetMemoryChunkContext(x)
    BY <1>5, <2>1 DEF GetMemoryChunkContext, Pointers
  <2> QED
    BY <1>4, <2>1, <2>2
<1>7. external' \subseteq InHand'
  <2> SUFFICES ASSUME NEW b \in external'
               PROVE  b \in InHand'
    OBVIOUS
  <2>1. b \in external /\ b \in Block /\ b \notin S /\ b \in InHand /\ b \notin Context
    BY <1>1, MemoryAssumption DEF MemoryInv, MemoryTypes, NothingLost
  <2>2. askedOf[b] = aset[b] /\ askedOf[b] # c
    BY <2>1, PointerInHand DEF GetMemoryChunkContext, BlocksOf
  <2> QED
    BY <1>1, <2>1, <2>2 DEF InHand
<1>8. \A b \in Block : aset'[b] # NULL => aset'[b] \in live' /\ ~isReset'[aset'[b]]
  BY <1>1 DEF MemoryInv, NothingLost, BlocksOf
<1> QED
  BY <1>3, <1>6, <1>7, <1>8 DEF MemoryInv, NothingLost

(* AllocSetReset frees all blocks but the keeper. *)
LEMMA ResetKeepsMemory ==
  ASSUME LifecycleInv, MemoryInv, ResetMemory
  PROVE  MemoryInv'
<1> DEFINE c == Head(stack).ctx
<1>1. c \in live
  BY CallingFacts DEF ResetMemory, FinishResetOnly, LifecycleInv
<1>2. /\ Release(BlocksOf(c), c) /\ live' = live
      /\ isReset' = [isReset EXCEPT ![c] = TRUE] /\ isReset \in [Context -> BOOLEAN]
  BY DEF ResetMemory, FinishResetOnly, treeVars, LifecycleInv, ContentTypes
<1> HIDE DEF c
<1>3. \A x \in live \ {c} : isReset'[x] = isReset[x]
  BY <1>2 DEF LifecycleInv, TreeInv, TreeTypeOK
<1>4. BlocksOf(c) \in SUBSET Block
  BY DEF BlocksOf
<1> QED
  BY <1>1, <1>2, <1>3, <1>4, ReleaseKeepsMemory

(* AllocSetDelete frees them, or keeps the header with its keeper. *)
LEMMA DeleteKeepsMemory ==
  ASSUME LifecycleInv, MemoryInv, DeleteMemory
  PROVE  MemoryInv'
<1> DEFINE c == Head(stack).ctx
<1>1. FinishDeleteOnly /\ Release(FreedByDelete(c), c)
  BY DEF DeleteMemory
<1>2. c \in live /\ DeleteLeaf(c) /\ AllocSetDelete(c)
  BY <1>1, FinishDeleteIsDeleteLeaf
<1> HIDE DEF c
<1>3. /\ live' = live \ {c}
      /\ isReset' = [isReset EXCEPT ![c] = TRUE] /\ isReset \in [Context -> BOOLEAN]
  BY <1>2 DEF DeleteLeaf, RemoveNode, AllocSetDelete, LifecycleInv, ContentTypes
<1>4. \A x \in live \ {c} : isReset'[x] = isReset[x]
  BY <1>3 DEF LifecycleInv, TreeInv, TreeTypeOK
<1>5. c # NULL
  BY <1>2, ContextAssumption DEF LifecycleInv, TreeInv, TreeTypeOK
<1>6. BlocksOf(c) = FreedByDelete(c) /\ BlocksOf(c) \in SUBSET Block
  BY <1>5 DEF FreedByDelete, BlocksOf, MemoryInv, NothingLost
<1> QED
  BY <1>1, <1>2, <1>3, <1>4, <1>6, ReleaseKeepsMemory

(* A new context has no blocks, whatever its header held before.           *)
LEMMA CreationKeepsMemory ==
  ASSUME LifecycleInv, MemoryInv, NEW p \in Parents, NEW class \in Class,
         CreateFromFreelist(p, class) \/ CreateFromMalloc(p, class)
  PROVE  MemoryInv'
<1>1. Recycle(p, class) \/ CreateFresh(p, class)
  BY DEF CreateFromFreelist, CreateFromMalloc
<1>2. PICK c \in Context : Create(c, p) /\ isReset' = [isReset EXCEPT ![c] = TRUE]
  BY <1>1, CreationIsCreate
<1>3. c \notin live /\ live' = live \cup {c}
  BY <1>2 DEF Create, CreateNode
<1>4. QuietlyReset
  BY <1>2, <1>3 DEF QuietlyReset, LifecycleInv, TreeInv, TreeTypeOK, ContentTypes
<1>5. UNCHANGED <<aset, bytes, external, askedOf>>
  BY DEF CreateFromFreelist, CreateFromMalloc
<1> QED
  BY <1>3, <1>4, <1>5
  DEF MemoryInv, MemoryTypes, PointersSound, NothingLost, InHand, GetMemoryChunkContext,
      QuietlyReset

(* The operations and steps that leave memory alone. *)
LEMMA QuietOpKeepsMemory ==
  ASSUME LifecycleInv, MemoryInv, QuietClientOp \/ QuietStep, UNCHANGED memoryVars
  PROVE  MemoryInv'
<1>1. ASSUME NEW c \in live, NEW cb \in Callback, RegisterResetCallback(c, cb)
      PROVE  live' = live /\ QuietlyReset
  BY <1>1
  DEF RegisterResetCallback, treeVars, QuietlyReset, LifecycleInv, ContentTypes, TreeInv, TreeTypeOK
<1>2. ASSUME live' = live, isReset' = isReset
      PROVE  live' = live /\ QuietlyReset
  BY <1>2 DEF QuietlyReset
<1>3. ASSUME QuietClientOp
      PROVE  live' = live /\ QuietlyReset
  BY <1>1, <1>2, <1>3
  DEF QuietClientOp, OnlyTheCalls, treeVars, contentVars, UnregisterResetCallback,
      MoveContext, SwitchTo, StartReset, StartResetOnly, StartResetChildren, StartDelete,
      StartDeleteChildren
<1>4. ASSUME QuietStep
      PROVE  live' = live /\ QuietlyReset
  BY <1>2, <1>4
  DEF QuietStep, OnlyTheCalls, treeVars, contentVars, RunCallback, CallbackReturns,
      ResetChildrenFirst, ResetSelf, ResetReturn, ResetDescendant, ResetNextDescendant,
      DeleteFirstChild, DescendToLeaf, DeleteLeafContext, DeleteContinues
<1> QED
  BY <1>3, <1>4, QuietKeepsMemory

(* MemoryContextInit. *)
LEMMA MemoryInvInitially == MemoryInit => MemoryInv
<1> SUFFICES ASSUME MemoryInit
             PROVE  MemoryInv
  OBVIOUS
<1>1. /\ aset = [b \in Block |-> NULL] /\ external = {}
      /\ askedOf = [p \in Pointers |-> NULL] /\ NULL \in Pointer
  BY DEF MemoryInit, Pointer
<1> QED
  BY <1>1 DEF MemoryInv, MemoryTypes, PointersSound, NothingLost, InHand

(* Every step. *)
LEMMA MemoryInvStep ==
  ASSUME LifecycleInv, MemoryInv, [MemoryNext]_allVars
  PROVE  MemoryInv'
<1>1. CASE UNCHANGED allVars
  BY <1>1, QuietKeepsMemory DEF allVars, vars, treeVars, contentVars, QuietlyReset
<1> QED
  BY <1>1, AllocKeepsMemory, FreeKeepsMemory, ReallocKeepsMemory, CreationKeepsMemory,
     ResetKeepsMemory, DeleteKeepsMemory, QuietOpKeepsMemory
  DEF MemoryNext

--------------------------------------------------------------------------------
(* The invariant holds in every state. *)
LEMMA MemoryInvariant ==
  ASSUME "dying" \in Discipline
  PROVE  MemorySpec => []MemoryInv
<1>1. MemoryInit => MemoryInv
  BY MemoryInvInitially
<1>2. LifecycleInv /\ MemoryInv /\ [MemoryNext]_allVars => MemoryInv'
  BY MemoryInvStep
<1> QED
  BY <1>1, <1>2, MemoryImplementsLifecycle, PTL DEF MemorySpec

(* A pointer in a client's hands leads, through its chunk and its block,   *)
(* to the context it was asked for from, which is live and will not skip   *)
(* its next reset, after any reallocs (repalloc and pfree take no context).*)
THEOREM PointersStaySound ==
  ASSUME "dying" \in Discipline
  PROVE  MemorySpec => []PointersSound
<1>1. MemoryInv => PointersSound
  BY DEF MemoryInv
<1> QED
  BY <1>1, MemoryInvariant, PTL

(* Every block from malloc belongs to a live context that will give it     *)
(* back, so that AllocSetDelete may skip the reset of a context that says  *)
(* it is reset, and discard headers from a full freelist alone.            *)
THEOREM NoBlockLost ==
  ASSUME "dying" \in Discipline
  PROVE  MemorySpec => []NothingLost
<1>1. MemoryInv => NothingLost
  BY DEF MemoryInv
<1> QED
  BY <1>1, MemoryInvariant, PTL

--------------------------------------------------------------------------------
(* Those whose parent is p. *)
Children(p) == {x \in live : parent[x] = p}

(* The children of p are a list, from its firstchild by nextchild. *)
LEMMA ChildrenAreListed ==
  ASSUME TreeInv, NEW p \in live
  PROVE  ListOf(Children(p), firstchild[p], nextchild, NULL)
<1> DEFINE F == Children(p)
           h == firstchild[p]
<1>1. NULL \notin F /\ p # NULL
  BY ContextAssumption DEF TreeInv, TreeTypeOK, Children
<1>2. h # NULL => h \in F /\ prevchild[h] = NULL
  BY DEF TreeInv, LinksOK, DownOK, Children
<1>3. ASSUME NEW x \in F, nextchild[x] # NULL
      PROVE  nextchild[x] \in F /\ prevchild[nextchild[x]] = x
  BY <1>3 DEF TreeInv, LinksOK, NextOK, Children
<1>4. ASSUME NEW T \in SUBSET F, Follow(T, h, nextchild, NULL)
      PROVE  T = F
  <2> DEFINE B == F \ T
  <2> SUFFICES ASSUME B # {} PROVE FALSE
    OBVIOUS
  <2>1. B \in SUBSET live
    BY DEF Children
  <2>2. PICK x \in B : prevchild[x] \notin B
    BY <2>1 DEF TreeInv, SiblingsAcyclic
  <2>3. x \in live /\ parent[x] = p
    BY <2>2 DEF Children
  <2>4. CASE prevchild[x] = NULL
    <3>1. h = x
      BY <1>1, <2>3, <2>4 DEF TreeInv, LinksOK, UpOK
    <3> QED
      BY <1>1, <1>4, <2>2, <3>1 DEF Follow
  <2>5. CASE prevchild[x] # NULL
    <3>1. prevchild[x] \in F /\ nextchild[prevchild[x]] = x
      BY <2>3, <2>5 DEF TreeInv, LinksOK, PrevOK, Children
    <3> QED
      BY <1>1, <1>4, <2>2, <3>1 DEF Follow
  <2> QED
    BY <2>4, <2>5
<1>5. Follow(F, h, nextchild, NULL)
  BY <1>2, <1>3 DEF Follow
<1>6. \A x \in F : nextchild[x] = h => h = NULL
  BY <1>1, <1>2, <1>3
<1>7. \A x, y \in F : nextchild[x] = nextchild[y] /\ nextchild[x] # NULL => x = y
  BY <1>3
<1> HIDE DEF F, h
<1> QED
  BY <1>1, <1>4, <1>5, <1>6, <1>7 DEF ListOf, F, h

(* There is a last child, if there are children, *)
LEMMA LastChild ==
  ASSUME TreeInv, NEW p \in live, Children(p) # {}
  PROVE  \E l \in Children(p) : nextchild[l] = NULL
<1>1. Children(p) \in SUBSET live
  BY DEF Children
<1>2. PICK l \in Children(p) : nextchild[l] \notin Children(p)
  BY <1>1 DEF TreeInv, SiblingsAcyclic
<1> QED
  BY <1>2 DEF TreeInv, LinksOK, NextOK, Children

(* and only one (ListLast). *)
LEMMA OneLastChild ==
  ASSUME TreeInv, IsFiniteSet(live), NEW u \in live, NEW v \in live,
         parent[u] = parent[v], parent[u] # NULL, nextchild[u] = NULL, nextchild[v] = NULL
  PROVE  u = v
<1> DEFINE p == parent[u]
<1>1. p \in live
  BY DEF TreeInv, LinksOK, UpOK
<1>2. u \in Children(p) /\ v \in Children(p) /\ Children(p) \in SUBSET live
  BY DEF Children
<1>3. IsFiniteSet(Children(p))
  BY <1>2, FS_Subset
<1> HIDE DEF p
<1>4. ListOf(Children(p), firstchild[p], nextchild, NULL)
  BY <1>1, ChildrenAreListed
<1> QED
  BY <1>2, <1>3, <1>4, ListLast

--------------------------------------------------------------------------------
(* A context below v is at or below one of its children.                   *)
LEMMA SubtreeSplits ==
  ASSUME TreeInv, NEW v \in live, NEW x \in Below(v)
  PROVE  \E w \in Children(v) : x \in Subtree(w)
<1> DEFINE S == {v} \cup {y \in Subtree(v) : \E w \in Children(v) : y \in Subtree(w)}
<1>1. S \in SUBSET live /\ v \in S
  BY SubtreeLive
<1>2. ASSUME NEW y \in live, parent[y] \in S
      PROVE  y \in S
  <2>1. parent[y] \in Subtree(v) /\ y \in Subtree(v)
    BY <1>2, SubtreeClosed DEF ClosedBelow
  <2>2. CASE parent[y] = v
    BY <1>2, <2>1, <2>2, SubtreeClosed DEF Children
  <2>3. CASE parent[y] # v
    <3>1. PICK w \in Children(v) : parent[y] \in Subtree(w)
      BY <1>2, <2>3
    <3>2. w \in live
      BY DEF Children
    <3>3. y \in Subtree(w)
      BY <3>1, <3>2, SubtreeClosed DEF ClosedBelow
    <3> QED
      BY <2>1, <3>3
  <2> QED
    BY <2>2, <2>3
<1>3. Subtree(v) \subseteq S
  BY <1>1, <1>2, SubtreeLeast DEF ClosedBelow
<1> QED
  BY <1>3 DEF Below

(* Who climbs from x by parent meets z, if x is at or below z.             *)
LEMMA ClimbMeets ==
  ASSUME TreeInv, NEW z \in live, NEW x \in Subtree(z), NEW S, x \in S,
         \A w \in S : w \in Below(z) => parent[w] \in S
  PROVE  z \in S
<1> SUFFICES ASSUME z \notin S PROVE FALSE
  OBVIOUS
<1> DEFINE R == Subtree(z) \ S
<1>1. R \in SUBSET live /\ z \in R
  BY SubtreeLive, SubtreeClosed
<1>2. ASSUME NEW y \in live, parent[y] \in R
      PROVE  y \in R
  <2>1. y \in Below(z)
    BY <1>2, ChildBelow
  <2> QED
    BY <1>2, <2>1 DEF Below
<1>3. Subtree(z) \subseteq R
  BY <1>1, <1>2, SubtreeLeast DEF ClosedBelow
<1> QED
  BY <1>3

--------------------------------------------------------------------------------
(* What the climb comes to is the next sibling of some context.            *)
LEMMA ClimbHasBefore ==
  ASSUME TreeInv, NEW top \in live, NEW x \in Below(top), Climb(top)[x] # NULL
  PROVE  LET n == Climb(top)[x]
         IN  n \in live /\ prevchild[n] # NULL /\ nextchild[prevchild[n]] = n
<1> DEFINE Up == Climb(top)
           D == Below(top)
           Good(y) == Up[y] = NULL \/ ( /\ Up[y] \in live /\ prevchild[Up[y]] # NULL
                                        /\ nextchild[prevchild[Up[y]]] = Up[y])
           B == {y \in D : ~ Good(y)}
<1>1. D \in SUBSET live /\ NULL \notin live
  BY SubtreeLive, ContextAssumption DEF Below, TreeInv, TreeTypeOK
<1>2. \A y \in D : Up[y] = IF nextchild[y] # NULL THEN nextchild[y]
                           ELSE IF parent[y] = top THEN NULL ELSE Up[parent[y]]
  BY ClimbEquation
<1> HIDE DEF Up
<1>3. ASSUME NEW y \in B PROVE parent[y] \in B
  <2>1. y \in D /\ y \in live
    BY <1>1
  <2>2. CASE nextchild[y] # NULL
    <3>1. Up[y] = nextchild[y]
      BY <1>2, <2>1, <2>2
    <3>2. nextchild[y] \in live /\ prevchild[nextchild[y]] = y
      BY <2>1, <2>2 DEF TreeInv, LinksOK, NextOK
    <3> QED
      BY <1>1, <2>1, <3>1, <3>2
  <2>3. CASE nextchild[y] = NULL
    <3>1. parent[y] # top /\ Up[y] = Up[parent[y]]
      BY <1>2, <2>1, <2>3
    <3>2. parent[y] \in D
      BY <2>1, <3>1, ParentInside DEF Below
    <3> QED
      BY <3>1, <3>2
  <2> QED
    BY <2>2, <2>3
<1>4. B = {}
  BY <1>1, <1>3 DEF TreeInv, ParentsAcyclic
<1> QED
  BY <1>4 DEF Up

(***************************************************************************)
(* Two contexts without children do not climb to the same one: both are    *)
(* at the end of the way down from its sibling by last children.           *)
(***************************************************************************)
LEMMA ClimbOnce ==
  ASSUME TreeInv, IsFiniteSet(live), NEW top \in live, NEW x \in Below(top), NEW y \in Below(top),
         firstchild[x] = NULL, firstchild[y] = NULL,
         Climb(top)[x] = Climb(top)[y], Climb(top)[x] # NULL
  PROVE  x = y
<1> DEFINE Up == Climb(top)
           D == Below(top)
           n == Up[x]
           z == prevchild[n]
           P == {u \in D : Up[u] = n}
<1>1. /\ D \in SUBSET live /\ P \in SUBSET live /\ NULL \notin live
      /\ x \in P /\ y \in P
  BY SubtreeLive, ContextAssumption DEF Below, TreeInv, TreeTypeOK
<1>2. \A u \in D : Up[u] = IF nextchild[u] # NULL THEN nextchild[u]
                           ELSE IF parent[u] = top THEN NULL ELSE Up[parent[u]]
  BY ClimbEquation
<1> HIDE DEF Up
<1>3. ASSUME NEW u \in P, u # z
      PROVE  nextchild[u] = NULL /\ parent[u] \in P
  <2>1. u \in D /\ u \in live /\ Up[u] = n /\ n # NULL
    BY <1>1 DEF Up
  <2>2. nextchild[u] = NULL
    <3> SUFFICES ASSUME nextchild[u] # NULL PROVE FALSE
      OBVIOUS
    <3>1. n = nextchild[u]
      BY <1>2, <2>1
    <3>2. prevchild[nextchild[u]] = u
      BY <2>1 DEF TreeInv, LinksOK, NextOK
    <3> QED
      BY <1>3, <3>1, <3>2
  <2>3. parent[u] # top /\ Up[parent[u]] = n
    BY <1>2, <2>1, <2>2
  <2>4. parent[u] \in D
    BY <2>1, <2>3, ParentInside DEF Below
  <2> QED
    BY <2>2, <2>3, <2>4
<1> HIDE DEF n, z, P
<1>4. z \in P
  <2>1. PICK u \in P : parent[u] \notin P
    BY <1>1 DEF TreeInv, ParentsAcyclic
  <2> QED
    BY <1>3, <2>1
<1>5. z \in live
  BY <1>1, <1>4
<1>6. ASSUME NEW u \in P
      PROVE  u \in Subtree(z)
  <2> DEFINE B == {w \in P : w \notin Subtree(z)}
  <2> SUFFICES ASSUME B # {} PROVE FALSE
    OBVIOUS
  <2>1. PICK w \in B : parent[w] \notin B
    BY <1>1 DEF TreeInv, ParentsAcyclic
  <2>2. w # z /\ w \in live
    BY <1>1, <1>5, <2>1, SubtreeClosed
  <2>3. parent[w] \in Subtree(z)
    BY <1>3, <2>1, <2>2
  <2> QED
    BY <1>5, <2>1, <2>2, <2>3, SubtreeClosed DEF ClosedBelow
<1>7. ASSUME NEW v \in Subtree(z), x \in Subtree(v)
      PROVE  v \in P
  <2>1. v \in live
    BY <1>5, SubtreeLive
  <2>2. ASSUME NEW w \in P, w \in Below(v)
        PROVE  parent[w] \in P
    <3>1. v \notin Subtree(w)
      BY <2>1, <2>2, NotAbove
    <3>2. w # z
      BY <1>7, <3>1
    <3> QED
      BY <1>3, <3>2
  <2> QED
    BY <1>1, <1>7, <2>1, <2>2, ClimbMeets
<1>8. ASSUME NEW u \in P
      PROVE  x \in Subtree(u)
  <2> DEFINE B == {w \in P : x \notin Subtree(w)}
  <2> SUFFICES ASSUME B # {} PROVE FALSE
    OBVIOUS
  <2>1. PICK w \in B : parent[w] \notin B
    BY <1>1 DEF TreeInv, ParentsAcyclic
  <2> DEFINE q == parent[w]
  <2>2. w \in P /\ w \in live /\ w # z /\ x \notin Subtree(w)
    BY <1>1, <1>6, <2>1
  <2>3. nextchild[w] = NULL /\ q \in P /\ x \in Subtree(q)
    BY <1>3, <2>1, <2>2
  <2>4. q \in live /\ q # x
    BY <1>1, <2>2, <2>3, NoChildren
  <2>5. q \in Subtree(z)
    BY <1>6, <2>3
  <2> HIDE DEF q
  <2>6. PICK v \in Children(q) : x \in Subtree(v)
    BY <2>3, <2>4, SubtreeSplits DEF Below
  <2>7. v \in live /\ parent[v] = q
    BY DEF Children
  <2>8. v \in Subtree(z) /\ v # z
    BY <1>5, <2>5, <2>7, SubtreeClosed, ParentOutside DEF ClosedBelow
  <2>9. v \in P
    BY <1>7, <2>6, <2>8
  <2>10. nextchild[v] = NULL
    BY <1>3, <2>8, <2>9
  <2>11. v = w
    BY <1>1, <2>2, <2>3, <2>4, <2>7, <2>10, OneLastChild DEF q
  <2> QED
    BY <2>2, <2>6, <2>11
<1>9. x \in Subtree(y) /\ y \in live
  BY <1>1, <1>8
<1> QED
  BY <1>9, LeafSubtree

--------------------------------------------------------------------------------
(* The descendants of top that a walk must reach: T holds, with a context, *)
(* the next one of the walk.                                               *)
Walked(T, top) == /\ T \in SUBSET Below(top)
                  /\ \A x \in T : TraverseNext(x, top) \in T \cup {NULL}

(* All that is to be done below v, and then what comes after. *)
Passed(T, top, v) == Subtree(v) \subseteq T /\ Climb(top)[v] \in T \cup {NULL}

(* A walk that passes each child that it reaches passes all children. *)
LEMMA ChildrenPassed ==
  ASSUME TreeInv, NEW top \in live, NEW T, Walked(T, top), NEW p \in Subtree(top),
         firstchild[p] \in T \cup {NULL},
         \A w \in Children(p) \cap T : Passed(T, top, w)
  PROVE  /\ \A w \in Children(p) : Passed(T, top, w)
         /\ Below(p) \subseteq T
<1> DEFINE F == Children(p)
<1>1. p \in live /\ F \in SUBSET live /\ NULL \notin live
  BY SubtreeLive, ContextAssumption DEF Children, TreeInv, TreeTypeOK
<1>2. ASSUME NEW w \in F
      PROVE  w \in Below(top)
  BY <1>1, <1>2, ChildBelow DEF Children
<1>3. ListOf(F, firstchild[p], nextchild, NULL)
  BY <1>1, ChildrenAreListed
<1>4. Follow(F \cap T, firstchild[p], nextchild, NULL)
  <2>1. Follow(F, firstchild[p], nextchild, NULL)
    BY <1>3 DEF ListOf
  <2>2. ASSUME NEW w \in F \cap T, nextchild[w] # NULL
        PROVE  nextchild[w] \in F \cap T
    <3>1. Climb(top)[w] = nextchild[w]
      BY <1>2, <2>2, ClimbEquation
    <3> QED
      BY <2>1, <2>2, <3>1 DEF Passed, Follow
  <2> QED
    BY <2>1, <2>2 DEF Follow
<1>5. F \cap T = F
  BY <1>3, <1>4 DEF ListOf
<1>6. Below(p) \subseteq T
  BY <1>1, <1>5, SubtreeSplits DEF Passed
<1> QED
  BY <1>5, <1>6

(* So, by induction on the size of subtrees, it passes what it reaches.    *)
LEMMA WalkPasses ==
  ASSUME TreeInv, IsFiniteSet(live), NEW top \in live, NEW T, Walked(T, top), NEW v \in T
  PROVE  Passed(T, top, v)
<1> DEFINE Size(u) == Cardinality(Subtree(u))
           Bad == {n \in Nat : \E u \in T : Size(u) = n /\ ~ Passed(T, top, u)}
<1>1. T \subseteq Below(top) /\ T \in SUBSET live /\ NULL \notin live
  BY SubtreeLive, ContextAssumption DEF Walked, Below, TreeInv, TreeTypeOK
<1>2. \A u \in live : IsFiniteSet(Subtree(u)) /\ Size(u) \in Nat
  BY SubtreeLive, FS_Subset, FS_CardinalityType
<1> SUFFICES ASSUME ~ Passed(T, top, v) PROVE FALSE
  OBVIOUS
<1>3. Size(v) \in Bad
  BY <1>1, <1>2
<1>4. PICK n \in Bad : \A m \in Bad : n <= m
  BY <1>3, LeastNumber
<1>5. PICK u \in T : Size(u) = n /\ ~ Passed(T, top, u)
  OBVIOUS
<1>6. u \in live /\ u \in Below(top) /\ u # top /\ u \in Subtree(top)
  BY <1>1 DEF Below
<1>7. TraverseNext(u, top) \in T \cup {NULL}
  BY DEF Walked
<1>8. firstchild[u] # NULL
  <2> SUFFICES ASSUME firstchild[u] = NULL PROVE FALSE
    OBVIOUS
  <2>1. Subtree(u) = {u}
    BY <1>6, LeafSubtree
  <2>2. Climb(top)[u] \in T \cup {NULL}
    BY <1>7, TraverseNextIs
  <2> QED
    BY <1>5, <2>1, <2>2 DEF Passed
<1>9. firstchild[u] \in T
  BY <1>7, <1>8, TraverseNextIs
<1>10. ASSUME NEW w \in Children(u) \cap T
       PROVE  Passed(T, top, w)
  <2>1. w \in live /\ w \in Below(u)
    <3>1. w \in live /\ parent[w] \in Subtree(u)
      BY <1>6, SubtreeClosed DEF Children
    <3> QED
      BY <1>6, <3>1, ChildBelow
  <2>2. Subtree(w) \subseteq Subtree(u) /\ u \in Subtree(u) /\ u \notin Subtree(w)
    BY <1>6, <2>1, SubtreeOfMember, NotAbove, SubtreeClosed DEF Below
  <2>3. Size(w) <= Size(u) /\ Size(w) # Size(u)
    BY <1>2, <1>6, <2>2, FS_Subset
  <2>4. Size(w) \in Nat /\ Size(w) < n
    BY <1>2, <1>5, <1>6, <2>1, <2>3
  <2>5. Size(w) \notin Bad
    BY <1>4, <2>4
  <2> QED
    BY <2>4, <2>5
<1>11. /\ \A w \in Children(u) : Passed(T, top, w)
       /\ Below(u) \subseteq T
  BY <1>6, <1>9, <1>10, ChildrenPassed
<1>12. firstchild[u] \in Children(u)
  BY <1>6, <1>8 DEF TreeInv, LinksOK, DownOK, Children
<1>13. PICK l \in Children(u) : nextchild[l] = NULL
  BY <1>6, <1>12, LastChild
<1>14. Climb(top)[l] = Climb(top)[u]
  <2>1. l \in live /\ parent[l] = u
    BY DEF Children
  <2>2. l \in Below(top)
    BY <1>6, <2>1, ChildBelow
  <2> QED
    BY <1>6, <1>13, <2>1, <2>2, ClimbEquation
<1>15. Passed(T, top, u)
  BY <1>11, <1>14 DEF Passed, Below
<1> QED
  BY <1>5, <1>15

(***************************************************************************)
(* A walk by MemoryContextTraverseNext is a list of all that is below top: *)
(* it meets each descendant, once, and ends.                               *)
(***************************************************************************)
LEMMA TraversalIsList ==
  ASSUME TreeInv, IsFiniteSet(live), NEW top \in live,
         NEW next, \A x \in Below(top) : next[x] = TraverseNext(x, top)
  PROVE  ListOf(Below(top), firstchild[top], next, NULL)
<1> DEFINE D == Below(top)
           h == firstchild[top]
<1>1. D \in SUBSET live /\ NULL \notin live /\ top \in Subtree(top) /\ top # NULL
  BY SubtreeLive, SubtreeClosed, ContextAssumption DEF Below, TreeInv, TreeTypeOK
<1>2. h # NULL => h \in D /\ h \in live /\ parent[h] = top /\ prevchild[h] = NULL
  <2>1. h # NULL => h \in live /\ parent[h] = top /\ prevchild[h] = NULL
    BY DEF TreeInv, LinksOK, DownOK
  <2> QED
    BY <1>1, <2>1, ChildBelow
<1>3. ASSUME NEW x \in D, firstchild[x] # NULL
      PROVE  next[x] = firstchild[x] /\ parent[next[x]] = x /\ prevchild[next[x]] = NULL
  <2>1. next[x] = firstchild[x]
    BY <1>3, TraverseNextIs
  <2> QED
    BY <1>1, <1>3, <2>1 DEF TreeInv, LinksOK, DownOK
<1>4. ASSUME NEW x \in D, firstchild[x] = NULL
      PROVE  next[x] = Climb(top)[x] /\ (next[x] # NULL => prevchild[next[x]] # NULL)
  <2>1. next[x] = Climb(top)[x]
    BY <1>4, TraverseNextIs
  <2> QED
    BY <2>1, ClimbHasBefore
<1>5. Follow(D, h, next, NULL)
  BY <1>2, TraverseNextBelow DEF Follow
<1>6. ASSUME NEW x \in D, next[x] = h
      PROVE  h = NULL
  <2>1. x # top
    BY DEF Below
  <2> QED
    BY <1>2, <1>3, <1>4, <1>6, <2>1
<1>7. ASSUME NEW x \in D, NEW y \in D, next[x] = next[y], next[x] # NULL
      PROVE  x = y
  <2>1. CASE firstchild[x] # NULL
    BY <1>3, <1>4, <1>7, <2>1
  <2>2. CASE firstchild[x] = NULL /\ firstchild[y] # NULL
    BY <1>3, <1>4, <1>7, <2>2
  <2>3. CASE firstchild[x] = NULL /\ firstchild[y] = NULL
    <3>1. Climb(top)[x] = Climb(top)[y] /\ Climb(top)[x] # NULL
      BY <1>4, <1>7, <2>3
    <3> QED
      BY <2>3, <3>1, ClimbOnce
  <2> QED
    BY <2>1, <2>2, <2>3
<1>8. ASSUME NEW T \in SUBSET D, Follow(T, h, next, NULL)
      PROVE  T = D
  <2>1. Walked(T, top)
    BY <1>8 DEF Walked, Follow
  <2>2. \A w \in Children(top) \cap T : Passed(T, top, w)
    BY <2>1, WalkPasses
  <2>3. firstchild[top] \in T \cup {NULL}
    BY <1>8 DEF Follow
  <2> QED
    BY <1>1, <2>1, <2>2, <2>3, ChildrenPassed
<1> HIDE DEF D, h
<1>9. \A x \in D : next[x] = h => h = NULL
  BY <1>6
<1>10. \A x, y \in D : next[x] = next[y] /\ next[x] # NULL => x = y
  BY <1>7
<1> QED
  BY <1>1, <1>5, <1>8, <1>9, <1>10 DEF ListOf, D, h

(* The climb from x leaves what is below x. *)
LEMMA ClimbOutside ==
  ASSUME TreeInv, NEW top \in live, NEW x \in Below(top)
  PROVE  Climb(top)[x] \notin Subtree(x)
<1> DEFINE Up == Climb(top)
           D == Below(top)
           B == {y \in D : Up[y] \in Subtree(y)}
<1>1. D \in SUBSET live /\ NULL \notin live
  BY SubtreeLive, ContextAssumption DEF Below, TreeInv, TreeTypeOK
<1>2. \A y \in D : Up[y] = IF nextchild[y] # NULL THEN nextchild[y]
                           ELSE IF parent[y] = top THEN NULL ELSE Up[parent[y]]
  BY ClimbEquation
<1> HIDE DEF Up
<1>3. ASSUME NEW y \in B PROVE parent[y] \in B
  <2>1. y \in D /\ y \in live /\ Subtree(y) \in SUBSET live
    BY <1>1, SubtreeLive
  <2>2. parent[y] \in Subtree(top) /\ parent[y] \notin Subtree(y)
    BY <2>1, ParentInside, ParentOutside
  <2>3. nextchild[y] = NULL
    <3> SUFFICES ASSUME nextchild[y] # NULL PROVE FALSE
      OBVIOUS
    <3>1. nextchild[y] \in Subtree(y) /\ parent[nextchild[y]] = parent[y]
      BY <1>2, <2>1 DEF TreeInv, LinksOK, NextOK
    <3>2. nextchild[y] # y
      <4>1. {y} \in SUBSET live /\ {y} # {}
        BY <2>1
      <4> QED
        BY <4>1 DEF TreeInv, SiblingsAcyclic
    <3>3. parent[nextchild[y]] \in Subtree(y)
      BY <2>1, <3>1, <3>2, ParentInside DEF Below
    <3> QED
      BY <2>2, <3>1, <3>3
  <2>4. parent[y] # top /\ Up[parent[y]] \in Subtree(y)
    BY <1>1, <1>2, <2>1, <2>3
  <2>5. parent[y] \in D /\ parent[y] \in live
    BY <1>1, <2>2, <2>4 DEF Below
  <2>6. y \in Subtree(parent[y])
    BY <2>1, <2>5, SubtreeClosed DEF ClosedBelow
  <2>7. Subtree(y) \subseteq Subtree(parent[y])
    BY <2>5, <2>6, SubtreeOfMember
  <2> QED
    BY <2>4, <2>5, <2>7
<1>4. B = {}
  BY <1>1, <1>3 DEF TreeInv, ParentsAcyclic
<1> QED
  BY <1>4 DEF Up

(* What is below x is below top. *)
LEMMA BelowBelow ==
  ASSUME TreeInv, NEW top \in live, NEW x \in Below(top)
  PROVE  x \in live /\ Below(x) \subseteq Below(top)
<1>1. x \in live /\ Subtree(x) \subseteq Subtree(top) /\ top \notin Subtree(x)
  BY SubtreeLive, SubtreeOfMember, NotAbove DEF Below
<1> QED
  BY <1>1 DEF Below

(* A climb that ends below x, where x is not the top, goes on from x. *)
LEMMA ClimbGoesOn ==
  ASSUME TreeInv, NEW top \in live, NEW x \in Below(top), NEW y \in Below(x)
  PROVE  Climb(top)[y] = IF Climb(x)[y] = NULL THEN Climb(top)[x] ELSE Climb(x)[y]
<1> DEFINE Up == Climb(top)
           In == Climb(x)
           B == {z \in Below(x) : Up[z] # IF In[z] = NULL THEN Up[x] ELSE In[z]}
<1>1. x \in live /\ Below(x) \subseteq Below(top) /\ Below(x) \in SUBSET live /\ top \notin Below(x)
  BY BelowBelow, SubtreeLive DEF Below
<1>2. \A z \in Below(x) :
        /\ Up[z] = IF nextchild[z] # NULL THEN nextchild[z]
                   ELSE IF parent[z] = top THEN NULL ELSE Up[parent[z]]
        /\ In[z] = IF nextchild[z] # NULL THEN nextchild[z]
                   ELSE IF parent[z] = x THEN NULL ELSE In[parent[z]]
  BY <1>1, ClimbEquation
<1> HIDE DEF Up, In
<1>3. ASSUME NEW z \in B PROVE parent[z] \in B
  <2>1. z \in Below(x) /\ nextchild[z] = NULL
    BY <1>2
  <2>2. parent[z] \in Subtree(x) /\ x # top
    BY <1>1, <2>1, ParentInside DEF Below
  <2>3. parent[z] # top
    BY <1>1, <2>2 DEF Below
  <2>4. parent[z] # x
    BY <1>2, <2>1, <2>3
  <2>5. parent[z] \in Below(x)
    BY <2>2, <2>4 DEF Below
  <2> QED
    BY <1>2, <2>1, <2>3, <2>4, <2>5
<1>4. B = {}
  BY <1>1, <1>3 DEF TreeInv, ParentsAcyclic
<1> QED
  BY <1>4 DEF Up, In

(***************************************************************************)
(* A walk by MemoryContextTraverseNext below top, as a whole and after     *)
(* each context that it comes to: it goes through all contexts below that  *)
(* one, each once, and only then on to where the climb leads.              *)
(***************************************************************************)
WalkBelow(top) == [x \in Below(top) |-> TraverseNext(x, top)]

TraversalVisitsAll ==
  \A top \in live :
    /\ ListOf(Below(top), firstchild[top], WalkBelow(top), NULL)
    /\ \A x \in Below(top) :
         ListOf(Below(x), TraverseNext(x, top), WalkBelow(top), Climb(top)[x])

(* By TraversalIsList for top, and for x with its end where x climbs to.   *)
LEMMA WalksVisitAll ==
  ASSUME TreeInv, IsFiniteSet(live)
  PROVE  TraversalVisitsAll
<1> SUFFICES ASSUME NEW top \in live
             PROVE  /\ ListOf(Below(top), firstchild[top], WalkBelow(top), NULL)
                    /\ \A x \in Below(top) :
                         ListOf(Below(x), TraverseNext(x, top), WalkBelow(top), Climb(top)[x])
  BY DEF TraversalVisitsAll
<1> DEFINE next == WalkBelow(top)
<1>1. \A x \in Below(top) : next[x] = TraverseNext(x, top)
  BY DEF WalkBelow
<1> HIDE DEF next
<1>2. ListOf(Below(top), firstchild[top], next, NULL)
  BY <1>1, TraversalIsList
<1>3. ASSUME NEW x \in Below(top)
      PROVE  ListOf(Below(x), TraverseNext(x, top), next, Climb(top)[x])
  <2> DEFINE inner == WalkBelow(x)
             end == Climb(top)[x]
  <2>1. x \in live /\ Below(x) \subseteq Below(top) /\ Below(x) \in SUBSET live /\ NULL \notin live
    BY BelowBelow, SubtreeLive, ContextAssumption DEF Below, TreeInv, TreeTypeOK
  <2>2. \A y \in Below(x) : inner[y] = TraverseNext(y, x)
    BY DEF WalkBelow
  <2> HIDE DEF inner
  <2>3. ListOf(Below(x), firstchild[x], inner, NULL)
    BY <2>1, <2>2, TraversalIsList
  <2>4. end \notin Below(x)
    BY ClimbOutside DEF Below
  <2>5. ASSUME NEW y \in Below(x)
        PROVE  next[y] = IF inner[y] = NULL THEN end ELSE inner[y]
    <3>1. next[y] = TraverseNext(y, top) /\ inner[y] = TraverseNext(y, x)
      BY <1>1, <2>1, <2>2
    <3>2. CASE firstchild[y] = NULL
      BY <3>1, <3>2, ClimbGoesOn, TraverseNextIs
    <3>3. CASE firstchild[y] # NULL
      BY <3>1, <3>3, TraverseNextIs
    <3> QED
      BY <3>2, <3>3
  <2> HIDE DEF end
  <2>6. EndsAt(next, end, Below(x), inner, NULL)
    BY <2>4, <2>5 DEF EndsAt
  <2>7. ListOf(Below(x), IF firstchild[x] = NULL THEN end ELSE firstchild[x], next, end)
    BY <2>3, <2>6, ListEndsAt
  <2>8. TraverseNext(x, top) = IF firstchild[x] = NULL THEN end ELSE firstchild[x]
    BY TraverseNextIs DEF end
  <2> QED
    BY <2>7, <2>8 DEF end
<1> QED
  BY <1>2, <1>3 DEF next


--------------------------------------------------------------------------------
(***************************************************************************)
(* MemoryContextMemAllocated and MemoryContextMemConsumed add up what is   *)
(* said of c and of each of its descendants.                               *)
(***************************************************************************)
LEMMA SumOverTreeIsSum ==
  ASSUME TreeInv, IsFiniteSet(live), NEW c \in live, NEW amount, Numbers(amount, Subtree(c))
  PROVE  SumOverTree(amount, c) = SumFunctionOnSet(amount, Subtree(c))
<1> DEFINE next == [x \in Below(c) |-> TraverseNext(x, c)]
           F == Below(c)
           h == firstchild[c]
           Body(R) == [curr \in Below(c) \cup {NULL} |->
                         IF curr = NULL THEN 0 ELSE amount[curr] + R[TraverseNext(curr, c)]]
           Rest == CHOOSE R : R = Body(R)
<1>1. Subtree(c) \in SUBSET live /\ c \in Subtree(c) /\ F = Subtree(c) \ {c} /\ NULL \notin F
  BY SubtreeLive, SubtreeClosed, ContextAssumption DEF Below, TreeInv, TreeTypeOK
<1>2. IsFiniteSet(Subtree(c)) /\ IsFiniteSet(F) /\ Numbers(amount, F)
  BY <1>1, FS_Subset DEF Numbers
<1>3. SumOverTree(amount, c) = amount[c] + Rest[h]
  BY DEF SumOverTree
<1>4. \A x \in F : next[x] = TraverseNext(x, c)
  OBVIOUS
<1> HIDE DEF next, F
<1>5. ListOf(F, h, next, NULL)
  BY <1>4, TraversalIsList DEF F
<1>6. \E R : AddsUp(R, F, next, NULL, amount)
  BY <1>2, <1>5, ListAddsUp
<1>7. \A R : AddsUp(R, F, next, NULL, amount) <=> R = Body(R)
  BY <1>4 DEF F, AddsUp
<1> HIDE DEF Body
<1>8. Rest = Body(Rest)
  BY <1>6, <1>7
<1> HIDE DEF Rest
<1>9. AddsUp(Rest, F, next, NULL, amount)
  BY <1>7, <1>8
<1>10. Rest[h] = SumFunctionOnSet(amount, F)
  BY <1>2, <1>5, <1>9, ListSum
<1>11. SumFunctionOnSet(amount, Subtree(c)) = amount[c] + SumFunctionOnSet(amount, F)
  BY <1>1, <1>2, SumWithout
<1> QED
  BY <1>3, <1>10, <1>11

--------------------------------------------------------------------------------
(* The blocks that malloc gave to the contexts. *)
Given == {b \in Block : aset[b] # NULL}

(***************************************************************************)
(* What a header counts is what malloc gave for the context: its keeper,   *)
(* and the blocks that lead to it.                                         *)
(***************************************************************************)
AccountInv ==
  /\ IsFiniteSet(live) /\ IsFiniteSet(Given)
  /\ memAllocated \in [Context -> Int] /\ bytes \in [Block -> Nat]
  /\ \A c \in malloced : memAllocated[c] = Space(c)

(* A step takes the blocks R from the set of c and gives it the blocks A,  *)
Moves(c, R, A) ==
  \A b \in Block :
    /\ aset'[b] = IF b \in A THEN c ELSE IF b \in R THEN NULL ELSE aset[b]
    /\ b \notin A \cup R => bytes'[b] = bytes[b]

(* and counts this for c, and nothing for the others. *)
Counts(c, less, more) ==
  \A x \in malloced' : memAllocated'[x] = IF x = c THEN memAllocated[c] - less + more
                                                   ELSE memAllocated[x]

(* The space of c without the blocks R and with the blocks A.              *)
LEMMA SpaceMoves ==
  ASSUME AccountInv, bytes' \in [Block -> Nat], NEW c, c # NULL,
         NEW R \in SUBSET BlocksOf(c), NEW A \in SUBSET Block, IsFiniteSet(A),
         A \cap Given \subseteq R, Moves(c, R, A)
  PROVE  /\ Space(c)' = Space(c) - SumFunctionOnSet(bytes, R) + SumFunctionOnSet(bytes', A)
         /\ Space(c) \in Int /\ SumFunctionOnSet(bytes, R) \in Int
         /\ SumFunctionOnSet(bytes', A) \in Int
<1> DEFINE K == BlocksOf(c) \ R
<1>1. /\ BlocksOf(c) = K \cup R /\ K \cap R = {} /\ BlocksOf(c) \subseteq Given
      /\ BlocksOf(c)' = K \cup A /\ K \cap A = {}
      /\ Agree(bytes', bytes, K)
  BY DEF BlocksOf, Given, Moves, Agree
<1>2. IsFiniteSet(K) /\ IsFiniteSet(R)
  BY <1>1, FS_Subset DEF AccountInv
<1>3. /\ Numbers(bytes, K \cup R) /\ Numbers(bytes, K) /\ Numbers(bytes, R)
      /\ Numbers(bytes', K \cup A) /\ Numbers(bytes', A)
  BY DEF Numbers, AccountInv, BlocksOf
<1> HIDE DEF K
<1>4. SumFunctionOnSet(bytes, K \cup R) = SumFunctionOnSet(bytes, K) + SumFunctionOnSet(bytes, R)
  BY <1>1, <1>2, <1>3, SumOfParts
<1>5. SumFunctionOnSet(bytes', K \cup A) = SumFunctionOnSet(bytes', K) + SumFunctionOnSet(bytes', A)
  BY <1>1, <1>2, <1>3, SumOfParts
<1>6. SumFunctionOnSet(bytes', K) = SumFunctionOnSet(bytes, K)
  BY <1>1, <1>2, <1>3, SumStays
<1>7. /\ SumFunctionOnSet(bytes, K) \in Int /\ SumFunctionOnSet(bytes, R) \in Int
      /\ SumFunctionOnSet(bytes', A) \in Int /\ KeeperBytes \in Int
  BY <1>2, <1>3, SumType, MemoryAssumption
<1>8. /\ Space(c) = KeeperBytes + SumFunctionOnSet(bytes, K \cup R)
      /\ Space(c)' = KeeperBytes + SumFunctionOnSet(bytes', K \cup A)
  BY <1>1 DEF Space
<1> QED
  BY <1>4, <1>5, <1>6, <1>7, <1>8

(* The other contexts are counted as before, and c for what has moved.     *)
LEMMA MovesKeepAccount ==
  ASSUME AccountInv, bytes' \in [Block -> Nat], memAllocated' \in [Context -> Int],
         NEW c \in malloced, malloced \subseteq Context, IsFiniteSet(live'), malloced' \subseteq malloced,
         NEW R \in SUBSET BlocksOf(c), NEW A \in SUBSET Block, IsFiniteSet(A),
         A \cap Given \subseteq R, Moves(c, R, A),
         Counts(c, SumFunctionOnSet(bytes, R), SumFunctionOnSet(bytes', A))
  PROVE  AccountInv'
<1>1. c # NULL /\ NULL \notin malloced
  BY ContextAssumption
<1>2. IsFiniteSet(Given')
  <2>1. Given' \subseteq Given \cup A
    BY DEF Given, Moves
  <2> QED
    BY <2>1, FS_Union, FS_Subset DEF AccountInv
<1>3. ASSUME NEW x \in malloced', x # c
      PROVE  memAllocated'[x] = Space(x)'
  <2>1. BlocksOf(x)' = BlocksOf(x) /\ BlocksOf(x) \subseteq Given /\ Agree(bytes', bytes, BlocksOf(x))
    BY <1>1, <1>3 DEF BlocksOf, Moves, Agree, Given
  <2>2. IsFiniteSet(BlocksOf(x)) /\ Numbers(bytes, BlocksOf(x))
    BY <2>1, FS_Subset DEF AccountInv, Numbers, Given
  <2>3. SumFunctionOnSet(bytes', BlocksOf(x)) = SumFunctionOnSet(bytes, BlocksOf(x))
    BY <2>1, <2>2, SumStays
  <2>4. Space(x)' = Space(x)
    BY <2>1, <2>3 DEF Space
  <2> QED
    BY <1>3, <2>4 DEF AccountInv, Counts
<1>4. c \in malloced' => memAllocated'[c] = Space(c)'
  BY <1>1, SpaceMoves DEF AccountInv, Counts
<1>5. \A x \in malloced' : memAllocated'[x] = Space(x)'
  BY <1>3, <1>4
<1> QED
  BY <1>2, <1>5 DEF AccountInv

(* Steps that move no memory and no headers. *)
LEMMA QuietKeepsAccount ==
  ASSUME AccountInv, UNCHANGED <<live, malloced, aset, bytes, memAllocated>>
  PROVE  AccountInv'
<1>1. Given' = Given /\ \A x : Space(x)' = Space(x)
  BY DEF Given, Space, BlocksOf
<1> QED
  BY <1>1 DEF AccountInv

(* The set of c hands out a chunk in q. *)
LEMMA ObtainKeepsAccount ==
  ASSUME LifecycleInv, MemoryInv, AccountInv, NEW c \in live, NEW q \in Pointers, Obtain(c, q),
         live' = live, malloced' = malloced
  PROVE  AccountInv'
<1>1. CASE FromOwnBlock(c, q)
  BY <1>1, QuietKeepsAccount DEF FromOwnBlock
<1>2. ASSUME NEW size \in Nat, NEW large, FromMalloc(c, q, size, large)
      PROVE  AccountInv'
  <2>1. /\ q \in Block /\ aset[q] = NULL /\ q \notin Given
        /\ aset' = [aset EXCEPT ![q] = c] /\ aset \in [Block -> Pointer]
        /\ bytes' = [bytes EXCEPT ![q] = size] /\ bytes \in [Block -> Nat]
        /\ memAllocated' = [memAllocated EXCEPT ![c] = @ + size]
        /\ memAllocated \in [Context -> Int]
    BY <1>2 DEF FromMalloc, MemoryInv, MemoryTypes, AccountInv, Given
  <2>2. c \in Context /\ c \in malloced /\ malloced \subseteq Context
    BY DEF LifecycleInv, TreeInv, TreeTypeOK, FreelistInv, FreelistsOK, Chained
  <2>3. bytes' \in [Block -> Nat] /\ bytes'[q] = size /\ Moves(c, {}, {q})
    BY <2>1 DEF Moves
  <2>4. memAllocated' \in [Context -> Int]
    BY <2>1, <2>2
  <2>5. SumFunctionOnSet(bytes, {}) = 0 /\ SumFunctionOnSet(bytes', {q}) = size
    <3>1. SumFunctionOnSet(bytes', {q}) = bytes'[q]
      BY <2>3, SumOfOne
    <3>2. SumFunctionOnSet(bytes, {}) = 0
      BY SumOfNone
    <3> QED
      BY <2>3, <3>1, <3>2
  <2>6. Counts(c, 0, size)
    BY <2>1, <2>2 DEF Counts
  <2>7. IsFiniteSet({q}) /\ IsFiniteSet(live') /\ {q} \cap Given \subseteq {} /\ {} \in SUBSET BlocksOf(c)
    BY <2>1, FS_Singleton DEF AccountInv
  <2> QED
    BY <2>1, <2>2, <2>3, <2>4, <2>5, <2>6, <2>7, MovesKeepAccount
<1> QED
  BY <1>1, <1>2, MemoryAssumption DEF Obtain

(* An allocation. *)
LEMMA AllocKeepsAccount ==
  ASSUME LifecycleInv, MemoryInv, AccountInv, NEW c \in live, AllocIn(c) \/ AllocFails(c)
  PROVE  AccountInv'
<1>1. live' = live /\ malloced' = malloced
  BY DEF AllocIn, AllocFails, Alloc, treeVars, freelistVars
<1>2. CASE AllocFails(c)
  BY <1>1, <1>2, QuietKeepsAccount DEF AllocFails, memoryVars
<1>3. CASE AllocIn(c)
  BY <1>1, <1>3, ObtainKeepsAccount DEF AllocIn
<1> QED
  BY <1>2, <1>3

(* pfree *)
LEMMA FreeKeepsAccount ==
  ASSUME LifecycleInv, MemoryInv, AccountInv, NEW p \in InHand, pfree(p)
  PROVE  AccountInv'
<1>1. live' = live /\ malloced' = malloced
  BY DEF pfree, LifecycleUnchanged, treeVars, freelistVars
<1>2. CASE FreeChunk(p)
  BY <1>1, <1>2, QuietKeepsAccount DEF FreeChunk
<1>3. CASE FreeBlock(p)
  <2> DEFINE c == GetMemoryChunkContext(p)
  <2>1. c \in live /\ c \in Context /\ c # NULL /\ c \in malloced /\ malloced \subseteq Context
    BY PointerInHand DEF LifecycleInv, TreeInv, TreeTypeOK, FreelistInv, FreelistsOK, Chained
  <2>2. /\ p \in Block /\ p \notin Context /\ c = aset[p]
        /\ aset' = [aset EXCEPT ![p] = NULL] /\ aset \in [Block -> Pointer]
        /\ bytes' = [bytes EXCEPT ![p] = 0] /\ bytes \in [Block -> Nat]
        /\ memAllocated' = [memAllocated EXCEPT ![c] = @ - bytes[p] + 0]
        /\ memAllocated \in [Context -> Int]
    BY <1>3, MemoryAssumption
    DEF FreeBlock, Charge, MemoryInv, MemoryTypes, AccountInv, GetMemoryChunkContext
  <2> HIDE DEF c
  <2>3. bytes' \in [Block -> Nat] /\ Moves(c, {p}, {}) /\ {p} \in SUBSET BlocksOf(c)
    BY <2>2 DEF Moves, BlocksOf
  <2>4. bytes[p] \in Int /\ memAllocated' \in [Context -> Int]
    BY <2>1, <2>2
  <2>5. SumFunctionOnSet(bytes, {p}) = bytes[p] /\ SumFunctionOnSet(bytes', {}) = 0
    BY <2>4, SumOfOne, SumOfNone
  <2>6. Counts(c, bytes[p], 0)
    BY <1>1, <2>1, <2>2 DEF Counts
  <2>7. IsFiniteSet({}) /\ IsFiniteSet(live')
    BY <1>1, FS_EmptySet DEF AccountInv
  <2> QED
    BY <1>1, <2>1, <2>3, <2>4, <2>5, <2>6, <2>7, MovesKeepAccount
<1> QED
  BY <1>2, <1>3 DEF pfree

(* repalloc *)
LEMMA ReallocKeepsAccount ==
  ASSUME LifecycleInv, MemoryInv, AccountInv, NEW p \in InHand, repalloc(p)
  PROVE  AccountInv'
<1> DEFINE c == GetMemoryChunkContext(p)
<1>1. live' = live /\ malloced' = malloced
  BY DEF repalloc, LifecycleUnchanged, treeVars, freelistVars
<1>2. c \in live /\ c \in Context /\ c # NULL /\ c \in malloced /\ malloced \subseteq Context
  BY PointerInHand DEF LifecycleInv, TreeInv, TreeTypeOK, FreelistInv, FreelistsOK, Chained
<1>3. ASSUME NEW q \in Pointers, GrowChunk(p, q)
      PROVE  AccountInv'
  BY <1>1, <1>2, <1>3, ObtainKeepsAccount DEF GrowChunk, OwnSet
<1>4. ASSUME NEW b \in Block, NEW size \in Nat, ReallocBlock(p, b, size)
      PROVE  AccountInv'
  <2>1. /\ p \in Block /\ p \notin Context /\ c = aset[p]
        /\ b = p \/ (aset[b] = NULL /\ b \notin Given)
        /\ aset' = [aset EXCEPT ![p] = NULL, ![b] = aset[p]] /\ aset \in [Block -> Pointer]
        /\ bytes' = [bytes EXCEPT ![p] = 0, ![b] = size] /\ bytes \in [Block -> Nat]
        /\ memAllocated' = [memAllocated EXCEPT ![c] = @ - bytes[p] + size]
        /\ memAllocated \in [Context -> Int]
    BY <1>4, MemoryAssumption
    DEF ReallocBlock, Charge, MemoryInv, MemoryTypes, AccountInv, GetMemoryChunkContext, Given
  <2> HIDE DEF c
  <2>2. bytes' \in [Block -> Nat] /\ bytes'[b] = size /\ bytes[p] \in Int /\ size \in Int
    BY <2>1
  <2>3. Moves(c, {p}, {b}) /\ {p} \in SUBSET BlocksOf(c) /\ {b} \cap Given \subseteq {p}
    BY <2>1 DEF Moves, BlocksOf
  <2>4. memAllocated' \in [Context -> Int]
    BY <1>2, <2>1, <2>2
  <2>5. SumFunctionOnSet(bytes, {p}) = bytes[p] /\ SumFunctionOnSet(bytes', {b}) = size
    BY <2>2, SumOfOne
  <2>6. Counts(c, bytes[p], size)
    BY <1>1, <1>2, <2>1 DEF Counts
  <2>7. IsFiniteSet({b}) /\ IsFiniteSet(live')
    BY <1>1, FS_Singleton DEF AccountInv
  <2> QED
    BY <1>1, <1>2, <2>2, <2>3, <2>4, <2>5, <2>6, <2>7, MovesKeepAccount
<1> QED
  BY <1>3, <1>4, MemoryAssumption DEF repalloc

(* AllocSetReset and AllocSetDelete: the set of c gives back all blocks.   *)
LEMMA ReleaseKeepsAccount ==
  ASSUME LifecycleInv, MemoryInv, AccountInv, NEW c \in live, Release(BlocksOf(c), c),
         live' \subseteq live, malloced' \subseteq malloced, memAllocated' \in [Context -> Int],
         Counts(c, SumFunctionOnSet(bytes, BlocksOf(c)), 0)
  PROVE  AccountInv'
<1>1. c \in malloced /\ malloced \subseteq Context
  BY DEF LifecycleInv, TreeInv, TreeTypeOK, FreelistInv, FreelistsOK, Chained
<1>2. bytes' = [b \in Block |-> IF b \in BlocksOf(c) THEN 0 ELSE bytes[b]]
  BY DEF Release
<1>3. bytes' \in [Block -> Nat]
  BY <1>2 DEF AccountInv
<1>4. Moves(c, BlocksOf(c), {})
  BY DEF Release, Moves
<1>5. SumFunctionOnSet(bytes', {}) = 0
  BY SumOfNone
<1>6. IsFiniteSet({}) /\ IsFiniteSet(live')
  BY FS_EmptySet, FS_Subset DEF AccountInv
<1> QED
  BY <1>1, <1>3, <1>4, <1>5, <1>6, MovesKeepAccount

(* What the set of c has is counted in integers.                           *)
LEMMA BlocksSum ==
  ASSUME AccountInv, NEW c, c # NULL
  PROVE  IsFiniteSet(BlocksOf(c)) /\ SumFunctionOnSet(bytes, BlocksOf(c)) \in Int
<1>1. BlocksOf(c) \subseteq Given /\ BlocksOf(c) \subseteq Block
  BY DEF BlocksOf, Given
<1>2. IsFiniteSet(BlocksOf(c)) /\ Numbers(bytes, BlocksOf(c))
  BY <1>1, FS_Subset DEF AccountInv, Numbers
<1> QED
  BY <1>2, SumType

(* AllocSetReset *)
LEMMA ResetKeepsAccount ==
  ASSUME LifecycleInv, MemoryInv, AccountInv, ResetMemory
  PROVE  AccountInv'
<1> DEFINE c == Head(stack).ctx
           sum == SumFunctionOnSet(bytes, BlocksOf(c))
<1>1. c \in live
  BY CallingFacts DEF ResetMemory, FinishResetOnly, LifecycleInv
<1>2. /\ Release(BlocksOf(c), c) /\ live' = live /\ malloced' = malloced
      /\ memAllocated' = [memAllocated EXCEPT ![c] = @ - sum]
  BY DEF ResetMemory, FinishResetOnly, treeVars, freelistVars
<1> HIDE DEF c
<1>3. c \in Context /\ c # NULL /\ malloced \subseteq Context
  BY <1>1, ContextAssumption DEF LifecycleInv, TreeInv, TreeTypeOK, FreelistInv, FreelistsOK, Chained
<1>4. sum \in Int
  BY <1>3, BlocksSum
<1> HIDE DEF sum
<1>5. memAllocated' \in [Context -> Int] /\ Counts(c, sum, 0)
  BY <1>2, <1>3, <1>4 DEF AccountInv, Counts
<1> QED
  BY <1>1, <1>2, <1>5, ReleaseKeepsAccount DEF sum

(* AllocSetDelete: the headers of a full freelist go with it.              *)
LEMMA DeleteKeepsAccount ==
  ASSUME LifecycleInv, MemoryInv, AccountInv, DeleteMemory
  PROVE  AccountInv'
<1> DEFINE c == Head(stack).ctx
           sum == SumFunctionOnSet(bytes, BlocksOf(c))
<1>1. /\ FinishDeleteOnly /\ Release(FreedByDelete(c), c)
      /\ memAllocated' = [x \in Context |->
           IF x \notin malloced' THEN 0
           ELSE IF x = c THEN memAllocated[c] - SumFunctionOnSet(bytes, FreedByDelete(c))
           ELSE memAllocated[x]]
  BY DEF DeleteMemory
<1>2. c \in live /\ DeleteLeaf(c) /\ AllocSetDelete(c)
  BY <1>1, FinishDeleteIsDeleteLeaf
<1> HIDE DEF c
<1>3. live' = live \ {c} /\ malloced' \subseteq malloced
  BY <1>2 DEF DeleteLeaf, RemoveNode, AllocSetDelete, AddToFreelist, FreeContext
<1>4. c \in Context /\ c # NULL /\ malloced \subseteq Context
  BY <1>2, ContextAssumption DEF LifecycleInv, TreeInv, TreeTypeOK, FreelistInv, FreelistsOK, Chained
<1>5. BlocksOf(c) = FreedByDelete(c)
  BY <1>4 DEF FreedByDelete, BlocksOf, MemoryInv, NothingLost
<1>6. sum \in Int
  BY <1>4, BlocksSum
<1> HIDE DEF sum
<1>7. memAllocated' \in [Context -> Int] /\ Counts(c, sum, 0)
  <2>1. memAllocated' = [x \in Context |-> IF x \notin malloced' THEN 0
                                          ELSE IF x = c THEN memAllocated[c] - sum
                                          ELSE memAllocated[x]]
    BY <1>1, <1>5 DEF sum
  <2> QED
    BY <1>3, <1>4, <1>6, <2>1 DEF AccountInv, Counts
<1> QED
  BY <1>1, <1>2, <1>3, <1>5, <1>7, ReleaseKeepsAccount DEF sum

(* A new header counts its keeper, and leads to no blocks.                 *)
LEMMA CreationKeepsAccount ==
  ASSUME LifecycleInv, MemoryInv, AccountInv, NEW p \in Parents, NEW class \in Class,
         CreateFromFreelist(p, class) \/ CreateFromMalloc(p, class)
  PROVE  AccountInv'
<1>1. malloced \subseteq Context /\ live \subseteq malloced
  BY DEF LifecycleInv, TreeInv, TreeTypeOK, FreelistInv, FreelistsOK, Chained
<1>2. UNCHANGED <<aset, bytes>>
  BY DEF CreateFromFreelist, CreateFromMalloc
<1>3. PICK c \in Context : /\ Create(c, p) /\ malloced' = malloced \cup {c}
                           /\ memAllocated' = CountHeaders(memAllocated, c)
  <2>1. CASE CreateFromFreelist(p, class)
    <3> DEFINE c == first_free[class]
    <3>1. /\ Recycle(p, class) /\ CreateNode(c, p) /\ class >= 0 /\ c # NULL
          /\ malloced' = malloced /\ memAllocated' = CountHeaders(memAllocated, c)
      BY <2>1 DEF CreateFromFreelist, Recycle
    <3>2. PICK x \in Context : Create(x, p) /\ malloced' = malloced \cup {x}
      BY <3>1, CreationIsCreate
    <3>3. class \in {0, 1}
      BY <3>1, LifecycleAssumption DEF Class
    <3>4. c \in Chained(class) /\ c \in Context /\ c \in malloced /\ c \notin live
      BY <3>1, <3>3, ChainClosed DEF LifecycleInv, TreeInv, FreelistInv, FreelistsOK
    <3> QED
      BY <3>1, <3>4 DEF Create
  <2>2. CASE CreateFromMalloc(p, class)
    <3>1. /\ CreateFresh(p, class)
          /\ \E c \in malloced' \ malloced : memAllocated' = CountHeaders(memAllocated, c)
      BY <2>2 DEF CreateFromMalloc
    <3>2. PICK x \in Context : Create(x, p) /\ malloced' = malloced \cup {x}
      BY <3>1, CreationIsCreate
    <3> QED
      BY <3>1, <3>2
  <2> QED
    BY <2>1, <2>2
<1>4. c \notin live /\ live' = live \cup {c} /\ c # NULL
  BY <1>3, ContextAssumption DEF Create, CreateNode
<1>5. IsFiniteSet(live')
  BY <1>4, FS_AddElement DEF AccountInv
<1>6. Given' = Given /\ \A x : Space(x)' = Space(x)
  BY <1>2 DEF Given, Space, BlocksOf
<1>7. Space(c) = KeeperBytes
  <2>1. BlocksOf(c) = {}
    BY <1>4 DEF BlocksOf, MemoryInv, NothingLost
  <2> QED
    BY <2>1, SumOfNone, MemoryAssumption DEF Space
<1>8. memAllocated' = [x \in Context |-> IF x = c THEN KeeperBytes
                                         ELSE IF x \in malloced' THEN memAllocated[x] ELSE 0]
  BY <1>3 DEF CountHeaders
<1>9. memAllocated' \in [Context -> Int]
  BY <1>8, MemoryAssumption DEF AccountInv
<1>10. \A x \in malloced' : memAllocated'[x] = Space(x)
  BY <1>1, <1>3, <1>7, <1>8 DEF AccountInv
<1>11. \A x \in malloced' : memAllocated'[x] = Space(x)'
  BY <1>6, <1>10
<1>12. IsFiniteSet(Given') /\ bytes' \in [Block -> Nat]
  BY <1>2, <1>6 DEF AccountInv
<1> QED
  BY <1>5, <1>9, <1>11, <1>12 DEF AccountInv

(* The operations and steps that leave memory alone make no header either. *)
LEMMA QuietOpKeepsAccount ==
  ASSUME AccountInv, QuietClientOp \/ QuietStep, UNCHANGED memoryVars
  PROVE  AccountInv'
<1>1. ASSUME QuietClientOp
      PROVE  live' = live /\ malloced' = malloced
  BY <1>1
  DEF QuietClientOp, OnlyTheCalls, treeVars, contentVars, freelistVars,
      RegisterResetCallback, UnregisterResetCallback, MoveContext, SwitchTo, StartReset, StartResetOnly,
      StartResetChildren, StartDelete, StartDeleteChildren
<1>2. ASSUME QuietStep
      PROVE  live' = live /\ malloced' = malloced
  BY <1>2
  DEF QuietStep, OnlyTheCalls, treeVars, contentVars, freelistVars, RunCallback,
      CallbackReturns, ResetChildrenFirst, ResetSelf, ResetReturn, ResetDescendant,
      ResetNextDescendant, DeleteFirstChild, DescendToLeaf, DeleteLeafContext, DeleteContinues
<1>3. UNCHANGED <<live, malloced, aset, bytes, memAllocated>>
  BY <1>1, <1>2 DEF memoryVars
<1> QED
  BY <1>3, QuietKeepsAccount

(* MemoryContextInit. *)
LEMMA AccountInvInitially == MemoryInit => AccountInv
<1> SUFFICES ASSUME MemoryInit
             PROVE  AccountInv
  OBVIOUS
<1>1. /\ aset = [b \in Block |-> NULL] /\ bytes = [b \in Block |-> 0]
      /\ memAllocated = [c \in Context |-> IF c \in malloced THEN KeeperBytes ELSE 0]
      /\ live = {Top, Error} /\ malloced = {Top, Error}
  BY DEF MemoryInit, Init, TreeInit
<1>2. IsFiniteSet({Top, Error}) /\ IsFiniteSet({})
  <2>1. IsFiniteSet({Top}) /\ IsFiniteSet({Top} \cup {Error}) /\ IsFiniteSet({})
    BY FS_EmptySet, FS_AddElement, FS_Singleton
  <2>2. {Top} \cup {Error} = {Top, Error}
    OBVIOUS
  <2> QED
    BY <2>1, <2>2
<1>3. Given = {}
  BY <1>1 DEF Given
<1>4. \A c \in malloced : BlocksOf(c) = {}
  BY <1>1, ContextAssumption DEF BlocksOf
<1>5. \A c \in malloced : Space(c) = KeeperBytes
  BY <1>4, SumOfNone, MemoryAssumption DEF Space
<1>6. memAllocated \in [Context -> Int] /\ \A c \in malloced : memAllocated[c] = KeeperBytes
  BY <1>1, MemoryAssumption, ContextAssumption
<1> QED
  BY <1>1, <1>2, <1>3, <1>5, <1>6 DEF AccountInv

(* Every step. *)
LEMMA AccountInvStep ==
  ASSUME LifecycleInv, MemoryInv, AccountInv, [MemoryNext]_allVars
  PROVE  AccountInv'
<1>1. CASE UNCHANGED allVars
  BY <1>1, QuietKeepsAccount DEF allVars, vars, treeVars, freelistVars, memoryVars
<1> QED
  BY <1>1, AllocKeepsAccount, FreeKeepsAccount, ReallocKeepsAccount, CreationKeepsAccount,
     ResetKeepsAccount, DeleteKeepsAccount, QuietOpKeepsAccount
  DEF MemoryNext

--------------------------------------------------------------------------------
(***************************************************************************)
(* What is given to the contexts in S: a keeper for each, and the blocks   *)
(* that lead to one of them.                                               *)
(***************************************************************************)
LEMMA SpacesAddUp ==
  ASSUME AccountInv, NEW S \in SUBSET live, NULL \notin live,
         NEW space, \A d \in S : space[d] = Space(d)
  PROVE  SumFunctionOnSet(space, S) = Cardinality(S) * KeeperBytes
           + SumFunctionOnSet(bytes, {b \in Block : aset[b] \in S})
<1> DEFINE Of(D) == {b \in Block : aset[b] \in D}
           Q == {D \in SUBSET S :
                   SumFunctionOnSet(space, D) = Cardinality(D) * KeeperBytes
                                                  + SumFunctionOnSet(bytes, Of(D))}
<1>1. /\ IsFiniteSet(S) /\ KeeperBytes \in Int
      /\ \A d \in S : space[d] \in Int /\ space[d] = Space(d) /\ d # NULL
  <2>1. \A d \in S : Space(d) \in Int
    BY BlocksSum, MemoryAssumption DEF Space
  <2> QED
    BY <2>1, FS_Subset, MemoryAssumption DEF AccountInv
<1>2. \A D \in SUBSET S : IsFiniteSet(Of(D)) /\ Numbers(bytes, Of(D))
  <2> SUFFICES ASSUME NEW D \in SUBSET S
               PROVE  IsFiniteSet(Of(D)) /\ Numbers(bytes, Of(D))
    OBVIOUS
  <2>1. Of(D) \subseteq Given
    BY DEF Given
  <2> QED
    BY <2>1, FS_Subset DEF AccountInv, Numbers
<1>3. {} \in Q
  <2>1. Of({}) = {} /\ Cardinality({}) = 0
    BY FS_EmptySet
  <2>2. SumFunctionOnSet(space, {}) = 0 /\ SumFunctionOnSet(bytes, {}) = 0
    BY SumOfNone
  <2> HIDE DEF Of
  <2>3. 0 * KeeperBytes = 0
    BY <1>1
  <2>4. SumFunctionOnSet(space, {}) = Cardinality({}) * KeeperBytes + SumFunctionOnSet(bytes, Of({}))
    BY <2>1, <2>2, <2>3
  <2> QED
    BY <2>4
<1>4. ASSUME NEW D \in SUBSET S, NEW d \in S, D \in Q, d \notin D
      PROVE  D \cup {d} \in Q
  <2>1. IsFiniteSet(D) /\ Numbers(space, D)
    BY <1>1, FS_Subset DEF Numbers
  <2>2. SumFunctionOnSet(space, D \cup {d}) = space[d] + SumFunctionOnSet(space, D)
    BY <1>1, <1>4, <2>1, SumWith
  <2>3. Cardinality(D) \in Nat /\ Cardinality(D \cup {d}) = Cardinality(D) + 1
    BY <1>4, <2>1, FS_CardinalityType, FS_AddElement
  <2>4. /\ Of(D \cup {d}) = Of(D) \cup BlocksOf(d) /\ Of(D) \cap BlocksOf(d) = {}
        /\ D \cup {d} \in SUBSET S
    BY <1>4 DEF BlocksOf
  <2>5. Numbers(bytes, Of(D) \cup BlocksOf(d)) /\ IsFiniteSet(Of(D)) /\ Numbers(bytes, Of(D))
    BY <1>2, <2>4
  <2>6. IsFiniteSet(BlocksOf(d)) /\ SumFunctionOnSet(bytes, BlocksOf(d)) \in Int
    BY <1>1, BlocksSum
  <2> HIDE DEF Of
  <2>7. SumFunctionOnSet(bytes, Of(D \cup {d})) =
          SumFunctionOnSet(bytes, Of(D)) + SumFunctionOnSet(bytes, BlocksOf(d))
    BY <2>4, <2>5, <2>6, SumOfParts
  <2>8. SumFunctionOnSet(space, D) \in Int /\ SumFunctionOnSet(bytes, Of(D)) \in Int
    BY <2>1, <2>5, SumType
  <2>9. space[d] = KeeperBytes + SumFunctionOnSet(bytes, BlocksOf(d))
    BY <1>1 DEF Space
  <2>10. (Cardinality(D) + 1) * KeeperBytes = Cardinality(D) * KeeperBytes + KeeperBytes
    BY <1>1, <2>3
  <2>11. Cardinality(D) * KeeperBytes \in Int
    BY <1>1, <2>3
  <2>12. SumFunctionOnSet(space, D) = Cardinality(D) * KeeperBytes + SumFunctionOnSet(bytes, Of(D))
    BY <1>4
  <2>13. SumFunctionOnSet(space, D \cup {d}) =
           Cardinality(D \cup {d}) * KeeperBytes + SumFunctionOnSet(bytes, Of(D \cup {d}))
    BY <1>1, <2>2, <2>3, <2>6, <2>7, <2>8, <2>9, <2>10, <2>11, <2>12
  <2> QED
    BY <2>4, <2>13
<1>5. Grows(Q, S)
  <2> HIDE DEF Q
  <2> QED
    BY <1>3, <1>4 DEF Grows
<1>6. S \in Q
  <2> HIDE DEF Q
  <2> QED
    BY <1>1, <1>5, FiniteAscend
<1> QED
  BY <1>6

(* What the walks over a subtree report is what is given to its contexts.  *)
LEMMA WalksReportWhatIsGiven ==
  ASSUME LifecycleInv, AccountInv, NEW c \in live
  PROVE  LET given == Cardinality(Subtree(c)) * KeeperBytes
                        + SumFunctionOnSet(bytes, {b \in Block : aset[b] \in Subtree(c)})
         IN  MemoryContextMemAllocated(c, TRUE) = given /\ MemoryContextMemConsumed(c) = given
<1> DEFINE S == Subtree(c)
           space == [d \in Context |-> Space(d)]
<1>1. /\ TreeInv /\ S \in SUBSET live /\ live \subseteq malloced /\ malloced \subseteq Context
      /\ NULL \notin live
  BY SubtreeLive, ContextAssumption
  DEF LifecycleInv, TreeInv, TreeTypeOK, FreelistInv, FreelistsOK, Chained
<1>2. \A d \in S : /\ memAllocated[d] = Space(d) /\ memAllocated[d] \in Int
                   /\ space[d] = Space(d)
  BY <1>1 DEF AccountInv
<1>3. Numbers(memAllocated, S) /\ Numbers(space, S)
  BY <1>2 DEF Numbers
<1> HIDE DEF space
<1>4. SumOverTree(memAllocated, c) = SumFunctionOnSet(memAllocated, S)
  BY <1>1, <1>3, SumOverTreeIsSum DEF AccountInv
<1>5. SumOverTree(space, c) = SumFunctionOnSet(space, S)
  BY <1>1, <1>3, SumOverTreeIsSum DEF AccountInv
<1>6. SumFunctionOnSet(memAllocated, S) = Cardinality(S) * KeeperBytes
        + SumFunctionOnSet(bytes, {b \in Block : aset[b] \in S})
  BY <1>1, <1>2, SpacesAddUp
<1>7. SumFunctionOnSet(space, S) = Cardinality(S) * KeeperBytes
        + SumFunctionOnSet(bytes, {b \in Block : aset[b] \in S})
  BY <1>1, <1>2, SpacesAddUp
<1> QED
  BY <1>4, <1>5, <1>6, <1>7 DEF MemoryContextMemAllocated, MemoryContextMemConsumed, space

(* The invariants give TreeAccounts. *)
LEMMA AccountsOfTree ==
  ASSUME LifecycleInv, MemoryInv, AccountInv
  PROVE  TreeAccounts
<1>1. /\ TreeInv /\ live \subseteq malloced /\ malloced \subseteq Context
      /\ NULL \notin malloced /\ KeeperBytes \in Int
  BY ContextAssumption, MemoryAssumption
  DEF LifecycleInv, TreeInv, TreeTypeOK, FreelistInv, FreelistsOK, Chained
<1>2. ASSUME NEW c \in malloced \ live
      PROVE  memAllocated[c] = KeeperBytes
  <2>1. BlocksOf(c) = {}
    BY <1>1 DEF BlocksOf, MemoryInv, NothingLost
  <2> QED
    BY <1>1, <2>1, SumOfNone DEF AccountInv, Space
<1>3. ASSUME NEW c \in live, MemoryContextIsEmpty(c)
      PROVE  Cardinality(Subtree(c)) * KeeperBytes
               + SumFunctionOnSet(bytes, {b \in Block : aset[b] \in Subtree(c)}) = KeeperBytes
  <2>1. Subtree(c) = {c} /\ isReset[c]
    BY <1>1, <1>3, LeafSubtree DEF MemoryContextIsEmpty
  <2>2. {b \in Block : aset[b] \in Subtree(c)} = {}
    BY <1>1, <2>1 DEF MemoryInv, NothingLost
  <2>3. Cardinality(Subtree(c)) = 1
    BY <2>1, FS_Singleton
  <2>4. SumFunctionOnSet(bytes, {b \in Block : aset[b] \in Subtree(c)}) = 0
    BY <2>2, SumOfNone
  <2> QED
    BY <1>1, <2>3, <2>4
<1> QED
  BY <1>2, <1>3, WalksReportWhatIsGiven DEF TreeAccounts

--------------------------------------------------------------------------------
(* The account of every context is right in every state. *)
LEMMA AccountInvariant ==
  ASSUME "dying" \in Discipline
  PROVE  MemorySpec => []AccountInv
<1>1. MemoryInit => AccountInv
  BY AccountInvInitially
<1>2. LifecycleInv /\ MemoryInv /\ AccountInv /\ [MemoryNext]_allVars => AccountInv'
  BY AccountInvStep
<1> QED
  BY <1>1, <1>2, MemoryImplementsLifecycle, MemoryInvariant, PTL DEF MemorySpec

(***************************************************************************)
(* What MemoryContextMemAllocated and MemoryContextMemConsumed report of a *)
(* subtree, also in the middle of a reset or a deletion, is what malloc    *)
(* gave to the contexts in it; empty contexts and headers on a freelist    *)
(* count their keeper.                                                     *)
(***************************************************************************)
THEOREM TreeIsAccounted ==
  ASSUME "dying" \in Discipline
  PROVE  MemorySpec => []TreeAccounts
<1>1. LifecycleInv /\ MemoryInv /\ AccountInv => TreeAccounts
  BY AccountsOfTree
<1> QED
  BY <1>1, MemoryImplementsLifecycle, MemoryInvariant, AccountInvariant, PTL

(***************************************************************************)
(* MemoryContextTraverseNext, which keeps no stack and no mark on the      *)
(* nodes, takes its callers to every descendant once, to nothing else, and *)
(* to all below a context before what comes after it; the loops end.       *)
(***************************************************************************)
THEOREM WalkIsPreorder ==
  ASSUME "dying" \in Discipline
  PROVE  MemorySpec => []TraversalVisitsAll
<1>1. LifecycleInv /\ AccountInv => TraversalVisitsAll
  BY WalksVisitAll DEF LifecycleInv, AccountInv
<1> QED
  BY <1>1, MemoryImplementsLifecycle, AccountInvariant, PTL

================================================================================
