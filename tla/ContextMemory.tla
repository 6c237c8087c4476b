----------------------------- MODULE ContextMemory -----------------------------
(***************************************************************************)
(* Contexts and the memory they hold: ContextLifecycle composed with the   *)
(* allocation sets below it.  A set is seen from outside, as the blocks    *)
(* that malloc gave it; what AllocSet says of the inside of one set is not *)
(* repeated.  The first block of a context, its keeper, is part of its     *)
(* header and named like it; the others are in Block.  At most one chunk   *)
(* of each block is in a client's hands and stands for all of them, so a   *)
(* pointer is named by the block it points into.                           *)
(***************************************************************************)
EXTENDS ContextLifecycle, Functions

CONSTANTS
  Block,        \* where malloc can put a block
  KeeperBytes,  \* the size of a header with its keeper block
  BlockBytes,   \* the sizes of blocks that chunks are cut from
  LargeBytes,   \* the sizes of blocks with one chunk
  MaxInHand     \* bound: the pointers that clients hold at a time

ASSUME MemoryAssumption ==
  /\ Block \cap (Context \cup {NULL}) = {}
  /\ KeeperBytes \in Nat
  /\ BlockBytes \subseteq Nat \ {0} /\ LargeBytes \subseteq Nat \ {0}
  /\ MaxInHand \in Nat

VARIABLES
  aset,         \* block->aset, NULL for a block that malloc has
  bytes,        \* block->endptr - block, 0 for a block that malloc has
  external,     \* the blocks with one chunk, which is external
  memAllocated, \* header->mem_allocated
  askedOf       \* ghost: the context the client named when it got the chunk

memoryVars == <<aset, bytes, external, memAllocated, askedOf>>
allVars == <<vars, memoryVars>>

Pointers == Block \cup Context
InHand == {p \in Pointers : askedOf[p] # NULL}

MemoryInit ==
  /\ Init
  /\ aset = [b \in Block |-> NULL]
  /\ bytes = [b \in Block |-> 0]
  /\ external = {}
  /\ memAllocated = [c \in Context |-> IF c \in malloced THEN KeeperBytes ELSE 0]
  /\ askedOf = [p \in Pointers |-> NULL]

--------------------------------------------------------------------------------
(* GetMemoryChunkContext: from the chunk to its block, and block->aset. *)
GetMemoryChunkContext(p) == IF p \in Context THEN p ELSE aset[p]

(***************************************************************************)
(* Where the set of c finds a chunk p to hand out.                         *)
(***************************************************************************)

(* In a block that the set has: cut from it, or from a freelist. *)
FromOwnBlock(c, p) ==
  /\ p \notin InHand \cup external
  /\ GetMemoryChunkContext(p) = c
  /\ UNCHANGED <<aset, bytes, external, memAllocated>>

(* In a block from malloc: one to cut chunks from, or (large) one for this *)
(* chunk alone.                                                            *)
FromMalloc(c, p, size, large) ==
  /\ p \in Block /\ aset[p] = NULL
  /\ aset' = [aset EXCEPT ![p] = c]
  /\ bytes' = [bytes EXCEPT ![p] = size]
  /\ external' = IF large THEN external \cup {p} ELSE external
  /\ memAllocated' = [memAllocated EXCEPT ![c] = @ + size]

Obtain(c, p) ==
  \/ FromOwnBlock(c, p)
  \/ \E size \in BlockBytes : FromMalloc(c, p, size, FALSE)
  \/ \E size \in LargeBytes : FromMalloc(c, p, size, TRUE)

(* MemoryContextAlloc, palloc (where c is CurrentMemoryContext) and their  *)
(* variants.                                                               *)
AllocIn(c) ==
  /\ Alloc(c)
  /\ used'[c]
  /\ Cardinality(InHand) < MaxInHand
  /\ \E p \in Pointers :
       /\ Obtain(c, p)
       /\ askedOf' = [askedOf EXCEPT ![p] = c]

(* With MCXT_ALLOC_NO_OOM, a request that malloc has no block for. *)
AllocFails(c) ==
  /\ Alloc(c)
  /\ used' = used
  /\ UNCHANGED memoryVars

(***************************************************************************)
(* pfree and repalloc are given a pointer and no context.  What changes is *)
(* the set that the chunk leads to, whatever CurrentMemoryContext is.      *)
(***************************************************************************)
LifecycleUnchanged == UNCHANGED <<treeVars, contentVars, freelistVars, current, stack>>

ChargeCurrent(p, less, more) ==   \* mutant: CurrentMemoryContext
  [memAllocated EXCEPT ![current] = @ - less + more]

Charge(p, less, more) ==
  [memAllocated EXCEPT ![GetMemoryChunkContext(p)] = @ - less + more]

FreeBlock(p) ==
  /\ p \in external
  /\ aset' = [aset EXCEPT ![p] = NULL]
  /\ bytes' = [bytes EXCEPT ![p] = 0]
  /\ external' = external \ {p}
  /\ memAllocated' = Charge(p, bytes[p], 0)

FreeChunk(p) ==
  /\ p \notin external
  /\ UNCHANGED <<aset, bytes, external, memAllocated>>

pfree(p) ==
  /\ ClientRuns /\ p \in InHand
  /\ FreeBlock(p) \/ FreeChunk(p)
  /\ askedOf' = [askedOf EXCEPT ![p] = NULL]
  /\ LifecycleUnchanged

(* An external chunk: realloc moves its block to b, or leaves it there. *)
ReallocBlock(p, b, size) ==
  /\ p \in external
  /\ b = p \/ (b \in Block /\ aset[b] = NULL)
  /\ aset' = [aset EXCEPT ![p] = NULL, ![b] = aset[p]]
  /\ bytes' = [bytes EXCEPT ![p] = 0, ![b] = size]
  /\ external' = (external \ {p}) \cup {b}
  /\ memAllocated' = Charge(p, bytes[p], size)
  /\ askedOf' = [askedOf EXCEPT ![p] = NULL, ![b] = askedOf[p]]

(* Another chunk that is too small: a new one from the set it lies in,     *)
(* after which it is freed.                                                *)
OwnSetOfCurrent(p) == current   \* mutant: CurrentMemoryContext

OwnSet(p) == GetMemoryChunkContext(p)

GrowChunk(p, q) ==
  /\ p \notin external
  /\ Obtain(OwnSet(p), q)
  /\ askedOf' = [askedOf EXCEPT ![p] = NULL, ![q] = askedOf[p]]

repalloc(p) ==
  /\ ClientRuns /\ p \in InHand
  /\ \/ \E b \in Block, size \in LargeBytes : ReallocBlock(p, b, size)
     \/ \E q \in Pointers : GrowChunk(p, q)
  /\ LifecycleUnchanged

--------------------------------------------------------------------------------
(* A new context has its header and keeper, counted; one from a freelist   *)
(* is given its count again.  A header that malloc has back counts nothing.*)
CountHeaders(mem, c) ==
  [x \in Context |-> IF x = c THEN KeeperBytes
                     ELSE IF x \in malloced' THEN mem[x] ELSE 0]

CreateFromFreelist(p, class) ==
  /\ Recycle(p, class)
  /\ memAllocated' = CountHeaders(memAllocated, first_free[class])
  /\ UNCHANGED <<aset, bytes, external, askedOf>>

CreateFromMalloc(p, class) ==
  /\ CreateFresh(p, class)
  /\ \E c \in malloced' \ malloced : memAllocated' = CountHeaders(memAllocated, c)
  /\ UNCHANGED <<aset, bytes, external, askedOf>>

(***************************************************************************)
(* The end of a reset or a deletion: the blocks S go back to malloc, and   *)
(* clients forget what they allocated in c, by the rule of the library.    *)
(***************************************************************************)
BlocksOf(c) == {b \in Block : aset[b] = c}

Release(S, c) ==
  /\ aset' = [b \in Block |-> IF b \in S THEN NULL ELSE aset[b]]
  /\ bytes' = [b \in Block |-> IF b \in S THEN 0 ELSE bytes[b]]
  /\ external' = external \ S
  /\ askedOf' = [p \in Pointers |-> IF askedOf[p] = c THEN NULL ELSE askedOf[p]]

(* AllocSetReset *)
ResetMemory ==
  LET c == Head(stack).ctx IN
  /\ FinishResetOnly
  /\ Release(BlocksOf(c), c)
  /\ memAllocated' = [memAllocated EXCEPT ![c] = @ - SumFunctionOnSet(bytes, BlocksOf(c))]

(* AllocSetDelete: a context of a freelist class is reset unless it says   *)
(* that it is; the headers that leave a full freelist go back alone.       *)
FreedByDeleteUnread(c) ==   \* mutant: a recycled context keeps its blocks
  IF freeListIndex[c] >= 0 THEN {} ELSE BlocksOf(c)

FreedByDelete(c) ==
  IF freeListIndex[c] >= 0 /\ isReset[c] THEN {} ELSE BlocksOf(c)

DeleteMemory ==
  LET c == Head(stack).ctx
      freed == FreedByDelete(c)
  IN
  /\ FinishDeleteOnly
  /\ Release(freed, c)
  /\ memAllocated' =
       [x \in Context |->
          IF x \notin malloced' THEN 0
          ELSE IF x = c THEN memAllocated[c] - SumFunctionOnSet(bytes, freed)
          ELSE memAllocated[x]]

--------------------------------------------------------------------------------
MemoryNext ==
  \/ \E c \in live \cap Subject : AllocIn(c)
  \/ \E c \in live \cap Subject : AllocFails(c)
  \/ \E p \in InHand : pfree(p)
  \/ \E p \in InHand : repalloc(p)
  \/ \E p \in Parents, class \in Class : CreateFromFreelist(p, class)
  \/ \E p \in Parents, class \in Class : CreateFromMalloc(p, class)
  \/ ResetMemory
  \/ DeleteMemory
  \/ (QuietClientOp \/ QuietStep) /\ UNCHANGED memoryVars

MemorySpec == MemoryInit /\ [][MemoryNext]_allVars

--------------------------------------------------------------------------------
(***************************************************************************)
(* What reads the memory of a subtree.                                     *)
(***************************************************************************)
MemoryContextIsEmpty(c) == firstchild[c] = NULL /\ isReset[c]

(* The loop over the descendants of c, adding up the amounts of all.  It   *)
(* stays below c (TraverseNext).                                           *)
SumOverTree(amount, c) ==
  LET Rest[curr \in Below(c) \cup {NULL}] ==
        IF curr = NULL THEN 0 ELSE amount[curr] + Rest[TraverseNext(curr, c)]
  IN  amount[c] + Rest[firstchild[c]]

MemoryContextMemAllocated(c, recurse) ==
  IF recurse THEN SumOverTree(memAllocated, c) ELSE memAllocated[c]

(* What AllocSetStats counts for a context, and the totals of a subtree.   *)
Space(c) == KeeperBytes + SumFunctionOnSet(bytes, BlocksOf(c))

MemoryContextMemConsumed(c) == SumOverTree([d \in Context |-> Space(d)], c)

--------------------------------------------------------------------------------
(***************************************************************************)
(* A pointer that a client holds leads, through its chunk and block, to    *)
(* the context the client asked for it, and to no other, after any number  *)
(* of reallocs made while another context was current; that context is     *)
(* live and does not claim to be empty, so its next reset will not be      *)
(* skipped.  Memory that a client still may use is never given back.       *)
(***************************************************************************)
PointersSound ==
  \A p \in InHand :
    LET c == GetMemoryChunkContext(p) IN
    c = askedOf[p] /\ c \in live /\ ~isReset[c]

(***************************************************************************)
(* Every block that malloc gave belongs to a live context with work to do  *)
(* at its next reset, so that it will be given back; headers on a freelist *)
(* have none, and may be discarded alone.  A block of one chunk goes with  *)
(* that chunk.                                                             *)
(***************************************************************************)
NothingLost ==
  /\ \A b \in Block : aset[b] # NULL => aset[b] \in live /\ ~isReset[aset[b]]
  /\ external \subseteq InHand

(***************************************************************************)
(* What MemoryContextMemAllocated and MemoryContextMemConsumed report of a *)
(* subtree, also from a callback in the middle of a reset or a deletion,   *)
(* is what malloc gave to the contexts in it: no block is counted for a    *)
(* context that does not have it, or twice, or not at all.  A context that *)
(* MemoryContextIsEmpty calls empty, and a header on a freelist, counts    *)
(* only its keeper.                                                        *)
(***************************************************************************)
TreeAccounts ==
  /\ \A c \in live :
       LET owners == Subtree(c)
           given == Cardinality(owners) * KeeperBytes
                      + SumFunctionOnSet(bytes, {b \in Block : aset[b] \in owners})
       IN  /\ MemoryContextMemAllocated(c, TRUE) = given
           /\ MemoryContextMemConsumed(c) = given
           /\ MemoryContextIsEmpty(c) => given = KeeperBytes
  /\ \A c \in malloced \ live : memAllocated[c] = KeeperBytes

================================================================================
