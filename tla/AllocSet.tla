-------------------------------- MODULE AllocSet -------------------------------
(***************************************************************************)
(* One allocation set (aset.c): the blocks it has from malloc, the chunks  *)
(* the blocks are cut into, and the freelists that thread through the      *)
(* memory of free chunks.  An address is a block and an offset in it.      *)
(***************************************************************************)
EXTENDS AllocSizes, FiniteSets, Functions

CONSTANTS
  NULL,            \* the null pointer
  Block,           \* where a block can be
  Keeper,          \* the block that shares its malloc chunk with the header
  Value,           \* what clients store in a chunk
  Size,            \* the request sizes of clients
  MinContextSize,  \* the sizes the context is created with
  InitBlockSize,
  MaxBlockSize,    \* ... of which the last may differ when it is recycled
  MaxInUse         \* bound: chunks that clients hold at a time

ASSUME AllocSetAssumption ==
  /\ IsFiniteSet(Block) /\ Keeper \in Block
  /\ NULL \notin Block \cup (Block \X Nat) \cup [from : Block \X Nat, to : Block \X Nat]
  /\ InitBlockSize \in Nat /\ InitBlockSize >= 1024
  /\ MaxBlockSize \in SUBSET Nat /\ \A max \in MaxBlockSize : max >= InitBlockSize
  /\ MinContextSize \in Nat
  /\ Size \subseteq Nat /\ MaxInUse \in Nat

VARIABLES
  blocks,        \* set->blocks, the head of the block list
  next, prev,    \* block->next, block->prev
  freeptr,       \* block->freeptr, as an offset in the block
  endptr,        \* block->endptr, likewise
  owned,         \* the blocks that malloc gave this set
  hdr,           \* the headers of the chunks carved so far
  data,          \* the first bytes of each chunk: a value, or a freelist link
  freelist,      \* set->freelist
  nextBlockSize, \* set->nextBlockSize
  maxBlockSize,  \* set->maxBlockSize
  chunkLimit,    \* set->allocChunkLimit
  memAllocated,  \* header->mem_allocated
  inUse,         \* the chunks that clients hold
  moving         \* AllocSetRealloc's old and new chunk before the copy

listVars == <<blocks, next, prev, owned, memAllocated>>
spaceVars == <<freeptr, endptr>>
chunkVars == <<hdr, data, freelist>>
paramVars == <<nextBlockSize, maxBlockSize, chunkLimit>>
vars == <<listVars, spaceVars, chunkVars, paramVars, inUse, moving>>

External == -1     \* the header of a chunk with a block of its own

KeeperSize == FirstBlockSize(MinContextSize, InitBlockSize) - ALLOC_CONTEXTSZ

(* Whether a deleted set goes to context_freelists[]: it was created with  *)
(* the default or the small parameters.                                    *)
Recyclable == MinContextSize = 0 /\ InitBlockSize \in {1024, 8192}

With(f, c, x) == [p \in DOMAIN f \cup {c} |-> IF p = c THEN x ELSE f[p]]
Without(f, c) == Restrict(f, DOMAIN f \ {c})

Room(b) == endptr[b] - freeptr[b]
Start(b) == <<b, ALLOC_BLOCKHDRSZ>>
Footprint(i) == ClassSize(i) + ALLOC_CHUNKHDRSZ
Chunks == DOMAIN hdr
IsExternal(c) == hdr[c] = External

--------------------------------------------------------------------------------
(* What AllocSetContextCreateInternal leaves: the keeper block is the list *)
(* of blocks, and it is empty.                                             *)
Init ==
  /\ blocks = Keeper
  /\ next = [b \in Block |-> NULL]
  /\ prev = [b \in Block |-> NULL]
  /\ freeptr = [b \in Block |-> ALLOC_BLOCKHDRSZ]
  /\ endptr = [b \in Block |-> IF b = Keeper THEN KeeperSize ELSE ALLOC_BLOCKHDRSZ]
  /\ owned = {Keeper}
  /\ hdr = [c \in {} |-> External]
  /\ data = [c \in {} |-> NULL]
  /\ freelist = [i \in FreeIndexes |-> NULL]
  /\ nextBlockSize = InitBlockSize
  /\ maxBlockSize \in MaxBlockSize
  /\ chunkLimit = ChunkLimit(maxBlockSize)
  /\ memAllocated = ALLOC_CONTEXTSZ + KeeperSize
  /\ inUse = {}
  /\ moving = NULL

--------------------------------------------------------------------------------
(***************************************************************************)
(* The ways AllocSetAlloc gets a chunk c for a request of a client that    *)
(* will store v in it.                                                     *)
(***************************************************************************)

(* The first chunk of the freelist: the link in it is the next head. *)
FromFreelistKept(size, c, v) ==   \* mutant: the chunk stays on the list
  LET i == FreeIndex(size) IN
  /\ size <= chunkLimit
  /\ freelist[i] # NULL
  /\ c = freelist[i]
  /\ data' = [data EXCEPT ![c] = v]
  /\ UNCHANGED <<listVars, spaceVars, hdr, freelist, paramVars>>

FromFreelist(size, c, v) ==
  LET i == FreeIndex(size) IN
  /\ size <= chunkLimit
  /\ freelist[i] # NULL
  /\ c = freelist[i]
  /\ freelist' = [freelist EXCEPT ![i] = data[c]]
  /\ data' = [data EXCEPT ![c] = v]
  /\ UNCHANGED <<listVars, spaceVars, hdr, paramVars>>

(* AllocSetAllocChunkFromBlock, at the free pointer of the active block. *)
FromActiveBlock(size, c, v) ==
  LET i == FreeIndex(size) IN
  /\ size <= chunkLimit
  /\ freelist[i] = NULL
  /\ Room(blocks) >= Footprint(i)
  /\ c = <<blocks, freeptr[blocks]>>
  /\ freeptr' = [freeptr EXCEPT ![blocks] = @ + Footprint(i)]
  /\ hdr' = With(hdr, c, i)
  /\ data' = With(data, c, v)
  /\ UNCHANGED <<listVars, endptr, freelist, paramVars>>

NeedsNewBlock(size) ==
  /\ size <= chunkLimit
  /\ freelist[FreeIndex(size)] = NULL
  /\ Room(blocks) < Footprint(FreeIndex(size))

(***************************************************************************)
(* AllocSetAllocFromNewBlock first cuts what is left of the active block   *)
(* into free chunks, each the largest that fits, so no class occurs twice. *)
(***************************************************************************)
CarvedClasses == Carved[Room(blocks)]

CarvedChunk(n) == <<blocks, freeptr[blocks] + CarvedSpace(CarvedClasses)[n - 1]>>

CarvedChunks == {CarvedChunk(n) : n \in DOMAIN CarvedClasses}

(* The class of a carved chunk, and the carved chunk of a class. *)
CarvedClass(c) == CHOOSE i \in FreeIndexes :
                    \E n \in DOMAIN CarvedClasses : CarvedClasses[n] = i /\ CarvedChunk(n) = c
CarvedOf(i) == {c \in CarvedChunks : CarvedClass(c) = i}

CarvedHdr ==
  [c \in Chunks \cup CarvedChunks |-> IF c \in CarvedChunks THEN CarvedClass(c) ELSE hdr[c]]

CarvedData ==   \* the link in a carved chunk is the former head of its freelist
  [c \in Chunks \cup CarvedChunks |->
     IF c \in CarvedChunks THEN freelist[CarvedClass(c)] ELSE data[c]]

CarvedFreelistOverwritten ==   \* mutant: a class that has free chunks loses them
  [i \in FreeIndexes |-> IF CarvedOf(i) = {} THEN NULL ELSE CHOOSE c \in CarvedOf(i) : TRUE]

CarvedFreelist ==
  [i \in FreeIndexes |->
     IF CarvedOf(i) = {} THEN freelist[i] ELSE CHOOSE c \in CarvedOf(i) : TRUE]

CarvedFreeptr == freeptr[blocks] + CarvedSpace(CarvedClasses)[Len(CarvedClasses)]

NextBlockSizeUncapped(size, max) == 2 * size   \* mutant: no limit

NextBlockSize(size, max) == Smaller(2 * size, max)

(* malloc gave a new block b, which becomes the active one. *)
FromNewBlock(size, c, v) ==
  LET i == FreeIndex(size) IN
  /\ NeedsNewBlock(size)
  /\ freelist' = CarvedFreelist
  /\ nextBlockSize' = NextBlockSize(nextBlockSize, maxBlockSize)
  /\ \E b \in Block \ owned, blksize \in Range(RetriedSizes(BlockSize(nextBlockSize, i), RequiredSize(i))) :
       /\ c = Start(b)
       /\ hdr' = With(CarvedHdr, c, i)
       /\ data' = With(CarvedData, c, v)
       /\ freeptr' = [freeptr EXCEPT ![blocks] = CarvedFreeptr,
                                     ![b] = ALLOC_BLOCKHDRSZ + Footprint(i)]
       /\ endptr' = [endptr EXCEPT ![b] = blksize]
       /\ memAllocated' = memAllocated + blksize
       /\ prev' = [prev EXCEPT ![b] = NULL, ![blocks] = b]
       /\ next' = [next EXCEPT ![b] = blocks]
       /\ blocks' = b
       /\ owned' = owned \cup {b}
  /\ UNCHANGED <<maxBlockSize, chunkLimit>>

(* malloc gave none: the block stays carved and the next size doubled. *)
NewBlockFails(size) ==
  /\ NeedsNewBlock(size)
  /\ freelist' = CarvedFreelist
  /\ hdr' = CarvedHdr
  /\ data' = CarvedData
  /\ freeptr' = [freeptr EXCEPT ![blocks] = CarvedFreeptr]
  /\ nextBlockSize' = NextBlockSize(nextBlockSize, maxBlockSize)
  /\ UNCHANGED <<listVars, endptr, maxBlockSize, chunkLimit>>

(* AllocSetAllocLarge: a block of its own, second in the list.  `next` and *)
(* `prev` as they become when b is put under the active block.             *)
LinkUnderForgotten(b, f) ==   \* mutant: the former second block is not linked back
  [f EXCEPT ![b] = blocks]

LinkUnder(b, f) ==
  [x \in Block |-> IF x = b THEN blocks
                   ELSE IF x = next[blocks] THEN b
                   ELSE f[x]]

AllocLarge(size, c, v) ==
  /\ size > chunkLimit
  /\ \E b \in Block \ owned :
       /\ c = Start(b)
       /\ hdr' = With(hdr, c, External)
       /\ data' = With(data, c, v)
       /\ freeptr' = [freeptr EXCEPT ![b] = LargeBlockSize(size)]
       /\ endptr' = [endptr EXCEPT ![b] = LargeBlockSize(size)]
       /\ memAllocated' = memAllocated + LargeBlockSize(size)
       /\ prev' = LinkUnder(b, prev)
       /\ next' = [next EXCEPT ![b] = next[blocks], ![blocks] = b]
       /\ owned' = owned \cup {b}
  /\ UNCHANGED <<blocks, freelist, paramVars>>

(* AllocSetAlloc *)
Obtain(size, c, v) ==
  \/ FromFreelist(size, c, v)
  \/ FromActiveBlock(size, c, v)
  \/ FromNewBlock(size, c, v)
  \/ AllocLarge(size, c, v)

(* Where the chunk for a request can be. *)
Candidates ==
  (Range(freelist) \ {NULL}) \cup {<<blocks, freeptr[blocks]>>}
    \cup {Start(b) : b \in Block \ owned}

(***************************************************************************)
(* The operations of clients.  `moving` is NULL except inside a realloc.   *)
(***************************************************************************)
Alloc(size, v) ==
  /\ moving = NULL
  /\ Cardinality(inUse) < MaxInUse
  /\ \E c \in Candidates :
       /\ Obtain(size, c, v)
       /\ inUse' = inUse \cup {c}
  /\ UNCHANGED moving

(* With MCXT_ALLOC_NO_OOM, and for AllocSetRealloc also: a failed request  *)
(* for a new block.  A failed AllocSetAllocLarge or realloc changes nothing.*)
AllocFails(size) ==
  /\ moving = NULL
  /\ NewBlockFails(size)
  /\ UNCHANGED <<inUse, moving>>

(* AllocSetFree of an external chunk: its block leaves the list. *)
UnlinkNext(b) == IF prev[b] = NULL THEN next ELSE [next EXCEPT ![prev[b]] = next[b]]

UnlinkPrevForgotten(b) == prev   \* mutant: the block behind keeps its link

UnlinkPrev(b) == IF next[b] = NULL THEN prev ELSE [prev EXCEPT ![next[b]] = prev[b]]

ReleaseBlock(c) ==
  LET b == c[1] IN
  /\ IsExternal(c)
  /\ blocks' = IF prev[b] = NULL THEN next[b] ELSE blocks
  /\ next' = [UnlinkNext(b) EXCEPT ![b] = NULL]
  /\ prev' = [UnlinkPrev(b) EXCEPT ![b] = NULL]
  /\ freeptr' = [freeptr EXCEPT ![b] = ALLOC_BLOCKHDRSZ]
  /\ endptr' = [endptr EXCEPT ![b] = ALLOC_BLOCKHDRSZ]
  /\ owned' = owned \ {b}
  /\ memAllocated' = memAllocated - endptr[b]
  /\ hdr' = Without(hdr, c)
  /\ data' = Without(data, c)
  /\ UNCHANGED <<freelist, paramVars>>

(* ... of any other: it is pushed on the freelist its header names. *)
PushFree(c, contents) ==
  /\ ~ IsExternal(c)
  /\ data' = [contents EXCEPT ![c] = freelist[hdr[c]]]
  /\ freelist' = [freelist EXCEPT ![hdr[c]] = c]
  /\ UNCHANGED <<listVars, spaceVars, hdr, paramVars>>

Free(c) ==
  /\ moving = NULL
  /\ c \in inUse
  /\ ReleaseBlock(c) \/ PushFree(c, data)
  /\ inUse' = inUse \ {c}
  /\ UNCHANGED moving

(***************************************************************************)
(* AllocSetRealloc.  A chunk that is large enough is left as it is, which  *)
(* is no step.  An external chunk goes with its block to where realloc     *)
(* puts it: to b, which may be where it was.                               *)
(***************************************************************************)
Renamed(p, a, b) == IF p = a THEN b ELSE p

AccountResizeAdded(old, new) == memAllocated + new   \* mutant: the old size stays counted

AccountResize(old, new) == memAllocated - old + new

ReallocExternal(c, size, b) ==
  LET a == c[1]
      moved(f) == [x \in Block |->
                     IF x = b THEN f[a] ELSE IF x = a THEN NULL ELSE Renamed(f[x], a, b)]
  IN
  /\ moving = NULL
  /\ c \in inUse
  /\ IsExternal(c)
  /\ b \in (Block \ owned) \cup {a}
  /\ blocks' = IF prev[a] = NULL THEN b ELSE blocks
  /\ next' = moved(next)
  /\ prev' = moved(prev)
  /\ freeptr' = [freeptr EXCEPT ![a] = ALLOC_BLOCKHDRSZ, ![b] = LargeBlockSize(size)]
  /\ endptr' = [endptr EXCEPT ![a] = ALLOC_BLOCKHDRSZ, ![b] = LargeBlockSize(size)]
  /\ owned' = (owned \ {a}) \cup {b}
  /\ memAllocated' = AccountResize(endptr[a], LargeBlockSize(size))
  /\ hdr' = With(Without(hdr, c), Start(b), External)
  /\ data' = With(Without(data, c), Start(b), data[c])
  /\ inUse' = (inUse \ {c}) \cup {Start(b)}
  /\ UNCHANGED <<freelist, paramVars, moving>>

(* A chunk that is too small: first a new one (its contents undefined) ... *)
StartGrow(c, size) ==
  /\ moving = NULL
  /\ c \in inUse
  /\ ~ IsExternal(c)
  /\ size > ClassSize(hdr[c])
  /\ \E new \in Candidates :
       /\ Obtain(size, new, NULL)
       /\ moving' = [from |-> c, to |-> new]
  /\ UNCHANGED inUse

(* ... then memcpy into it, and AllocSetFree of the old one. *)
FinishGrowFreeingFirst ==   \* mutant: the old chunk is freed, then copied
  /\ moving # NULL
  /\ PushFree(moving.from, [data EXCEPT ![moving.to] = freelist[hdr[moving.from]]])
  /\ inUse' = (inUse \ {moving.from}) \cup {moving.to}
  /\ moving' = NULL

FinishGrow ==
  /\ moving # NULL
  /\ PushFree(moving.from, [data EXCEPT ![moving.to] = data[moving.from]])
  /\ inUse' = (inUse \ {moving.from}) \cup {moving.to}
  /\ moving' = NULL

(* The blocks of the list, in order from the head, and NULL from its end on. *)
Nth[n \in Nat] ==
  IF n = 0 THEN blocks
  ELSE LET b == Nth[n - 1] IN IF b = NULL THEN NULL ELSE next[b]

Listed == {Nth[n] : n \in 0..Cardinality(Block)} \ {NULL}

(* AllocSetReset: all listed blocks but the keeper go back to malloc. *)
ResetTo(max) ==
  /\ moving = NULL
  /\ blocks' = Keeper
  /\ next' = [b \in Block |-> NULL]
  /\ prev' = [b \in Block |-> NULL]
  /\ freeptr' = [b \in Block |-> ALLOC_BLOCKHDRSZ]
  /\ endptr' = [b \in Block |-> IF b = Keeper THEN endptr[b] ELSE ALLOC_BLOCKHDRSZ]
  /\ owned' = owned \ (Listed \ {Keeper})
  /\ hdr' = [c \in {} |-> External]
  /\ data' = [c \in {} |-> NULL]
  /\ freelist' = [i \in FreeIndexes |-> NULL]
  /\ nextBlockSize' = InitBlockSize
  /\ maxBlockSize' = max
  /\ memAllocated' = memAllocated - SumFunctionOnSet(endptr, Listed \ {Keeper})
  /\ inUse' = {}
  /\ UNCHANGED <<chunkLimit, moving>>

Reset == ResetTo(maxBlockSize)

(* AllocSetDelete of a set that goes to a context freelist, and the        *)
(* creation that takes it from there: everything is as after a reset but   *)
(* maxBlockSize, which is the new creator's.                               *)
Recycle == Recyclable /\ \E max \in MaxBlockSize : ResetTo(max)

Next ==
  \/ \E size \in Size, v \in Value : Alloc(size, v)
  \/ \E size \in Size : AllocFails(size)
  \/ \E c \in inUse : Free(c)
  \/ \E c \in inUse, size \in Size, b \in Block : ReallocExternal(c, size, b)
  \/ \E c \in inUse, size \in Size : StartGrow(c, size)
  \/ FinishGrow
  \/ Reset
  \/ Recycle

Spec == Init /\ [][Next]_vars

--------------------------------------------------------------------------------
(***************************************************************************)
(* What reads the set: AllocSetStats and AllocSetCheck.                    *)
(***************************************************************************)

(* The chunks on freelist i, followed through the links they hold. *)
FreeChunks(i) ==
  LET At[n \in Nat] ==
        IF n = 0 THEN freelist[i]
        ELSE LET c == At[n - 1] IN IF c = NULL THEN NULL ELSE data[c]
  IN  {At[n] : n \in 0..Cardinality(Chunks)} \ {NULL}

(* AllocSetStats: what it counts on its walks over blocks and freelists.   *)
FreeChunkSpaceBare(i) == ClassSize(i) * Cardinality(FreeChunks(i))   \* mutant: no headers

FreeChunkSpace(i) == Footprint(i) * Cardinality(FreeChunks(i))

AllocSetStats ==
  [nblocks    |-> Cardinality(Listed),
   totalspace |-> ALLOC_CONTEXTSZ + SumFunctionOnSet(endptr, Listed),
   freespace  |-> SumFunctionOnSet([b \in Block |-> Room(b)], Listed)
                    + SumFunction([i \in FreeIndexes |-> FreeChunkSpace(i)])]

(* Where the walk of AllocSetCheck over the chunks of b finds a header, by *)
(* the size of the one before; FreeIndexes holds what a header may name.   *)
ChunkSize(c) == IF IsExternal(c) THEN endptr[c[1]] - c[2] - ALLOC_CHUNKHDRSZ
                                 ELSE ClassSize(hdr[c])

Walked(b) ==
  LET bpoz[n \in Nat] ==
        IF n = 0 THEN ALLOC_BLOCKHDRSZ
        ELSE LET c == <<b, bpoz[n - 1]>> IN
             IF c \in Chunks THEN c[2] + ALLOC_CHUNKHDRSZ + ChunkSize(c) ELSE c[2]
  IN  {bpoz[n] : n \in 0..Cardinality({c \in Chunks : c[1] = b})}

(* It has no warning to give about a block, reached from prevblock.        *)
BlockPasses(b, prevblock) ==
  LET walked == Walked(b)
      found == {p \in walked : p < freeptr[b]}
  IN
  /\ freeptr[b] = ALLOC_BLOCKHDRSZ => b = Keeper
  /\ prev[b] = prevblock
  /\ ALLOC_BLOCKHDRSZ <= freeptr[b] /\ freeptr[b] <= endptr[b]
  /\ freeptr[b] \in walked
  /\ \A p \in found :
       /\ <<b, p>> \in Chunks
       /\ IF IsExternal(<<b, p>>)
          THEN /\ ChunkSize(<<b, p>>) + ALLOC_CHUNKHDRSZ = freeptr[b] - ALLOC_BLOCKHDRSZ
               /\ found = {p}
          ELSE hdr[<<b, p>>] \in FreeIndexes

AllocSetCheck ==
  /\ \A n \in 0..Cardinality(Block) :
       Nth[n] # NULL => BlockPasses(Nth[n], IF n = 0 THEN NULL ELSE Nth[n - 1])
  /\ ALLOC_CONTEXTSZ + SumFunctionOnSet(endptr, Listed) = memAllocated

--------------------------------------------------------------------------------
(***************************************************************************)
(* Properties                                                              *)
(***************************************************************************)
Address == Block \X Nat
Contents == Value \cup Address \cup {NULL}

(* Every variable has its type: in particular nextBlockSize, which         *)
(* AllocSetAllocFromNewBlock doubles, stays at or below maxBlockSize (a    *)
(* block for a large chunk may still be begun larger than that), and what  *)
(* clients hold are chunks of this set.                                    *)
AllocSetTypeOK ==
  /\ blocks \in Block
  /\ next \in [Block -> Block \cup {NULL}] /\ prev \in [Block -> Block \cup {NULL}]
  /\ freeptr \in [Block -> Nat] /\ endptr \in [Block -> Nat]
  /\ owned \in SUBSET Block
  /\ Chunks \subseteq Address /\ Range(hdr) \subseteq FreeIndexes \cup {External}
  /\ DOMAIN data = Chunks /\ Range(data) \subseteq Contents
  /\ freelist \in [FreeIndexes -> Address \cup {NULL}]
  /\ maxBlockSize \in MaxBlockSize /\ nextBlockSize \in InitBlockSize..maxBlockSize
  /\ chunkLimit \in Nat /\ memAllocated \in Nat
  /\ inUse \subseteq Chunks
  /\ moving = NULL \/ moving \in [from : inUse, to : Chunks \ inUse]

(* The list of blocks (AllocSetAllocLarge and AllocSetAllocFromNewBlock    *)
(* insert, AllocSetFree unlinks, AllocSetRealloc relinks a moved block)    *)
(* holds exactly the blocks that malloc gave, the keeper among them; its   *)
(* links agree in both directions, and the active block, from which chunks *)
(* are cut, is never the block of an external chunk.                       *)
BlockListOK ==
  /\ Listed = owned /\ Keeper \in owned
  /\ Nth[Cardinality(owned)] = NULL
  /\ prev[blocks] = NULL
  /\ \A a, b \in owned : next[a] = b <=> prev[b] = a
  /\ \A c \in Chunks : IsExternal(c) => c[1] # blocks

(* mem_allocated is the size of what the set has from malloc, whatever     *)
(* sequence of large requests, reallocs, frees and resets led here: what   *)
(* MemoryContextMemAllocated reports and AllocSetReset asserts at its end. *)
AccountingOK == memAllocated = ALLOC_CONTEXTSZ + SumFunctionOnSet(endptr, owned)

ChunkEnd(c) == IF IsExternal(c) THEN endptr[c[1]] ELSE c[2] + Footprint(hdr[c])

(* No two chunks of a block overlap, and together they fill it from its    *)
(* header to freeptr, where the next is cut: neither the carving of the    *)
(* rest of a block nor a move by realloc loses or doubles a byte.          *)
ChunksTile ==
  \A b \in owned :
    LET In == {c \in Chunks : c[1] = b}
        starts == {c[2] : c \in In} \cup {freeptr[b]}
        ends == {ChunkEnd(c) : c \in In} \cup {ALLOC_BLOCKHDRSZ}
    IN  /\ starts = ends
        /\ Cardinality(starts) = Cardinality(In) + 1
        /\ freeptr[b] <= endptr[b]
        /\ \A c \in In : IsExternal(c) => In = {c} /\ freeptr[b] = endptr[b]

(* Each chunk that nobody holds is on the freelist of its class, and only  *)
(* there, and each list ends: the links lie in memory that clients wrote   *)
(* to before they freed it and write to again once it is handed out.       *)
Held == inUse \cup (IF moving = NULL THEN {} ELSE {moving.to})

FreelistEnds(i) == freelist[i] = NULL \/ \E c \in FreeChunks(i) : data[c] = NULL

FreelistsSound ==
  \A i \in FreeIndexes :
    FreeChunks(i) = {c \in Chunks \ Held : hdr[c] = i} /\ FreelistEnds(i)

(* What AllocSetStats reports adds up with what clients hold: all but the  *)
(* free space is the context header, the block headers, and the chunks in  *)
(* use with their headers; the total is what mem_allocated has counted.    *)
StatsAddUp ==
  LET stats == AllocSetStats
      held == SumFunction([c \in Held |-> ChunkSize(c) + ALLOC_CHUNKHDRSZ])
  IN  /\ stats.totalspace = memAllocated
      /\ stats.totalspace - stats.freespace =
           ALLOC_CONTEXTSZ + stats.nblocks * ALLOC_BLOCKHDRSZ + held

(* AllocSetCheck, which a checking build runs before each reset and        *)
(* deletion, has nothing to report: its warnings are on empty blocks,      *)
(* headers and back links that do not agree, chunks that do not fill their *)
(* block, external chunks that share one, and its assertion on the total.  *)
CheckPasses == AllocSetCheck

(* To clients the set is a heap: what they hold keeps its contents however *)
(* the set is carved, freed into and moved, an allocation returns memory   *)
(* that nobody holds, and a realloc what the old memory held.              *)
Memory == INSTANCE Heap WITH heap <- [c \in inUse |-> data[c]]
ImplementsHeap == Memory!Spec

(* What aset.c:51 says of the chunks that are cut from blocks: "We allow   *)
(* chunks to be at most 1/4 of maxBlockSize (less overhead)".              *)
AtMostAQuarter ==
  \A c \in inUse :
    ~ IsExternal(c) =>
      Footprint(hdr[c]) <= (maxBlockSize - ALLOC_BLOCKHDRSZ) \div ALLOC_CHUNK_FRACTION

================================================================================
