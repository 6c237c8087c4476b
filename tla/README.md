# MemoryContext in TLA+

Specifications of the memory-context library (a tree of arenas, extracted from
PostgreSQL), model-checked with TLC and, all but little of the safety, proved with
TLAPS. The C sources are the reference: every definition is translated
from them, and `PROJECT.json` (`map`) names the lines each definition stands for.

## The system

The library runs on one thread. What is hard about it is not parallelism but
re-entry: a reset or a deletion walks a linked tree and calls client callbacks in
the middle of the walk, and the callbacks may call the library again. The other
half is a memory allocator whose bookkeeping lies in the memory it manages.

| component | state | operations | where |
|---|---|---|---|
| context tree | `parent`, `firstchild`, `prevchild`, `nextchild` of each header | `MemoryContextCreate`, `MemoryContextSetParent`, the removal in `MemoryContextDeleteOnly`, `MemoryContextTraverseNext` | `mcxt.c` |
| lifecycle | `isReset`, `reset_cbs`, `CurrentMemoryContext`, the C stack | the three resets, the two deletions, register / unregister a callback, `MemoryContextSwitchTo`, `MemoryContextInit` | `mcxt.c` |
| context freelists | `context_freelists[]`: `first_free`, `num_free`, chained through `nextchild` | the ends of `AllocSetDelete` and `AllocSetContextCreateInternal` | `aset.c` |
| allocation set | list of blocks, free pointers, chunk headers, chunk freelists, `nextBlockSize`, `maxBlockSize`, `allocChunkLimit`, `mem_allocated` | alloc, free, realloc, reset, recycling | `aset.c` |
| size arithmetic | none | freelist class, chunk limit, carving, block size | `aset.c` |
| aligned allocation | a redirect chunk before the pointer | alloc, free, realloc | `mcxt.c`, `alignedalloc.c` |
| chunk header | bit fields of `hdrmask` | encode, decode, dispatch on the method id | `memutils_memorychunk.h` |
| size checks | none | `MemoryContextCheckSize`, `add_size`, `mul_size`, `palloc_mul` and its variants | `mcxt.c`, `memutils.h`, `mctx_internal.h` |
| statistics | none; read the tree and the sets | `AllocSetStats`, `MemoryContextMemAllocated`, `MemoryContextMemConsumed`, `MemoryContextIsEmpty`; `AllocSetCheck` in checking builds | `aset.c`, `mcxt.c` |

How they interact. A client calls `mcxt.c`, which works on the header of a
context and reaches the allocator through the method table. The allocator reads
and writes the header too: `AllocSetDelete` resets the context through
`MemoryContextResetOnly` and stores the freelist link in `nextchild`;
`AllocSetContextCreateInternal` takes a header back and has
`MemoryContextCreate` set its fields again. Callbacks are the only way back from
the library into the client.

What makes each part correct: the tree's links agree and contain no cycle; a
walk never touches a header that a callback deleted, and returns; a callback
runs once and before its context goes; a context that says it is empty is;
the freelist counters are right at the limit; chunks never overlap, are on one
freelist or in a client's hands, and keep their contents; a pointer stays with the
context it was asked of, until that context is reset; the accounting, of a set
and of a subtree, equals what malloc gave; a size is not cut off by overflow on
its way to malloc (of aligned requests this is not so: see Findings).

## Modules

| module | contents |
|---|---|
| `ContextTree` | the link fields, the three operations on them, the traversal, and the invariants |
| `ContextForest` | the tree without pointers: ordered lists of children |
| `ContextTraversal` | the walk as a whole, the pre-order it should be, and the refinement of `ContextForest` (recursive, so for TLC only) |
| `ContextTreeProofs` | the proofs about `ContextTree` |
| `ContextLifecycle` | extends `ContextTree`: resets, deletions, callbacks, context freelists, with the C stack as a variable |
| `MCContextLifecycle` | symmetry for TLC |
| `ContextLifecycleProofs` | the invariants of the C stack and of the freelists, that each step keeps them, and the proofs about `ContextLifecycle`, the refinement of `TreeSpec` included |
| `ContextMemory` | extends `ContextLifecycle`: the blocks that each context holds, and pointers into them |
| `MCContextMemory` | symmetry for TLC |
| `ContextMemoryProofs` | that `ContextMemory` implements `ContextLifecycle`, and the proofs about pointers and blocks, the walk over a subtree, and the totals it adds up |
| `AllocSizes` | the arithmetic of `aset.c` as operators and recursive functions |
| `AllocSizesProofs` | lemmas about numbers, recursive functions, linked lists and sums, and with them what the functions of `AllocSizes` compute |
| `RequestSizes` | extends `AllocSizes`: the checked and unchecked sums and products, modulo the width of a word |
| `SizeBounds` | what each computation is for, checked at every size |
| `SizeBoundsProofs` | the proofs about `RequestSizes` and, with the lemmas of `AllocSizesProofs`, about the arithmetic of `aset.c` |
| `AllocSet` | extends `AllocSizes`: blocks, chunks and freelists of one set |
| `Heap` | what a context promises those who allocate in it |
| `MCAllocSet` | symmetry for TLC |
| `AllocSetProofs` | the proofs about `AllocSet`, the refinement of `Heap` included |
| `AlignedAlloc` | extends `AllocSizes`: aligned pointers, their redirect headers and the chunks they lie in |
| `AlignedAllocProofs` | the proofs about `AlignedAlloc` |
| `ChunkHeader` | the fields of a chunk header in one word |
| `ChunkHeaderProofs` | the proofs about `ChunkHeader` |

### The tree

A header is an address in `Context`; `live` holds those created and not yet
given to `delete_context`. `SetParent` is written as the code is: take the node
out (`DelinkedFirst`, `DelinkedNext`, `DelinkedPrev` are the three fields after
that), then push it on the new parent's list. `CreateNode` sets all four links,
since a recycled header has a freelist link in `nextchild`. `TreeSpec` starts from
what `MemoryContextInit` leaves (Top and Error) and allows any sequence of the
operations under the two conditions the code relies on and does not test: a new
parent is not below the context it adopts (only `context != new_parent` is
asserted), and a context that is removed has no children.

### The lifecycle

`stack` is the C stack. A frame names the function, or the point inside it at
which it goes on, its context and the loop variables it reads again (`curr`, and
the saved `parent` of `MemoryContextDelete`). A step is what happens between two
points where client code can run, or one turn of a loop; `RunCallback` pops a
callback and pushes a frame that stands for the client, inside which the client
may do any of the client operations, a further reset or deletion included.

`used` is a ghost: it says whether space was handed out since the last reset, and
is what `isReset` is compared with. `MayDelete`, `MayDeleteChildren`, `MayMove`
and `MaySwitch` are preconditions on the client: `ContextLifecycle` does not claim
that the library survives a callback that deletes or moves a context (or one above it)
that a call in progress was made for, its own context included, or that makes
`CurrentMemoryContext` one that is about to be deleted. The rules speak of the
calls, which a client can know, and not of the local variables of the loops; that
those are safe too is what `CallsTouchOnlyLive` checks. Everything else is allowed.
Two more rules, `Discipline`, can be switched off in a configuration: no child
for a context whose deletion is running its own callbacks ("dying"), none for
one whose reset has returned from them ("resetting"; the children are gone
by then). Without them two statements of the documentation fail; see Findings.

A header from malloc is any address that is not `malloced`; an address that was
freed can come back. A callback struct is registered at most once at a time, as
its `next` field is the link of the list.

### The allocation set

An address is a block and an offset, so `ChunksTile` can speak of bytes. `data` is
what the first bytes of a chunk hold: what the client stored, or the freelist
link once the chunk is free. `hdr` is the decoded header: the freelist class, or
`External`. Each way to serve a request is an operator (`FromFreelist`,
`FromActiveBlock`, `FromNewBlock`, `AllocLarge`); `Obtain` is their disjunction.
Carving writes several chunks at once and is computed by the operators `Carved*`.
`NewBlockFails` is the path on which malloc returns NULL after the block was carved.
A realloc that grows a small chunk is two steps (`StartGrow`, `FinishGrow`) with
nothing in between, because the allocation inside it takes any of the four ways.
A realloc that fits, a failed `AllocSetAllocLarge` and a failed `realloc` change
nothing and are no steps. `Recycle` is the deletion of a set into a context
freelist and its creation from there.

Sizes are those of a 64-bit build (block header 40, chunk header 8, context
header 200 bytes), without `MEMORY_CONTEXT_CHECKING`.

`FreeChunks`, `AllocSetStats` and `AllocSetCheck` read the set as the functions of
these names do, from the list heads through `next` and the links in the chunks.
Of `AllocSetCheck` there is what it tests of the structure; the requested sizes and
sentinels, which exist only in a checking build, are left out.

### Contexts and their memory

`ContextMemory` puts the memory under the lifecycle. Of a set it keeps the blocks
malloc gave (`aset`, `bytes`, `external`) and the counter in the header; the inside of
a set is `AllocSet`'s. At most one chunk of a block is in a client's hands at a time, so
a pointer is named by its block, and the keeper by its context. `askedOf` is a ghost: the
context a client named when it got the memory, which `pfree` and `repalloc` are
not told. They change the set that the pointer leads to (`GetMemoryChunkContext`,
`OwnSet`). The actions of `ContextLifecycle` that allocate, create, reset and delete
have their effect on memory conjoined (`AllocIn`, `CreateFromFreelist`,
`CreateFromMalloc`, `ResetMemory`, `DeleteMemory`); all others, `QuietClientOp` and
`QuietStep`, leave it alone. So every run of `MemorySpec` is one of `Spec`, and callbacks
allocate, free and reallocate while a reset or a deletion is in progress.
At the end of a reset or deletion clients forget the pointers into the context.

### Sizes that could wrap

In `RequestSizes` a `Size` is a number below `Word` and sums are taken modulo it
where the code does not check them. `AllocSetAlloc` is the way from a size to the
chunk it gets, of a freelist class or, above the limit of the set, in a block of its own
(`LargeChunk`), and only the second way has a check. `palloc_mul` and
`AllocAligned` end in it, `repalloc_mul` of a large chunk in `LargeChunk`. A request that
ends the process is `Abort`. `Answers` compares the chunk with the exact number of
bytes: within the limit it has them, above the limit there is none.

### Aligned allocation

`space` has the chunk that each pointer lies in, as the allocation set below gives
it: any address where it overlaps no other chunk, and the size that `AllocSet`
would give it. `redirect` is the decoded header before an aligned pointer. `promised` and
`valid` are ghosts: how many bytes the client is entitled to find after a
realloc, and how many were copied. `Free` and `Realloc` find the chunk through the
redirect header, as the code does.

### Chunk headers

`hdrmask` is a number and a field is a digit of it; `stored` is a ghost with what was last
written. `SetHdrMask` may get what the assertions of `MemoryChunkSetHdrMask` allow.
The widths are constants, for a word of 64 bits is beyond TLC's integers and
not beyond the proofs.

## Runs

| run | instance | shows |
|---|---|---|
| `tree` | 5 headers | types, links, no cycles, pre-order traversal, refinement of the forest |
| `lifecycle_calls` | 3 client contexts, 1 callback struct, 2 operations by callbacks | no call in progress meets a deleted context; the assertions of `MemoryContextDeleteOnly` hold; a reset returns without children; no callback is left on a deleted context |
| `lifecycle_freelists` | 2 client contexts, 1 callback with 2 operations, a freelist full with 1 | `isReset` is truthful, the freelists are sound, each callback runs once, the lifecycle implements `TreeSpec`, and every call returns |
| `context_memory` | 2 client contexts, 2 blocks besides the keepers, 2 pointers, 1 callback with 1 operation | pointers stay with their context; nothing is lost with a context, on a freelist or not; the totals of a subtree are right at any moment |
| `alloc_set` | 3 blocks, sizes 100, 200 and 400, 3 chunks in use | block list, accounting, tiling, freelists, statistics, the walk of `AllocSetCheck`, refinement of `Heap` |
| `size_bounds` | every size to 33000; for overflow, all pairs of sizes below 512, limit 100, chunk limit 32, and block sizes below 64 doubled modulo 256 | the arithmetic of `aset.c`; products, sums made with `add_size`, and the doubled block size are not cut off |
| `aligned_alloc` | alignments 8, 16 and 64, sizes 1, 48 and 112, 2 pointers | an aligned pointer and its redirect header stay in their chunk; realloc copies no more than there is and no less than it must; chunks are freed with their pointers |
| `chunk_header` | 2 + 1 + 4 + 4 bits, one of them shared | every header is read back |
| `child_of_dying`, `child_of_reset`, `recycled_limit`, `aligned_request` | the last: every size below 512, alignments 1 to 64 | the findings |

Bounds, and why they are enough.

* Tree: Top and Error are there from the start; with three more a context can
  stand between two siblings, a chain of three hang below the root, and a header
  be used again. Every link operation touches a node, its two neighbours and two
  parents.
* Lifecycle: `Subject` are the contexts that clients create; `MaxCallbackOps`
  bounds what all callbacks do during one call of the client. With three
  contexts and two operations a callback can create a context next to the one
  the walk is at and then delete, move or reset another. `MaxFreeContexts` is 1
  so that the list overflows with two contexts. With `Discipline` in full, Top
  and Error are not allocated in; that adds no new case. The run that checks liveness
  exchanges no headers, and has one callback struct, which registers itself again
  while its list is run; lists of several are left to the proofs, which are for any
  number of them.
* Contexts and memory: with two contexts one can be current while the other's pointer is
  reallocated, or be deleted while the other is allocated in, and one can be the
  other's child, so that totals span them. Two blocks, of the
  kind that is cut into chunks or of the kind for one chunk, each kind of a size of its
  own, are enough for a realloc that moves from one to the other and for a
  block that goes from one context to the other through malloc. Freelist class 0 is
  full with one header, and contexts of no class are freed, so both ways out of
  `AllocSetDelete` are taken. Contexts and blocks may be exchanged (`SYMMETRY`).
* Allocation set: 824 bytes of keeper block. 100 bytes are cut from a block, 400
  are external, 200 are one or the other by the chunk limit of the set (128 or
  256, for `maxBlockSize` 1024 or 2048). Three 200s fill the keeper, so a new
  block is started and the rest carved; the rest gives chunks of three classes,
  one of which requests of 100 use. With two blocks besides the keeper there are
  lists with external blocks before and behind a normal one. Blocks and values
  are interchangeable, so TLC may exchange them (`SYMMETRY`).
* Sizes: 8200 bytes is the largest rest of a block for which a request can fail,
  32840 the smallest `maxBlockSize` with the limit 8192. The words for overflow
  are small so that every pair is tried, and keep what the code's have between them:
  the chunk limit is at most the largest plain size, and that is below half a word.
* Aligned allocation: addresses with every offset from a multiple of 64 that
  a MAXALIGNed pointer can have, in three places that hold a chunk each (two
  pointers, and the new chunk of a realloc). 48 bytes with alignment 16 fill a
  chunk of the set exactly, 112 bytes are above its chunk limit with either alignment.
* Headers: every value, every even offset, every method id, stored over every
  other. The fields only shift with the widths, and the proof is for all widths.

`SizeBounds` stops at `MaxSize`, hence `CHECK_DEADLOCK FALSE`. The other runs check
for deadlock.

Fairness. `FairSpec` asks for weak fairness of `LibraryStep`: the thread goes on,
and a callback returns in the end. It asks nothing of the client. In
`MaxCallbackOps` lies a real assumption: a callback that registers itself again
each time it runs makes a reset last forever, as in the code.

## Findings

* `child_of_dying`: `MemoryContextDeleteOnly` checks for children, runs the
  context's callbacks, and then delinks and frees it without a second look. A
  child that a callback creates in it survives with a parent pointer to freed
  memory. The comment on `MemoryContextDelete` promises that the descendants go.
* `child_of_reset`: `MemoryContextReset` deletes the children first and runs the
  context's callbacks after that. A child created there is still there when
  the reset returns, although the comment and the README's table say that
  children are deleted.
* `recycled_limit`: a set from a context freelist gets a new `maxBlockSize` and
  keeps the chunk limit of the old one. With a smaller `maxBlockSize` its blocks
  are cut into chunks above the quarter that the comment on
  `ALLOC_CHUNK_FRACTION` promises. Nothing breaks: `alloc_set` includes this case
  and its invariants hold.
* `aligned_request`: `MemoryContextAllocAligned` adds the alignment to the size before
  anything checks the size, and does not check the sum. The limits of `memutils.h` are
  thus applied to the sum modulo `SIZE_MAX + 1`: a size so near `SIZE_MAX` that the sum
  wraps is not denied, as `memutils.h` and `test_abort_paths.c` say of sizes
  above the limit, but gets a chunk for what is left of the sum. In the run
  it is size 448 of 511 with alignment 64, whose sum is 0. Made with `add_size`, the sum
  would be answered as `RequestsHeld` says.

## Proofs

### The tree

`ContextTreeProofs` proves, for any set of contexts, that `TreeSpec` implies
`[]TreeTypeOK`, `[]LinksOK`, `[]ParentsAcyclic` and `[]SiblingsAcyclic`, assuming
only `ContextAssumption` (NULL is no context; Top and Error are two contexts).

The inductive invariant is the conjunction `TreeInv` of the four. No part is
inductive alone: that a removed node's neighbours are patched correctly needs
the links of both neighbours (`LinksOK`), that the first-child test finds the
head needs that no node is its own sibling (`SiblingsAcyclic`), and moving a
subtree keeps the parents free of cycles only because the subtree is closed
under children (`SubtreeClosed`). Acyclicity is stated without recursion, as: each
non-empty set of contexts has a member whose link leads out of it. There is one
lemma per operation and conjunct.

### Headers and sizes

`ChunkHeaderProofs` proves `HeadersFit` and `HeadersReadBack` for any number of method
ids, any width of value and offset and any magic number that fits
(`HeaderAssumption`), so for the code's. The inductive invariant,
`StoredInWord`, says that the word is the one that the ghost's fields make. The
rest is arithmetic: `DivMod` computes a quotient or remainder from how the number
was put together, `LowFields` reads the word from the bottom, `HighField` from the
top after it has split the value at the bit it shares with the offset.

`SizeBoundsProofs` proves `RequestsHeld` and `SafeToDouble` for any width of a word and
any limits that satisfy `RequestAssumption`: the word is a multiple of 8 and
at least 256, so that headers and rounding fit into half of it, the
limits on sizes and block sizes are below half of their word, and the chunk limit is
the size of a class and at most the limit on sizes. The argument: what the check lets
through is what is within the limit (`AcceptedIsWithinLimit`), that is below half a
word (`LimitIsBelowHalf`), `MaxAlignRoundsUp` bounds what is added after it, and what is
not checked fits its class (`FreeIndexTight`). The invariant is only that
`size` is a natural number. Of aligned requests nothing is proved, since it is false.

It proves the other four invariants of `SizeBounds` for every size, not only up to
`MaxSize`: freelist class (`FreeIndexIsLeast`), chunk limit (`ChunkLimitIsGreatest`),
block size (`BlockHoldsChunk`) and carving (`CarvingUsesTheRoom`). The functions are
recursive, and the library's induction theorems cannot be used here, since they take an
operator as a parameter. `AllocSizesProofs` does with sets what they do with
predicates. `LeastNumber`, from the well-foundedness of `<`, is the induction: the
set of numbers for which a claim fails has no least member. `RecursiveFunction` shows
that a function given by recursion on a size that decreases exists, as the least set
of pairs closed under the definition; from it follow the equations
`Power2Equation`, `LeftmostOneEquation`, `CarvedEquation` and those of the loops
inside `ChunkLimitWithin`, `BlockSize` and `CarvedSpace`. On these rest
`LeftmostOneBounds` (the logarithm), `FreeIndexTight` and `FittingClassFits` (the
classes around a size) and `CarvedFills` (each chunk cut is of a class smaller than
the one before, and less than the smallest chunk is left).

### The lifecycle

`ContextLifecycleProofs` proves `NoCallbackLost` for any contexts, callbacks, freelist
limit and depth of calls, assuming nothing beyond the module's assumptions. The
inductive invariant `CallbackInv` adds that `reset_cbs` is a function on
`Context`. A list changes only for a live context or to become empty; a context
goes only in `FinishDeleteOnly`, whose guard is that its list is empty, read after the
last callback returned.

All other safety properties of the runs of `ContextLifecycle` are proved under one
assumption, `"dying" \in Discipline`: no client gives a child to a context whose
deletion is running its callbacks. `ResetReturnsChildless` needs `"resetting"`
as well. The assumptions are the ones that the runs make, and `child_of_dying`
and `child_of_reset` show that the code needs them.

`LifecycleInv` is the inductive invariant:

* `TreeInv`, the tree as above. Its lemmas are those of `ContextTreeProofs`:
  `LifecycleImplementsTree` (`Spec => TreeSpec`) shows that each step is an operation
  of the tree under the conditions that `TreeSpec` sets, or leaves the tree alone.
  The conditions are what the code does not test, so they come from the stack: a
  context that `MemoryContextDeleteOnly` removes has no children although callbacks
  ran since that was seen.
* `StackInv`, the C stack. For each frame, `FrameOK` says which contexts it relies on
  (`curr` below `ctx`; no children where the code has looked), and for each frame
  that waits, `WaitsFor` says which call it waits for. That is what keeps a callback
  from pulling away a loop variable: the client's rules speak of the contexts of
  calls, and a loop variable that is read again is always the context of the call
  that the loop waits for, or, for `MemoryContextDelete`, its parent. `Doomed(f)` are
  the contexts that a call is going to delete; `OuterSpared` says that no call is going
  to delete the context of a call around it, and `FixedSpared` that none is
  going to delete `CurrentMemoryContext`, Top or Error.
* `FreelistInv`: each list ends, no two headers on it have the same successor, and
  with the live contexts the lists make up what malloc gave. It needs `TreeInv` since
  the lists use the link field of the tree, and the tree needs it since a header
  that comes from a list must not be live. The number of headers on a list is the
  cardinality of the least set closed under `nextchild`.
* `ContentTypes` and `EmptyMeansEmpty`: an `isReset` that is wrong would skip callbacks.

`CallsTouchOnlyLive`, `DeleteAssertions`, `ResetReturnsChildless`, `FreelistsOK`,
`LifecycleTypeOK` and `EmptyMeansEmpty` follow from it. `ResetReturnsEmpty` adds
`ResetFound` (the innermost call, when it is about to return from
`MemoryContextReset`, has just seen `isReset` or the end of
`MemoryContextResetOnly`), and `CalledOnce` adds `OneList` (a callback
is on at most one list, once).

`DeletionLeavesNoOrphans` is the positive side of the finding `child_of_dying`: with the
rule, no live context has a parent that is gone.

### Contexts and their memory

`MemoryImplementsLifecycle` proves `MemorySpec => Spec`, so that all of the above holds
with the memory in place. `pfree` and `repalloc` change nothing of the lifecycle; they
count as operations of the client there as switching to the context that is
current already does. `MemoryInv` is `PointersSound` and `NothingLost` with the types of
three variables. Neither is inductive alone: a block's context is
live and not reset only because every way to obtain a block clears `isReset`, and a
pointer's context is the one it was asked of because a reset and a deletion leave
it no block. That the context of a call in progress is live comes from `LifecycleInv`,
so these theorems assume `"dying" \in Discipline` too.

`TreeIsAccounted` proves `TreeAccounts`, in three parts.

* The walk. `TraversalIsList`: from the first child of a context by
  `MemoryContextTraverseNext` there is a list (`ListOf`, below) of all that is below it, so
  each descendant is met once and the walk ends. `Climb` is the way up from a
  context without children; it satisfies its recursive equation (`ClimbEquation`).
  Two contexts without children never climb to the same one (`ClimbOnce`): the one that
  both come to has one sibling before it, and both are where the way down
  from that sibling by last children ends. What a walk comes to it also
  passes, with all that is below (`WalkPasses`), by induction on the size of
  subtrees: the first child is met, each child passed leads to its sibling, and the last
  climbs to where its parent climbs to. `WalkIsPreorder` says more, for every state: after each
  context the walk goes through what is below it and only then to where the climb
  leads. That is the pre-order without recursion; the run `tree` compares the
  walk with the recursive definition (`TraversalIsPreorder`).
* The loop. `SumOverTreeIsSum`: the recursive sum along a list is the sum over its members
  (`ListAddsUp`, `ListSum`), so both totals are sums over the subtree.
* The counters. `AccountInv`, inductive with `LifecycleInv` and `MemoryInv`: there are
  finitely many contexts and blocks, and each header counts its keeper and the blocks
  that lead to it. A step takes some blocks from one set and gives it others (`Moves`), and
  counts exactly that for it (`MovesKeepAccount`). That a new
  header, recycled or not, and one on a freelist count their keeper alone is `NothingLost`.
  `SpacesAddUp` adds the contexts of a subtree up: no block leads to two of them.

### The allocation set

`AllocSetProofs` proves all seven invariants of `AllocSet` and that it implements `Heap`,
for any finite set of blocks, any request sizes, block sizes (the first one at least
1024, as `AllocSetContextCreateInternal` asserts) and values (`AllocSetAssumption`).

The inductive invariant is `AllocInv`:

* `MemoryTypes` and `ClientTypes`, the types. The chunk limit is the size of a class, so
  that a request below it has a freelist; a chunk that a realloc has got and not yet
  filled (`moving`) is nobody's to free.
* `Linked`: the owned blocks are a list, from `blocks` by `next` to NULL, and `prev` is the
  way back. Pushing a block, inserting one behind the head and taking one out from
  behind the head are three lemmas (`DoublyPush`, `DoublyInsert`, `DoublyRemove`).
* `Filled`: the chunks of a block fill it from its header to `freeptr` (`Tiles`). To cut a
  chunk off is to tile what is left and to join the two (`TilesJoin`); that what carving
  cuts off tiles the rest is `CarvedFills`. An external chunk is alone in
  its block, which is neither the active one nor the keeper: otherwise the block that
  `AllocSetFree` gives back would have other chunks, or be the one that is cut from.
* `Threaded`: the list of class i has exactly the chunks of class i that nobody holds. That
  makes a chunk that is popped one that nobody has. It needs `Filled`, for
  chunks that are new must be on no list yet.
* `AccountingOK`: the counter is the sum over the blocks.

A list is `ListOf(F, h, f, nil)`: no two members of F have the same successor, none has
the head as its own, and whatever holds the head and is closed under f holds all of F.
So it can be reasoned about without counting; `ListWalk` connects it with the walks that the
properties are stated in. A sum is `SumFunctionOnSet`, and the provers know
it by `SumWith` and `SumWithout`, which say that the fold of a sum does not depend on the
order in which it takes the members: `SumEquation` shows, by `RecursiveFunction`, that the
function that the fold is defined by exists.

Each action has a lemma that it keeps `AllocInv` and is a step of `Heap` or changes nothing
that clients have (`HeapStep`), whichever of the four ways a request takes (`Obtained`). From
`AllocInv` follow the properties. `ChunksTile` counts starts and ends, which are as many as
there are chunks and one more. `StatsAddUp` adds the space of the blocks in the order of the
list and the free chunks in the order of each freelist, both of which end. For `CheckPasses` the
chunks of a block are themselves a list, by their ends, and the walk of `AllocSetCheck` is
the walk over it.

### Aligned allocation

`AlignedAllocProofs` proves the four invariants of `AlignedAlloc` for any places, sizes
and chunk limit, any number of pointers, and alignments up to 2^26 (`AlignedAssumption`).
The inductive invariant `AlignedInv` says that chunks with their headers do not
overlap, that a pointer lies behind its redirect header, at most `alignto` bytes
into its chunk, with room for the request after it, that pointers and chunks
are one to one, and what the ghosts are at most. A new pointer is one that
nobody has because its chunk overlaps none (`NewPointerIsNew`). A realloc is
proved as an allocation and then a pfree (`LayoutAfterAdding`,
`LayoutAfterRemoving`), which is how the code does it. `AlignedInChunk` is
`TYPEALIGN`: an alignment above 8 is a multiple of 8 and a chunk starts at one.
That the chunk is large enough for what the code asks is `FreeIndexTight` and
`MaxAlignRoundsUp`.

### Only model-checked

* `TraversalIsPreorder` and the refinement of `ContextForest`: both are stated with
  RECURSIVE operators, which the provers do not take. `WalkIsPreorder` proves of the walk
  what can be said without them.
* Liveness (`CallsReturn`), which with ENABLED is outside the prover's reach.

## Not modelled

Out of memory without `MCXT_ALLOC_NO_OOM`, bad sizes and corrupt pointers end the
process, so no state follows (a size is `Abort` then). `AlignedAlloc` and
`AllocSet` take sizes that do not wrap; `RequestSizes` has those that could.
What only checking builds have (`requested_size`, sentinel bytes, clobbering,
Valgrind) is off, except for the structure that `AllocSetCheck` tests. `pstrdup`,
`pnstrdup` and `repalloc0` are a call of the allocator and a copy. The text of
statistics, contents of chunks beyond the first bytes, names and
identifiers, and `allowInCritSection` play no part in a property.

## Plan

1. Done: `ContextTree`, `ContextForest`, `ContextTraversal`, `ContextTreeProofs`;
   `ContextLifecycle`, `ContextLifecycleProofs`;
   `ContextMemory`, `ContextMemoryProofs`; `AllocSizes`, `AllocSizesProofs`,
   `SizeBounds`, `RequestSizes`, `SizeBoundsProofs`; `AlignedAlloc`,
   `AlignedAllocProofs`; `ChunkHeader`, `ChunkHeaderProofs`; `AllocSet`, `Heap`,
   `AllocSetProofs`.
2. All safety properties of the passing runs are proved, but for the two that are stated with
   recursive operators.
3. If a later model is worth it: aligned pointers among plain ones, so that
   `AlignedAlloc` implements `Heap`.
