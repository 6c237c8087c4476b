------------------------------- MODULE AllocSizes ------------------------------
(***************************************************************************)
(* The size arithmetic of aset.c: freelist classes, the sizes of blocks,   *)
(* the limit above which a chunk gets a block of its own, and how the rest *)
(* of a block is cut into free chunks.  Sizes are bytes; the constants are *)
(* those of a 64-bit build.                                                *)
(***************************************************************************)
EXTENDS Integers, Sequences

ALLOC_MINBITS == 3
ALLOCSET_NUM_FREELISTS == 11
ALLOC_CHUNK_LIMIT == 8192
ALLOC_CHUNK_FRACTION == 4
ALLOC_BLOCKHDRSZ == 40     \* sizeof(AllocBlockData)
ALLOC_CHUNKHDRSZ == 8      \* sizeof(MemoryChunk)
ALLOC_CONTEXTSZ == 200     \* MAXALIGN(sizeof(AllocSetContext))

FreeIndexes == 0..(ALLOCSET_NUM_FREELISTS - 1)

MaxAlign(size) == ((size + 7) \div 8) * 8

Larger(m, n) == IF m > n THEN m ELSE n
Smaller(m, n) == IF m < n THEN m ELSE n

(* 1 << n *)
Power2[n \in Nat] == IF n = 0 THEN 1 ELSE 2 * Power2[n - 1]

(* The size of the chunks on freelist i: GetChunkSizeFromFreeListIdx. *)
ClassSize(i) == Power2[ALLOC_MINBITS + i]

(* The position of the highest one bit: pg_leftmost_one_pos32. *)
LeftmostOne[n \in Nat] == IF n < 2 THEN 0 ELSE 1 + LeftmostOne[n \div 2]

(* AllocSetFreeIndex *)
FreeIndexRoundedDown(size) ==   \* mutant: not size - 1
  IF size > ClassSize(0) THEN LeftmostOne[size] - ALLOC_MINBITS + 1 ELSE 0

FreeIndex(size) ==
  IF size > ClassSize(0) THEN LeftmostOne[size - 1] - ALLOC_MINBITS + 1 ELSE 0

(* The largest power of two for which a chunk and its header are at most a *)
(* quarter of the largest block: the loop in AllocSetContextCreateInternal. *)
ChunkLimitWithin(fraction) ==
  LET Halved[limit \in Nat] ==
        IF limit + ALLOC_CHUNKHDRSZ > fraction THEN Halved[limit \div 2] ELSE limit
  IN  Halved[ALLOC_CHUNK_LIMIT]

ChunkLimitOfWholeBlock(maxBlockSize) ==   \* mutant: the header is not deducted
  ChunkLimitWithin(maxBlockSize \div ALLOC_CHUNK_FRACTION)

ChunkLimit(maxBlockSize) ==
  ChunkLimitWithin((maxBlockSize - ALLOC_BLOCKHDRSZ) \div ALLOC_CHUNK_FRACTION)

(* The malloc request that holds a context's header and its keeper block. *)
FirstBlockSize(minContextSize, initBlockSize) ==
  Larger(ALLOC_CONTEXTSZ + ALLOC_BLOCKHDRSZ + ALLOC_CHUNKHDRSZ,
         IF minContextSize # 0 THEN minContextSize ELSE initBlockSize)

(***************************************************************************)
(* How AllocSetAllocFromNewBlock cuts what is left of a block: the classes *)
(* of the chunks, in order of address.                                     *)
(***************************************************************************)
FittingClassRoundedUp(space) == FreeIndex(space)   \* mutant: no step down

FittingClass(space) ==
  LET i == FreeIndex(space) IN IF space = ClassSize(i) THEN i ELSE i - 1

Carved[space \in Int] ==
  IF space < ClassSize(0) + ALLOC_CHUNKHDRSZ THEN <<>>
  ELSE LET i == FittingClass(space - ALLOC_CHUNKHDRSZ)
       IN  <<i>> \o Carved[space - ALLOC_CHUNKHDRSZ - ClassSize(i)]

(* What the first n of the chunks cut so take up, headers included.        *)
CarvedSpace(classes) ==
  LET Taken[n \in 0..Len(classes)] ==
        IF n = 0 THEN 0 ELSE Taken[n - 1] + ClassSize(classes[n]) + ALLOC_CHUNKHDRSZ
  IN  Taken

(* The size of the block for a chunk of class i, doubled until it fits. *)
RequiredSizeOfChunk(i) == ClassSize(i) + ALLOC_CHUNKHDRSZ   \* mutant: no block header

RequiredSize(i) == ClassSize(i) + ALLOC_BLOCKHDRSZ + ALLOC_CHUNKHDRSZ

BlockSize(nextBlockSize, i) ==
  LET Doubled[size \in Nat] == IF size < RequiredSize(i) THEN Doubled[2 * size] ELSE size
  IN  Doubled[nextBlockSize]

(* The smaller requests tried when malloc fails: each half of the one      *)
(* before, while that was above 1 MB, and never too small for the chunk.   *)
RetriedSizes(first, required) ==
  LET From[size \in Nat] ==
        IF size > 1024 * 1024 /\ size \div 2 >= required
        THEN <<size>> \o From[size \div 2] ELSE <<size>>
  IN  From[first]

(* The malloc request for a chunk with a block of its own. *)
LargeBlockSize(size) == MaxAlign(size) + ALLOC_BLOCKHDRSZ + ALLOC_CHUNKHDRSZ

(* What an aligned pointer needs besides the space for the request.       *)
ExtraBytesTight(alignto) == alignto - 8   \* mutant: no room for the redirect header

PallocAlignedExtraBytes(alignto) == alignto + (ALLOC_CHUNKHDRSZ - 8)

================================================================================
