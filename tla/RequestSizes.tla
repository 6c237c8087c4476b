------------------------------ MODULE RequestSizes -----------------------------
(***************************************************************************)
(* What becomes of a request between the client's numbers and malloc: the  *)
(* checked sums and products of mcxt.c, the limits of memutils.h, and the  *)
(* sums that are not checked, which wrap at the width of a Size or uint32. *)
(* The widths and limits are constants; the code's are 2^64, 2^30 - 1, 27, *)
(* a class from 128 to 8192, 2^32 and 2^30 - 1.                            *)
(***************************************************************************)
EXTENDS AllocSizes

CONSTANTS
  Word,             \* SIZE_MAX + 1
  MaxAllocSize,     \* the largest request without MCXT_ALLOC_HUGE
  AlignBits,        \* alignments are 2^n for n below this
  allocChunkLimit,  \* of the set that is asked
  Word32,           \* UINT32_MAX + 1
  MaxBlockOffset    \* MEMORYCHUNK_MAX_BLOCKOFFSET

ASSUME RequestAssumption ==
  /\ Word \in Nat /\ Word >= 256 /\ Word % 8 = 0
  /\ MaxAllocSize \in Nat /\ MaxAllocSize < Word \div 2
  /\ AlignBits \in Nat
  /\ \E i \in FreeIndexes : allocChunkLimit = ClassSize(i)
  /\ allocChunkLimit <= MaxAllocSize
  /\ Word32 \in Nat
  /\ MaxBlockOffset \in Nat /\ 2 * MaxBlockOffset < Word32

Sizes == 0..(Word - 1)    \* what a Size can be

Abort == -1    \* in place of a size: the process ends

--------------------------------------------------------------------------------
AllocSizeIsValid(size) == size <= MaxAllocSize

MaxAllocHugeSize == (Word - 1) \div 2

AllocHugeSizeIsValid(size) == size <= MaxAllocHugeSize

(* MemoryContextCheckSize *)
SizeIsAccepted(size, huge) ==
  AllocSizeIsValid(size) \/ (huge /\ AllocHugeSizeIsValid(size))

(* The chunk of AllocSetAllocLarge, and of AllocSetRealloc when the chunk  *)
(* has a block of its own: what malloc's block has besides the headers.  A *)
(* block whose size has wrapped may have less than nothing, but never      *)
(* Abort, since all these numbers are multiples of 8.                      *)
LargeChunk(size, huge) ==
  IF SizeIsAccepted(size, huge)
  THEN (LargeBlockSize(size) % Word) - ALLOC_BLOCKHDRSZ - ALLOC_CHUNKHDRSZ
  ELSE Abort

(* AllocSetAlloc: the size of the chunk that a request gets.  Only those   *)
(* above the chunk limit of the set are checked.                           *)
AllocSetAlloc(size, huge) ==
  IF size > allocChunkLimit THEN LargeChunk(size, huge) ELSE ClassSize(FreeIndex(size))

(* add_size and mul_size, and palloc_mul and its variants, which request   *)
(* what mul_size returns.                                                  *)
mul_size_unchecked(s1, s2) == (s1 * s2) % Word   \* mutant: the overflow is ignored

add_size(s1, s2) == IF s1 + s2 >= Word THEN Abort ELSE s1 + s2
mul_size(s1, s2) == IF s1 * s2 >= Word THEN Abort ELSE s1 * s2

palloc_mul(s1, s2, huge) ==
  IF mul_size(s1, s2) = Abort THEN Abort ELSE AllocSetAlloc(mul_size(s1, s2), huge)

repalloc_mul(s1, s2, huge) ==   \* of a chunk with a block of its own
  IF mul_size(s1, s2) = Abort THEN Abort ELSE LargeChunk(mul_size(s1, s2), huge)

(* MemoryContextAllocAligned.  An alignment that every chunk has needs     *)
(* nothing more; else the sum is made before anything looks at the size.   *)
Alignments == {Power2[n] : n \in 0..(AlignBits - 1)}

AlignedSize(size, alignto) ==
  IF alignto <= 8 THEN size ELSE size + PallocAlignedExtraBytes(alignto)

AllocAligned(size, alignto, huge) == AllocSetAlloc(AlignedSize(size, alignto) % Word, huge)

--------------------------------------------------------------------------------
(* What AllocSetContextCreateInternal asserts of maxBlockSize. *)
MaxBlockSizeIsHuge(max) == AllocHugeSizeIsValid(max)   \* mutant: the other assertion only

MaxBlockSizeIsValid(max) == AllocHugeSizeIsValid(max) /\ max <= MaxBlockOffset

(* The next block size, kept in a uint32 while it is doubled. *)
DoubledBlockSize(size, max) == Smaller((2 * size) % Word32, max)

================================================================================
