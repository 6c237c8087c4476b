------------------------------- MODULE SizeBounds ------------------------------
(***************************************************************************)
(* The arithmetic of AllocSizes and RequestSizes compared with what it     *)
(* is for, at every size from 0 to MaxSize: `size` counts them.  The widths *)
(* of RequestSizes are taken small enough for every size below Word.       *)
(***************************************************************************)
EXTENDS RequestSizes

CONSTANT MaxSize    \* bound

ASSUME MaxSizeAssumption == MaxSize \in Nat

VARIABLE size

Init == size = 0
Next == size < MaxSize /\ size' = size + 1
Spec == Init /\ [][Next]_size

(* AllocSetFreeIndex gives a request the smallest class that holds it, on  *)
(* either side of every power of two, up to ALLOC_CHUNK_LIMIT.             *)
FreeIndexIsLeast ==
  size <= ALLOC_CHUNK_LIMIT =>
    /\ FreeIndex(size) \in FreeIndexes
    /\ size <= ClassSize(FreeIndex(size))
    /\ \A i \in FreeIndexes : size <= ClassSize(i) => FreeIndex(size) <= i

(* When a block has too little room for a chunk, AllocSetAllocFromNewBlock *)
(* cuts the room into chunks of existing classes, no class twice, that fit *)
(* into it with their headers and leave less than the smallest chunk.      *)
CarvingUsesTheRoom ==
  size < ClassSize(ALLOCSET_NUM_FREELISTS - 1) + ALLOC_CHUNKHDRSZ =>
    LET classes == Carved[size]
        left == size - CarvedSpace(classes)[Len(classes)]
    IN  /\ \A n \in DOMAIN classes : classes[n] \in FreeIndexes
        /\ \A m, n \in DOMAIN classes : m < n => classes[n] < classes[m]
        /\ 0 <= left /\ left < ClassSize(0) + ALLOC_CHUNKHDRSZ

(* For a set whose maxBlockSize is `size`, the chunk limit that            *)
(* AllocSetContextCreateInternal computes is the largest class of which    *)
(* four, with their headers, fit in a block.                               *)
ChunkLimitIsGreatest ==
  size >= 1024 =>
    LET Fits(i) == 4 * (ClassSize(i) + ALLOC_CHUNKHDRSZ) + ALLOC_BLOCKHDRSZ <= size IN
    \E i \in FreeIndexes :
      /\ ChunkLimit(size) = ClassSize(i)
      /\ Fits(i)
      /\ \A j \in FreeIndexes : Fits(j) => j <= i

(* A new block, begun with `size` and doubled until it is large enough,    *)
(* holds its headers and the chunk it is made for, whatever the class; a   *)
(* block that is large enough is not doubled.                              *)
BlockHoldsChunk ==
  size >= 1024 =>
    \A i \in FreeIndexes :
      LET b == BlockSize(size, i)
          needed == ALLOC_BLOCKHDRSZ + ALLOC_CHUNKHDRSZ + ClassSize(i)
      IN  needed <= b /\ (b > size => b < 2 * needed)

(* A request for this many bytes, the exact number, gets a chunk that has  *)
(* them if it is within its limit, and ends the process if it is not.      *)
Limit(huge) == IF huge THEN MaxAllocHugeSize ELSE MaxAllocSize

Answers(chunk, bytes, huge) ==
  IF bytes > Limit(huge) THEN chunk = Abort ELSE chunk >= bytes

(* What palloc_mul, repalloc_mul and add_size make of any two sizes is     *)
(* answered for the exact product or sum: it is not cut off on the way,    *)
(* where AllocSetAllocLarge and AllocSetRealloc add rounding and headers   *)
(* to a size they have checked, and neither is one refused for being near  *)
(* the limit.                                                              *)
RequestsHeld ==
  size < Word =>
    \A other \in Sizes, huge \in BOOLEAN :
      /\ Answers(palloc_mul(size, other, huge), size * other, huge)
      /\ Answers(repalloc_mul(size, other, huge), size * other, huge)
      /\ Answers(IF add_size(size, other) = Abort THEN Abort
                 ELSE AllocSetAlloc(add_size(size, other), huge), size + other, huge)

(* memutils.h:24-25 says of the limits that "larger requests will be       *)
(* summarily denied", and test_abort_paths.c:3 that "an invalid size must  *)
(* terminate the process".  MemoryContextAllocAligned adds to the size     *)
(* before it is checked, and what is checked may be the wrapped sum.       *)
AlignedRequestsHeld ==
  size < Word =>
    \A alignto \in Alignments, huge \in BOOLEAN :
      Answers(AllocAligned(size, alignto, huge), AlignedSize(size, alignto), huge)

(* aset.c:289 says of maxBlockSize that it "must be safe to double": the   *)
(* uint32 that AllocSetAllocFromNewBlock doubles does not wrap, so blocks  *)
(* grow until they have reached maxBlockSize and never shrink.             *)
SafeToDouble ==
  \A max \in Sizes :
    MaxBlockSizeIsValid(max) /\ size <= max =>
      LET new == DoubledBlockSize(size, max) IN
      new \in size..max /\ (new = 2 * size \/ new = max)

================================================================================
