---------------------------- MODULE SizeBoundsProofs ---------------------------
(***************************************************************************)
(* Proofs about the size arithmetic: that of requests for words and limits *)
(* of any size that RequestAssumption allows, the code's among them, and   *)
(* that of aset.c at every size, by the lemmas of AllocSizesProofs.        *)
(***************************************************************************)
EXTENDS SizeBounds, AllocSizesProofs

(* The counter of sizes is a natural number. *)
LEMMA SizeIsNatural == Spec => [](size \in Nat)
<1>1. Init => size \in Nat
  BY DEF Init
<1>2. size \in Nat /\ [Next]_size => (size \in Nat)'
  BY DEF Next
<1>3. QED
  BY <1>1, <1>2, PTL DEF Spec

(* The limits lie below half a word. *)
LEMMA LimitIsBelowHalf ==
  ASSUME NEW huge \in BOOLEAN
  PROVE  /\ Limit(huge) \in Nat /\ 2 * Limit(huge) < Word
         /\ MaxAllocSize <= Limit(huge)
<1>1. Word \in Nat /\ MaxAllocSize \in Nat /\ MaxAllocSize < Word \div 2 /\ Word % 8 = 0
      /\ Word >= 256
  BY RequestAssumption
<1>2. MaxAllocHugeSize \in Nat /\ 2 * MaxAllocHugeSize < Word /\ MaxAllocSize <= MaxAllocHugeSize
  <2>1. PICK w \in Nat : Word = 2 * w
    <3>1. Word \div 8 \in Nat /\ Word = 2 * (4 * (Word \div 8))
      BY <1>1
    <3>2. QED
      BY <3>1
  <2>2. (Word - 1) \div 2 = w - 1 /\ Word \div 2 = w /\ w >= 128
    BY <1>1, <2>1
  <2>3. QED
    BY <1>1, <2>1, <2>2 DEF MaxAllocHugeSize
<1>3. 2 * MaxAllocSize < Word
  BY <1>1
<1>4. QED
  BY <1>1, <1>2, <1>3 DEF Limit

(* MemoryContextCheckSize accepts what is within the limit. *)
LEMMA AcceptedIsWithinLimit ==
  ASSUME NEW n \in Nat, NEW huge \in BOOLEAN
  PROVE  SizeIsAccepted(n, huge) <=> n <= Limit(huge)
<1>1. MaxAllocSize \in Nat /\ MaxAllocSize <= MaxAllocHugeSize /\ MaxAllocHugeSize \in Nat
  BY LimitIsBelowHalf, RequestAssumption DEF Limit
<1>2. CASE huge
  BY <1>1, <1>2 DEF SizeIsAccepted, AllocSizeIsValid, AllocHugeSizeIsValid, Limit
<1>3. CASE ~ huge
  BY <1>1, <1>3 DEF SizeIsAccepted, AllocSizeIsValid, Limit
<1>4. QED
  BY <1>2, <1>3

(* The block of a large chunk has what the request was for, or there is no *)
(* block: the headers and the rounding do not make its size wrap.          *)
LEMMA LargeChunkAnswers ==
  ASSUME NEW n \in Nat, NEW huge \in BOOLEAN
  PROVE  Answers(LargeChunk(n, huge), n, huge)
<1>1. CASE ~ SizeIsAccepted(n, huge)
  <2>1. LargeChunk(n, huge) = Abort
    BY <1>1 DEF LargeChunk
  <2>2. ~ (n <= Limit(huge))
    BY <1>1, AcceptedIsWithinLimit
  <2>3. n > Limit(huge)
    BY <2>2, LimitIsBelowHalf
  <2>4. QED
    BY <2>1, <2>3 DEF Answers
<1>2. CASE SizeIsAccepted(n, huge)
  <2> DEFINE block == LargeBlockSize(n)
  <2>1. n <= Limit(huge)
    BY <1>2, AcceptedIsWithinLimit
  <2>2. 2 * n < Word /\ Word \in Nat /\ Word >= 256
    BY <2>1, LimitIsBelowHalf, RequestAssumption
  <2>3. block \in Nat /\ n + 48 <= block /\ block < n + 56
    BY MaxAlignRoundsUp DEF LargeBlockSize, ALLOC_BLOCKHDRSZ, ALLOC_CHUNKHDRSZ
  <2> HIDE DEF block
  <2>4. block < Word
    BY <2>2, <2>3
  <2>5. block % Word = block
    BY <2>2, <2>3, <2>4
  <2>6. LargeChunk(n, huge) = block - 40 - 8
    BY <1>2, <2>5 DEF LargeChunk, ALLOC_BLOCKHDRSZ, ALLOC_CHUNKHDRSZ, block
  <2>7. ~ (n > Limit(huge))
    BY <2>1, LimitIsBelowHalf
  <2>8. QED
    BY <2>3, <2>6, <2>7 DEF Answers
<1>3. QED
  BY <1>1, <1>2

(* So has a chunk of a freelist class, for which nothing is checked. *)
LEMMA AllocSetAllocAnswers ==
  ASSUME NEW n \in Nat, NEW huge \in BOOLEAN
  PROVE  Answers(AllocSetAlloc(n, huge), n, huge)
<1>1. PICK i \in FreeIndexes : allocChunkLimit = ClassSize(i)
  BY RequestAssumption
<1>2. allocChunkLimit \in Nat /\ allocChunkLimit <= Limit(huge)
  <2>1. ClassSize(i) \in Nat
    BY ClassSizeOrder DEF FreeIndexes, ALLOCSET_NUM_FREELISTS
  <2>2. QED
    BY <1>1, <2>1, LimitIsBelowHalf, RequestAssumption
<1>3. CASE n > allocChunkLimit
  BY <1>3, LargeChunkAnswers DEF AllocSetAlloc
<1>4. CASE ~ (n > allocChunkLimit)
  <2>1. AllocSetAlloc(n, huge) = ClassSize(FreeIndex(n))
    BY <1>4 DEF AllocSetAlloc
  <2>2. ClassSize(FreeIndex(n)) \in Nat /\ n <= ClassSize(FreeIndex(n))
    BY FreeIndexTight, ClassSizeOrder
  <2>3. ~ (n > Limit(huge))
    BY <1>2, <1>4, LimitIsBelowHalf
  <2>4. QED
    BY <2>1, <2>2, <2>3 DEF Answers
<1>5. QED
  BY <1>3, <1>4

(* A number that is no Size is above every limit. *)
LEMMA BeyondSizesAnswers ==
  ASSUME NEW n \in Nat, NEW huge \in BOOLEAN, n >= Word
  PROVE  Answers(Abort, n, huge)
<1>1. n > Limit(huge)
  BY LimitIsBelowHalf, RequestAssumption
<1>2. QED
  BY <1>1 DEF Answers

(* A request for an array: the product that is passed on is the exact one. *)
LEMMA ArrayRequestAnswers ==
  ASSUME NEW n \in Nat, NEW m \in Nat, NEW huge \in BOOLEAN
  PROVE  /\ Answers(palloc_mul(n, m, huge), n * m, huge)
         /\ Answers(repalloc_mul(n, m, huge), n * m, huge)
<1> DEFINE p == n * m
<1>1. p \in Nat
  OBVIOUS
<1>2. CASE p >= Word
  <2>1. palloc_mul(n, m, huge) = Abort /\ repalloc_mul(n, m, huge) = Abort
    BY <1>2 DEF palloc_mul, repalloc_mul, mul_size
  <2>2. Answers(Abort, p, huge)
    BY <1>1, <1>2, BeyondSizesAnswers
  <2>3. QED
    BY <2>1, <2>2
<1>3. CASE ~ (p >= Word)
  <2>1. mul_size(n, m) = p /\ p # Abort
    BY <1>1, <1>3 DEF mul_size, Abort
  <2>2. palloc_mul(n, m, huge) = AllocSetAlloc(p, huge)
        /\ repalloc_mul(n, m, huge) = LargeChunk(p, huge)
    BY <2>1 DEF palloc_mul, repalloc_mul
  <2>3. QED
    BY <1>1, <2>2, AllocSetAllocAnswers, LargeChunkAnswers
<1>4. QED
  BY <1>2, <1>3

(* Likewise for a sum made with add_size. *)
LEMMA SumRequestAnswers ==
  ASSUME NEW n \in Nat, NEW m \in Nat, NEW huge \in BOOLEAN
  PROVE  Answers(IF add_size(n, m) = Abort THEN Abort
                 ELSE AllocSetAlloc(add_size(n, m), huge), n + m, huge)
<1>1. CASE n + m >= Word
  <2>1. add_size(n, m) = Abort
    BY <1>1 DEF add_size
  <2>2. QED
    BY <1>1, <2>1, BeyondSizesAnswers
<1>2. CASE ~ (n + m >= Word)
  <2>1. add_size(n, m) = n + m /\ n + m # Abort /\ n + m \in Nat
    BY <1>2 DEF add_size, Abort
  <2>2. QED
    BY <2>1, AllocSetAllocAnswers
<1>3. QED
  BY <1>1, <1>2

--------------------------------------------------------------------------------
(* No product and no sum that is made with mul_size or add_size is cut off *)
(* on its way to a chunk, by the check before it, the limits or the        *)
(* headers that are added after it: whatever the width of a Size and the   *)
(* limits, the chunk has the exact number of bytes, and the process ends   *)
(* just for the numbers above the limit.                                   *)
THEOREM RequestsAreHeld == Spec => []RequestsHeld
<1>1. ASSUME size \in Nat
      PROVE  RequestsHeld
  <2>1. \A other \in Sizes : other \in Nat
    BY RequestAssumption DEF Sizes
  <2>2. QED
    BY <1>1, <2>1, ArrayRequestAnswers, SumRequestAnswers DEF RequestsHeld
<1>2. QED
  BY <1>1, SizeIsNatural, PTL

(* Doubling nextBlockSize in a uint32 never wraps for a maxBlockSize that  *)
(* AllocSetContextCreateInternal accepts, so blocks do not shrink.         *)
THEOREM DoublingIsSafe == Spec => []SafeToDouble
<1>1. ASSUME size \in Nat
      PROVE  SafeToDouble
  <2> SUFFICES ASSUME NEW max \in Sizes, MaxBlockSizeIsValid(max), size <= max
               PROVE  LET new == DoubledBlockSize(size, max) IN
                      new \in size..max /\ (new = 2 * size \/ new = max)
    BY DEF SafeToDouble
  <2>1. max \in Nat /\ max <= MaxBlockOffset
    BY RequestAssumption DEF Sizes, MaxBlockSizeIsValid
  <2>2. 2 * size \in Nat /\ 2 * size < Word32
    BY <1>1, <2>1, RequestAssumption
  <2>3. (2 * size) % Word32 = 2 * size
    BY <2>2, RequestAssumption
  <2>4. DoubledBlockSize(size, max) = IF 2 * size < max THEN 2 * size ELSE max
    BY <2>3 DEF DoubledBlockSize, Smaller
  <2>5. QED
    BY <1>1, <2>1, <2>4
<1>2. QED
  BY <1>1, SizeIsNatural, PTL

--------------------------------------------------------------------------------
(* AllocSetFreeIndex gives the least class that holds the request, at      *)
(* every size up to the limit and not only at those a run counts through.  *)
THEOREM FreeIndexIsTheLeast == Spec => []FreeIndexIsLeast
<1>1. ASSUME size \in Nat
      PROVE  FreeIndexIsLeast
  <2> SUFFICES ASSUME size <= ALLOC_CHUNK_LIMIT
               PROVE  /\ FreeIndex(size) \in FreeIndexes
                      /\ size <= ClassSize(FreeIndex(size))
                      /\ \A i \in FreeIndexes : size <= ClassSize(i) => FreeIndex(size) <= i
    BY DEF FreeIndexIsLeast
  <2>1. FreeIndexes \subseteq Nat
    BY DEF FreeIndexes, ALLOCSET_NUM_FREELISTS
  <2>2. FreeIndex(size) \in FreeIndexes
    BY <1>1, FreeIndexExists
  <2>3. /\ size <= ClassSize(FreeIndex(size))
        /\ \A i \in Nat : size <= ClassSize(i) => FreeIndex(size) <= i
    BY <1>1, FreeIndexTight
  <2>4. QED
    BY <2>1, <2>2, <2>3
<1>2. QED
  BY <1>1, SizeIsNatural, PTL

(* The loop of AllocSetAllocFromNewBlock cuts whatever room is left into   *)
(* chunks of existing classes, no two of one class, and wastes less than   *)
(* the smallest chunk.                                                     *)
THEOREM CarvingFillsTheRoom == Spec => []CarvingUsesTheRoom
<1>1. ASSUME size \in Nat
      PROVE  CarvingUsesTheRoom
  <2> DEFINE c == Carved[size]
             left == size - CarvedSpace(c)[Len(c)]
  <2> SUFFICES ASSUME size < ClassSize(ALLOCSET_NUM_FREELISTS - 1) + ALLOC_CHUNKHDRSZ
               PROVE  /\ \A n \in DOMAIN c : c[n] \in FreeIndexes
                      /\ \A m, n \in DOMAIN c : m < n => c[n] < c[m]
                      /\ 0 <= left /\ left < ClassSize(0) + ALLOC_CHUNKHDRSZ
    BY DEF CarvingUsesTheRoom
  <2>1. size < 8200
    BY ClassSizes DEF ALLOCSET_NUM_FREELISTS, ALLOC_CHUNKHDRSZ
  <2>2. /\ c \in Seq(Nat)
        /\ \A k \in 1..Len(c) : ClassSize(c[k]) \in Nat /\ ClassSize(c[k]) <= size - 8
        /\ \A j, k \in 1..Len(c) : j < k => c[k] < c[j]
    BY <1>1, CarvedFills DEF CutsUp
  <2>3. PICK t \in [0..Len(c) -> Int] :
          Takes(c, t) /\ t[Len(c)] <= size /\ size < t[Len(c)] + 16
    BY <1>1, CarvedFills DEF CutsUp
  <2> HIDE DEF c
  <2>4. CarvedSpace(c) = t
    BY <2>2, <2>3, CarvedSpaceTakes
  <2>5. DOMAIN c = 1..Len(c) /\ Len(c) \in Nat /\ Len(c) \in 0..Len(c)
        /\ \A k \in 1..Len(c) : c[k] \in Nat
    BY <2>2
  <2>6. ASSUME NEW k \in 1..Len(c)
        PROVE  c[k] \in FreeIndexes
    <3>1. c[k] \in Nat /\ ClassSize(c[k]) \in Nat /\ ClassSize(c[k]) <= size - 8
      BY <2>2, <2>5, Zenon
    <3>2. ClassSize(c[k]) < 8192
      BY <1>1, <2>1, <3>1
    <3>3. 10 \in Nat /\ ClassSize(10) = 8192
      BY ClassSizes
    <3>4. c[k] < 10
      <4>1. \A i \in Nat : ClassSize(i) < ClassSize(10) => i < 10
        BY <3>3, ClassSizeOrder
      <4>2. ClassSize(c[k]) < ClassSize(10)
        BY <3>2, <3>3
      <4>3. QED
        BY <3>1, <4>1, <4>2
    <3>5. QED
      BY <3>1, <3>4 DEF FreeIndexes, ALLOCSET_NUM_FREELISTS
  <2>7. t[Len(c)] \in Int
    BY <2>3, <2>5
  <2>8. 0 <= left /\ left < 16
    <3>1. left = size - t[Len(c)]
      BY <2>4, Zenon
    <3>2. t[Len(c)] <= size /\ size < t[Len(c)] + 16
      BY <2>3, Zenon
    <3> HIDE DEF left
    <3>3. QED
      BY <1>1, <2>7, <3>1, <3>2
  <2>9. ClassSize(0) + ALLOC_CHUNKHDRSZ = 16
    BY ClassSizes DEF ALLOC_CHUNKHDRSZ
  <2>10. \A j, k \in DOMAIN c : j < k => c[k] < c[j]
    BY <2>2, <2>5, Zenon
  <2> HIDE DEF left
  <2>11. QED
    BY <2>5, <2>6, <2>8, <2>9, <2>10, Zenon
<1>2. QED
  BY <1>1, SizeIsNatural, PTL

(* The loop of AllocSetContextCreateInternal ends with the largest class   *)
(* of which four fit, for a maxBlockSize of any size.                      *)
THEOREM ChunkLimitIsTheGreatest == Spec => []ChunkLimitIsGreatest
<1>1. ASSUME size \in Nat
      PROVE  ChunkLimitIsGreatest
  <2> DEFINE fraction == (size - 40) \div 4
             Fits(i) == 4 * (ClassSize(i) + ALLOC_CHUNKHDRSZ) + ALLOC_BLOCKHDRSZ <= size
  <2> SUFFICES ASSUME size >= 1024
               PROVE  \E i \in FreeIndexes :
                        /\ ChunkLimit(size) = ClassSize(i)
                        /\ Fits(i)
                        /\ \A j \in FreeIndexes : Fits(j) => j <= i
    BY DEF ChunkLimitIsGreatest
  <2>1. fraction \in Nat /\ fraction >= 136 /\ 4 * fraction <= size - 40
        /\ size - 40 < 4 * fraction + 4
    BY <1>1
  <2>2. ChunkLimit(size) = ChunkLimitWithin(fraction)
    BY DEF ChunkLimit, ALLOC_BLOCKHDRSZ, ALLOC_CHUNK_FRACTION
  <2> HIDE DEF fraction
  <2>3. \A i \in FreeIndexes : Fits(i) <=> ClassSize(i) + ALLOC_CHUNKHDRSZ <= fraction
    <3>1. \A i \in FreeIndexes : ClassSize(i) \in Nat
      BY ClassSizeOrder DEF FreeIndexes, ALLOCSET_NUM_FREELISTS
    <3>2. QED
      BY <1>1, <2>1, <3>1 DEF ALLOC_CHUNKHDRSZ, ALLOC_BLOCKHDRSZ
  <2>4. PICK i \in FreeIndexes :
           /\ ChunkLimitWithin(fraction) = ClassSize(i)
           /\ ClassSize(i) + ALLOC_CHUNKHDRSZ <= fraction
           /\ \A j \in FreeIndexes : ClassSize(j) + ALLOC_CHUNKHDRSZ <= fraction => j <= i
    BY <2>1, ChunkLimitIs
  <2> HIDE DEF Fits
  <2>5. QED
    BY <2>2, <2>3, <2>4
<1>2. QED
  BY <1>1, SizeIsNatural, PTL

(* A new block, however small the set begins, holds the chunk it is for.   *)
THEOREM BlocksHoldTheirChunk == Spec => []BlockHoldsChunk
<1>1. ASSUME size \in Nat
      PROVE  BlockHoldsChunk
  <2> SUFFICES ASSUME size >= 1024, NEW i \in FreeIndexes
               PROVE  LET b == BlockSize(size, i)
                          needed == ALLOC_BLOCKHDRSZ + ALLOC_CHUNKHDRSZ + ClassSize(i)
                      IN  needed <= b /\ (b > size => b < 2 * needed)
    BY DEF BlockHoldsChunk
  <2>1. ClassSize(i) \in Nat
    BY ClassSizeOrder DEF FreeIndexes, ALLOCSET_NUM_FREELISTS
  <2>2. RequiredSize(i) = ALLOC_BLOCKHDRSZ + ALLOC_CHUNKHDRSZ + ClassSize(i)
    BY <2>1 DEF RequiredSize, ALLOC_BLOCKHDRSZ, ALLOC_CHUNKHDRSZ
  <2>3. /\ RequiredSize(i) <= BlockSize(size, i)
        /\ BlockSize(size, i) > size => BlockSize(size, i) < 2 * RequiredSize(i)
    BY <1>1, BlockSizeFits
  <2>4. QED
    BY <2>2, <2>3
<1>2. QED
  BY <1>1, SizeIsNatural, PTL

================================================================================
