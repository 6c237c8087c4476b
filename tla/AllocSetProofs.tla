---------------------------- MODULE AllocSetProofs -----------------------------
(***************************************************************************)
(* AllocSet satisfies its invariants and implements Heap, for all blocks,  *)
(* requests and parameters.                                                *)
(*                                                                         *)
(* The inductive invariant AllocInv says of each block that the chunks in  *)
(* it fill it (Filled, by Tiles: each begins where one ends), of the       *)
(* blocks that they are one list linked in both directions (Linked), and   *)
(* of each freelist that it is a list of exactly the chunks of its class   *)
(* nobody holds (Threaded). Each of these needs the others: carving is     *)
(* sound if the active block has no external chunk and no chunk at or      *)
(* after freeptr; a chunk that is popped is of the size asked for and held *)
(* by nobody if the freelist has such chunks only, once each; and freeing  *)
(* an external chunk frees one block and no other chunk.                   *)
(*                                                                         *)
(* Lists are ListOf and sums are SumFunctionOnSet, of AllocSizesProofs.    *)
(* What the properties say in terms of walks (Nth, Listed, CheckPasses,    *)
(* StatsAddUp) follows from AllocInv at the end.                           *)
(***************************************************************************)
EXTENDS AllocSet, AllocSizesProofs

(* The chunks of a block, and those nobody holds of a class. *)
InBlock(b) == {c \in Chunks : c[1] = b}
Unheld(i) == {c \in Chunks \ Held : hdr[c] = i}

Ends == [c \in Chunks |-> ChunkEnd(c)]

(***************************************************************************)
(* The chunks C of block b, with ends E, fill it from lo to hi: each       *)
(* begins at lo or where one ends and ends at hi or where one begins.      *)
(***************************************************************************)
Tiles(b, C, E, lo, hi) ==
  /\ lo \in Nat /\ hi \in Nat /\ lo <= hi
  /\ \A c \in C : /\ c \in Address /\ c[1] = b /\ E[c] \in Nat
                  /\ lo <= c[2] /\ c[2] + ALLOC_CHUNKHDRSZ <= E[c] /\ E[c] <= hi
                  /\ E[c] = hi \/ <<b, E[c]>> \in C
                  /\ c[2] = lo \/ \E d \in C : E[d] = c[2]
  /\ hi = lo \/ (<<b, lo>> \in C /\ \E d \in C : E[d] = hi)
  /\ \A c, d \in C : E[c] = E[d] => c = d

--------------------------------------------------------------------------------
(* The types, and of the sizes what the requests rely on: there are        *)
(* finitely many chunks and the limit is the size of a class.              *)
MemoryTypes ==
  /\ owned \in SUBSET Block
  /\ next \in [Block -> Block \cup {NULL}] /\ prev \in [Block -> Block \cup {NULL}]
  /\ freeptr \in [Block -> Nat] /\ endptr \in [Block -> Nat]
  /\ Chunks \subseteq Address /\ IsFiniteSet(Chunks)
  /\ hdr \in [Chunks -> FreeIndexes \cup {External}]
  /\ data \in [Chunks -> Contents]
  /\ freelist \in [FreeIndexes -> Address \cup {NULL}]
  /\ maxBlockSize \in MaxBlockSize /\ nextBlockSize \in InitBlockSize..maxBlockSize
  /\ \E k \in FreeIndexes : chunkLimit = ClassSize(k)

(* What clients hold; while a realloc moves a chunk, the second one too.   *)
ClientTypes ==
  /\ inUse \subseteq Chunks
  /\ \/ moving = NULL
     \/ moving \in [from : inUse, to : Chunks \ inUse] /\ ~ IsExternal(moving.from)

(* The list of blocks, in both directions.                                 *)
Linked ==
  /\ Keeper \in owned /\ blocks \in owned
  /\ ListOf(owned, blocks, next, NULL)
  /\ prev[blocks] = NULL
  /\ \A b \in owned : prev[b] \in owned \cup {NULL}
  /\ \A a, b \in owned : next[a] = b <=> prev[b] = a

(* The chunks of each block fill it up to freeptr.  Only the keeper block  *)
(* may have none.  An external chunk is alone in its block, which is       *)
(* neither the active block nor the keeper.                                *)
Filled ==
  /\ \A c \in Chunks : c[1] \in owned
  /\ \A b \in owned : /\ Tiles(b, InBlock(b), Ends, ALLOC_BLOCKHDRSZ, freeptr[b])
                      /\ freeptr[b] <= endptr[b]
                      /\ freeptr[b] = ALLOC_BLOCKHDRSZ => b = Keeper
  /\ \A c \in Chunks :
       IsExternal(c) => /\ c \in Held /\ c[1] # blocks /\ c[1] # Keeper
                        /\ InBlock(c[1]) = {c} /\ freeptr[c[1]] = endptr[c[1]]

(* The list of class i has the chunks of that class nobody holds, once     *)
(* each.                                                                   *)
Threaded == \A i \in FreeIndexes : ListOf(Unheld(i), freelist[i], data, NULL)

(* The inductive invariant.                                                *)
AllocInv == MemoryTypes /\ ClientTypes /\ Linked /\ Filled /\ Threaded /\ AccountingOK

--------------------------------------------------------------------------------
(* Tiles depends only on the ends of C. *)
LEMMA TilesStay ==
  ASSUME NEW b, NEW C, NEW E, NEW F, NEW lo, NEW hi,
         Tiles(b, C, E, lo, hi), Agree(F, E, C)
  PROVE  Tiles(b, C, F, lo, hi)
  BY DEF Tiles, Agree

(* Nothing, and one chunk. *)
LEMMA TilesNone ==
  ASSUME NEW b, NEW E, NEW lo \in Nat
  PROVE  Tiles(b, {}, E, lo, lo)
  BY DEF Tiles

(* One chunk from lo to hi. *)
LEMMA TilesOne ==
  ASSUME NEW b \in Block, NEW E, NEW lo \in Nat, NEW hi \in Nat, NEW c, c = <<b, lo>>,
         E[c] = hi, lo + 8 <= hi
  PROVE  Tiles(b, {c}, E, lo, hi)
<1>1. c \in Address /\ c[1] = b /\ c[2] = lo
  BY DEF Address
<1>2. QED
  BY <1>1 DEF Tiles, ALLOC_CHUNKHDRSZ

(* A chunk begins before hi, so hi is where no chunk begins.               *)
LEMMA TilesBelow ==
  ASSUME NEW b, NEW C, NEW E, NEW lo, NEW hi, Tiles(b, C, E, lo, hi), NEW c \in C
  PROVE  /\ lo \in Nat /\ hi \in Nat /\ lo <= hi
         /\ c[2] \in Nat /\ E[c] \in Nat
         /\ lo <= c[2] /\ c[2] < hi /\ c[2] < E[c] /\ E[c] <= hi /\ c = <<b, c[2]>>
<1>1. /\ c \in Address /\ c[1] = b /\ lo <= c[2] /\ c[2] + 8 <= E[c] /\ E[c] <= hi
      /\ E[c] \in Nat /\ lo \in Nat /\ hi \in Nat /\ lo <= hi
  BY DEF Tiles, ALLOC_CHUNKHDRSZ
<1>2. c = <<c[1], c[2]>> /\ c[2] \in Nat
  BY <1>1 DEF Address
<1>3. QED
  BY <1>1, <1>2

(* Chunks that go on where others end. *)
LEMMA TilesJoin ==
  ASSUME NEW b, NEW C, NEW D, NEW E, NEW lo, NEW mid, NEW hi,
         Tiles(b, C, E, lo, mid), Tiles(b, D, E, mid, hi)
  PROVE  Tiles(b, C \cup D, E, lo, hi)
<1>1. lo \in Nat /\ mid \in Nat /\ hi \in Nat /\ lo <= mid /\ mid <= hi
  BY DEF Tiles
<1>2. \A c \in C : c[2] \in Nat /\ lo <= c[2] /\ c[2] < mid /\ c[2] < E[c] /\ E[c] <= mid /\ E[c] \in Nat
  BY TilesBelow
<1>3. \A d \in D : d[2] \in Nat /\ mid <= d[2] /\ d[2] < hi /\ d[2] < E[d] /\ E[d] <= hi /\ E[d] \in Nat
  BY TilesBelow
<1>4. ASSUME NEW c \in C \cup D
      PROVE  /\ c \in Address /\ c[1] = b /\ E[c] \in Nat
             /\ lo <= c[2] /\ c[2] + ALLOC_CHUNKHDRSZ <= E[c] /\ E[c] <= hi
             /\ E[c] = hi \/ <<b, E[c]>> \in C \cup D
             /\ c[2] = lo \/ \E d \in C \cup D : E[d] = c[2]
  <2>1. CASE c \in C
    <3>1. c \in Address /\ c[1] = b /\ c[2] + ALLOC_CHUNKHDRSZ <= E[c]
      BY <2>1 DEF Tiles
    <3>2. lo <= c[2] /\ E[c] <= hi
      BY <1>1, <1>2, <2>1
    <3>3. E[c] = hi \/ <<b, E[c]>> \in C \cup D
      BY <2>1 DEF Tiles
    <3>4. c[2] = lo \/ \E d \in C \cup D : E[d] = c[2]
      BY <2>1 DEF Tiles
    <3>5. QED
      BY <1>2, <2>1, <3>1, <3>2, <3>3, <3>4
  <2>2. CASE c \in D
    <3>1. c \in Address /\ c[1] = b /\ c[2] + ALLOC_CHUNKHDRSZ <= E[c]
      BY <2>2 DEF Tiles
    <3>2. lo <= c[2] /\ E[c] <= hi
      BY <1>1, <1>3, <2>2
    <3>3. E[c] = hi \/ <<b, E[c]>> \in C \cup D
      BY <2>2 DEF Tiles
    <3>4. c[2] = mid \/ \E d \in D : E[d] = c[2]
      BY <2>2 DEF Tiles
    <3>5. mid = lo \/ \E d \in C : E[d] = mid
      BY DEF Tiles
    <3>6. QED
      BY <1>3, <2>2, <3>1, <3>2, <3>3, <3>4, <3>5
  <2>3. QED
    BY <2>1, <2>2
<1>5. hi = lo \/ (<<b, lo>> \in C \cup D /\ \E d \in C \cup D : E[d] = hi)
  <2>1. mid = lo \/ (<<b, lo>> \in C /\ \E d \in C : E[d] = mid)
    BY DEF Tiles
  <2>2. hi = mid \/ (<<b, mid>> \in D /\ \E d \in D : E[d] = hi)
    BY DEF Tiles
  <2>3. QED
    BY <2>1, <2>2
<1>6. ASSUME NEW c \in C \cup D, NEW d \in C \cup D, E[c] = E[d]
      PROVE  c = d
  <2>1. ASSUME NEW x \in C, NEW y \in D PROVE E[x] # E[y]
    BY <1>1, <1>2, <1>3
  <2>2. QED
    BY <1>6, <2>1 DEF Tiles
<1>7. lo <= hi
  BY <1>1
<1>8. QED
  BY <1>1, <1>4, <1>5, <1>6, <1>7 DEF Tiles

--------------------------------------------------------------------------------
(* The classes and block sizes that requests lead to. *)
LEMMA ClassFacts ==
  ASSUME NEW i \in FreeIndexes
  PROVE  /\ i \in Nat /\ i # External /\ ClassSize(i) \in Nat /\ 8 <= ClassSize(i)
         /\ ClassSize(i) <= 8192 /\ Footprint(i) \in Nat /\ Footprint(i) = ClassSize(i) + 8
<1>1. i \in {0, 1, 2, 3, 4, 5, 6, 7, 8, 9, 10}
  BY DEF FreeIndexes, ALLOCSET_NUM_FREELISTS
<1>2. ClassSize(i) \in Nat /\ 8 <= ClassSize(i) /\ ClassSize(i) <= 8192
  BY <1>1, ClassSizes
<1>3. QED
  BY <1>1, <1>2 DEF Footprint, ALLOC_CHUNKHDRSZ, External

(* The block of a large request has room for its two headers. *)
LEMMA LargeFacts ==
  ASSUME NEW size \in Nat
  PROVE  LargeBlockSize(size) \in Nat /\ 48 <= LargeBlockSize(size)
<1>1. MaxAlign(size) \in Nat
  BY MaxAlignRoundsUp
<1>2. QED
  BY <1>1 DEF LargeBlockSize, ALLOC_BLOCKHDRSZ, ALLOC_CHUNKHDRSZ

(* So has the keeper block. *)
LEMMA KeeperFacts ==
  KeeperSize \in Nat /\ 48 <= KeeperSize
<1>1. InitBlockSize \in Nat /\ InitBlockSize >= 1024 /\ MinContextSize \in Nat
  BY AllocSetAssumption
<1>2. QED
  BY <1>1 DEF KeeperSize, FirstBlockSize, Larger, ALLOC_CONTEXTSZ, ALLOC_BLOCKHDRSZ, ALLOC_CHUNKHDRSZ

(* A request up to the limit of the set has a class. *)
LEMMA SmallClass ==
  ASSUME MemoryTypes, NEW size \in Nat, size <= chunkLimit
  PROVE  FreeIndex(size) \in FreeIndexes
<1>1. PICK k \in FreeIndexes : chunkLimit = ClassSize(k)
  BY DEF MemoryTypes
<1>2. chunkLimit \in Nat /\ chunkLimit <= 8192
  BY <1>1, ClassFacts
<1>3. QED
  BY <1>2, FreeIndexExists DEF ALLOC_CHUNK_LIMIT

(* The limit of a set is the size of a class. *)
LEMMA LimitIsClass ==
  ASSUME NEW max \in MaxBlockSize
  PROVE  \E k \in FreeIndexes : ChunkLimit(max) = ClassSize(k)
<1>1. max \in Nat /\ max >= 1024
  BY AllocSetAssumption
<1> DEFINE fraction == (max - 40) \div 4
<1>2. fraction \in Nat /\ fraction >= 136
  BY <1>1
<1>3. ChunkLimit(max) = ChunkLimitWithin(fraction)
  BY DEF ChunkLimit, ALLOC_BLOCKHDRSZ, ALLOC_CHUNK_FRACTION
<1> HIDE DEF fraction
<1>4. QED
  BY <1>2, <1>3, ChunkLimitIs

--------------------------------------------------------------------------------
(***************************************************************************)
(* What a request leaves, whichever way it got its chunk c and will be     *)
(* stored in it: v.                                                        *)
(***************************************************************************)
Obtained(c, v) ==
  /\ MemoryTypes' /\ Linked' /\ Filled' /\ Threaded' /\ AccountingOK'
  /\ c \in Chunks' \ Held /\ Chunks \subseteq Chunks'
  /\ data'[c] = v /\ \A d \in Held : data'[d] = data[d]
  /\ \A d \in Chunks : hdr'[d] = hdr[d]

(* What the lists of free chunks are made of. *)
LEMMA UnheldFacts ==
  ASSUME AllocInv, NEW i \in FreeIndexes
  PROVE  /\ freelist[i] = NULL \/ freelist[i] \in Unheld(i)
         /\ \A c \in Unheld(i) : /\ c \in Chunks /\ c \notin Held /\ hdr[c] = i /\ c # NULL
                                 /\ data[c] = NULL \/ data[c] \in Unheld(i)
<1>1. ListOf(Unheld(i), freelist[i], data, NULL)
  BY DEF AllocInv, Threaded
<1>2. QED
  BY <1>1 DEF ListOf, Follow, Unheld

(* What clients hold is among the chunks, and each chunk is in a block. *)
LEMMA HeldFacts ==
  ASSUME AllocInv
  PROVE  /\ Held \subseteq Chunks
         /\ \A c \in Chunks : c \in Address /\ c # NULL /\ c[1] \in Block /\ c[1] \in owned
  BY AllocSetAssumption DEF AllocInv, ClientTypes, MemoryTypes, Held, Address, Filled

(* A step that neither cuts nor gives back memory leaves the chunks where  *)
(* they are.                                                               *)
LEMMA SpaceStays ==
  ASSUME Filled, UNCHANGED <<hdr, spaceVars, listVars>>,
         \A c \in Chunks : c \in Held /\ IsExternal(c) => c \in Held'
  PROVE  Filled'
<1>1. /\ Chunks' = Chunks /\ owned' = owned /\ blocks' = blocks /\ freeptr' = freeptr
      /\ endptr' = endptr /\ hdr' = hdr
  BY DEF Chunks, spaceVars, listVars
<1>2. Ends' = Ends
  BY <1>1 DEF Ends, ChunkEnd, IsExternal
<1>3. \A b : InBlock(b)' = InBlock(b)
  BY <1>1 DEF InBlock
<1>4. \A c : IsExternal(c)' = IsExternal(c)
  BY <1>1 DEF IsExternal
<1>5. \A b \in owned : Tiles(b, InBlock(b), Ends, ALLOC_BLOCKHDRSZ, freeptr[b])' 
  <2> SUFFICES ASSUME NEW b \in owned PROVE Tiles(b, InBlock(b)', Ends', ALLOC_BLOCKHDRSZ, freeptr'[b])
    OBVIOUS
  <2>1. Tiles(b, InBlock(b), Ends, ALLOC_BLOCKHDRSZ, freeptr[b])
    BY DEF Filled
  <2>2. QED
    BY <2>1, <1>1, <1>2, <1>3
<1>6. QED
  BY <1>1, <1>3, <1>4, <1>5 DEF Filled

(* Steps that leave the list of blocks leave what is said of it. *)
LEMMA ListsStay ==
  ASSUME AllocInv, UNCHANGED listVars
  PROVE  Linked'
  BY DEF AllocInv, Linked, listVars

(* So it is with the count of memory. *)
LEMMA AccountStays ==
  ASSUME AllocInv, UNCHANGED <<listVars, endptr>>
  PROVE  AccountingOK'
  BY DEF AllocInv, AccountingOK, listVars

(* The first free chunk of the class is handed out. *)
LEMMA PopKeeps ==
  ASSUME AllocInv, NEW size \in Nat, NEW v \in Value \cup {NULL}, NEW c,
         FromFreelist(size, c, v), Held' = Held \cup {c}
  PROVE  Obtained(c, v)
<1> DEFINE i == FreeIndex(size)
<1>1. i \in FreeIndexes /\ c = freelist[i] /\ c # NULL
  BY SmallClass DEF FromFreelist, AllocInv
<1> HIDE DEF i
<1>2. /\ freelist' = [freelist EXCEPT ![i] = data[c]] /\ data' = [data EXCEPT ![c] = v]
      /\ UNCHANGED <<listVars, spaceVars, hdr, paramVars>>
  BY DEF FromFreelist, i
<1>3. /\ c \in Unheld(i) /\ c \in Chunks /\ c \notin Held /\ hdr[c] = i
      /\ data[c] = NULL \/ data[c] \in Unheld(i)
  BY <1>1, UnheldFacts
<1>4. Chunks' = Chunks /\ hdr' = hdr /\ DOMAIN data = Chunks /\ DOMAIN freelist = FreeIndexes
  BY <1>2 DEF Chunks, AllocInv, MemoryTypes
<1>5. MemoryTypes'
  <2>1. data[c] \in Address \cup {NULL}
    BY <1>3, HeldFacts DEF Unheld
  <2>2. v \in Contents
    BY DEF Contents
  <2>3. freelist' \in [FreeIndexes -> Address \cup {NULL}]
    BY <1>2, <2>1 DEF AllocInv, MemoryTypes
  <2>4. data' \in [Chunks' -> Contents]
    BY <1>2, <1>4, <2>2 DEF AllocInv, MemoryTypes
  <2>5. QED
    BY <1>2, <1>4, <2>3, <2>4 DEF AllocInv, MemoryTypes, listVars, spaceVars, paramVars
<1>6. Linked' /\ AccountingOK'
  BY <1>2, ListsStay, AccountStays DEF spaceVars
<1>7. Filled'
  BY <1>2, SpaceStays DEF AllocInv
<1>8. Threaded'
  <2>1. SUFFICES ASSUME NEW j \in FreeIndexes
                 PROVE  ListOf(Unheld(j)', freelist'[j], data', NULL)
    BY DEF Threaded
  <2>2. ListOf(Unheld(j), freelist[j], data, NULL)
    BY DEF AllocInv, Threaded
  <2>3. CASE j = i
    <3>1. Agree(data', data, Unheld(j) \ {c})
      BY <1>2, <1>4 DEF Agree, Unheld
    <3>2. ListOf(Unheld(j) \ {c}, data[c], data', NULL)
      BY <1>1, <2>2, <2>3, <3>1, ListPop
    <3>3. Unheld(j)' = Unheld(j) \ {c} /\ freelist'[j] = data[c]
      BY <1>1, <1>2, <1>4, <2>3 DEF Unheld
    <3>4. QED
      BY <3>2, <3>3
  <2>4. CASE j # i
    <3>1. Unheld(j)' = Unheld(j) /\ c \notin Unheld(j)
      BY <1>3, <1>4, <2>4 DEF Unheld
    <3>2. Agree(data', data, Unheld(j)) /\ freelist'[j] = freelist[j]
      BY <1>1, <1>2, <1>4, <2>4, <3>1 DEF Agree, Unheld
    <3>3. QED
      BY <2>2, <3>1, <3>2, ListStays
  <2>5. QED
    BY <2>3, <2>4
<1>9. data'[c] = v /\ \A d \in Held : data'[d] = data[d]
  BY <1>2, <1>3, <1>4, HeldFacts
<1>10. QED
  BY <1>3, <1>4, <1>5, <1>6, <1>7, <1>8, <1>9 DEF Obtained

(***************************************************************************)
(* A chunk c is freed, and `contents` is what clients wrote before: the    *)
(* chunks nobody holds are as they were.                                   *)
(***************************************************************************)
LEMMA PushKeeps ==
  ASSUME AllocInv, NEW c \in Held, NEW contents \in [Chunks -> Contents],
         Agree(contents, data, Chunks \ Held), PushFree(c, contents), Held' = Held \ {c}
  PROVE  MemoryTypes' /\ Linked' /\ Filled' /\ Threaded' /\ AccountingOK'
<1> DEFINE i == hdr[c]
<1>1. i \in FreeIndexes /\ c \in Chunks /\ c \in Address /\ c # NULL
  BY HeldFacts DEF PushFree, IsExternal, AllocInv, MemoryTypes
<1> HIDE DEF i
<1>2. /\ freelist' = [freelist EXCEPT ![i] = c] /\ data' = [contents EXCEPT ![c] = freelist[i]]
      /\ UNCHANGED <<listVars, spaceVars, hdr, paramVars>>
  BY DEF PushFree, i
<1>3. Chunks' = Chunks /\ hdr' = hdr /\ DOMAIN contents = Chunks /\ DOMAIN freelist = FreeIndexes
  BY <1>2 DEF Chunks, AllocInv, MemoryTypes
<1>4. MemoryTypes'
  <2>1. freelist[i] \in Address \cup {NULL}
    BY <1>1 DEF AllocInv, MemoryTypes
  <2>2. freelist[i] \in Contents
    BY <2>1 DEF Contents
  <2>3. freelist' \in [FreeIndexes -> Address \cup {NULL}]
    BY <1>1, <1>2, <2>1 DEF AllocInv, MemoryTypes
  <2>4. data' \in [Chunks' -> Contents]
    BY <1>2, <1>3, <2>2 DEF AllocInv, MemoryTypes
  <2>5. QED
    BY <1>2, <1>3, <2>3, <2>4 DEF AllocInv, MemoryTypes, listVars, spaceVars, paramVars
<1>5. Linked' /\ AccountingOK'
  BY <1>2, ListsStay, AccountStays DEF spaceVars
<1>6. Filled'
  BY <1>2, SpaceStays DEF AllocInv, PushFree
<1>7. Threaded'
  <2>1. SUFFICES ASSUME NEW j \in FreeIndexes
                 PROVE  ListOf(Unheld(j)', freelist'[j], data', NULL)
    BY DEF Threaded
  <2>2. ListOf(Unheld(j), freelist[j], data, NULL)
    BY DEF AllocInv, Threaded
  <2>3. c \notin Unheld(j) /\ Agree(data', data, Unheld(j))
    BY <1>2, <1>3 DEF Agree, Unheld
  <2>4. CASE j = i
    <3>1. data'[c] = freelist[j]
      BY <1>1, <1>2, <1>3, <2>4
    <3>2. ListOf(Unheld(j) \cup {c}, c, data', NULL)
      BY <1>1, <2>2, <2>3, <3>1, ListPush
    <3>3. Unheld(j)' = Unheld(j) \cup {c} /\ freelist'[j] = c
      BY <1>1, <1>2, <1>3, <2>4 DEF Unheld, i
    <3>4. QED
      BY <3>2, <3>3
  <2>5. CASE j # i
    <3>1. Unheld(j)' = Unheld(j) /\ freelist'[j] = freelist[j]
      BY <1>1, <1>2, <1>3, <2>5 DEF Unheld, i
    <3>2. QED
      BY <2>2, <2>3, <3>1, ListStays
  <2>6. QED
    BY <2>4, <2>5
<1>8. QED
  BY <1>4, <1>5, <1>6, <1>7

--------------------------------------------------------------------------------
(* Where the chunks that are cut off now will end, with those there are. *)
CarvedEnds ==
  [c \in Chunks \cup CarvedChunks |->
     IF c \in CarvedChunks THEN c[2] + Footprint(CarvedClass(c)) ELSE Ends[c]]

(***************************************************************************)
(* How the rest of the active block is cut: what the chunks take up grows  *)
(* from 0 to at most the rest, and their classes differ.                   *)
(***************************************************************************)
Cuts(k, t, room) ==
  /\ k \in Seq(Nat) /\ t \in [0..Len(k) -> Int] /\ t[0] = 0
  /\ \A n \in 1..Len(k) : k[n] \in FreeIndexes /\ t[n] = t[n - 1] + Footprint(k[n])
  /\ \A m, n \in 1..Len(k) : k[m] = k[n] => m = n
  /\ t[Len(k)] <= room

(* The pieces that carving cuts tile the rest of the block. *)
LEMMA RestIsCut ==
  ASSUME AllocInv, NEW size \in Nat, NeedsNewBlock(size)
  PROVE  Cuts(CarvedClasses, CarvedSpace(CarvedClasses), Room(blocks))
<1> DEFINE r == Room(blocks)
           k == CarvedClasses
<1>1. freeptr[blocks] \in Nat /\ endptr[blocks] \in Nat /\ freeptr[blocks] <= endptr[blocks]
  BY DEF AllocInv, MemoryTypes, Filled, Linked
<1>2. r \in Nat /\ r < 8200
  <2>1. FreeIndex(size) \in FreeIndexes
    BY SmallClass DEF NeedsNewBlock, AllocInv
  <2>2. Footprint(FreeIndex(size)) \in Nat /\ Footprint(FreeIndex(size)) <= 8200
    BY <2>1, ClassFacts
  <2>3. QED
    BY <1>1, <2>2 DEF NeedsNewBlock, Room
<1>3. k = Carved[r]
  BY DEF CarvedClasses
<1> HIDE DEF r, k
<1>4. CutsUp(r)
  BY <1>2, CarvedFills
<1>5. k \in Seq(Nat) /\ Len(k) \in Nat
  BY <1>3, <1>4 DEF CutsUp
<1>6. PICK t \in [0..Len(k) -> Int] : Takes(k, t) /\ t[Len(k)] <= r
  BY <1>3, <1>4 DEF CutsUp
<1>7. CarvedSpace(k) = t
  BY <1>5, <1>6, CarvedSpaceTakes
<1>8. ASSUME NEW n \in 1..Len(k)
      PROVE  k[n] \in FreeIndexes /\ t[n] = t[n - 1] + Footprint(k[n])
  <2>1. k[n] \in Nat
    BY <1>5
  <2>2. ClassSize(k[n]) \in Nat /\ ClassSize(k[n]) <= r - 8
    BY <1>3, <1>4 DEF CutsUp
  <2>3. ClassSize(k[n]) <= 8192
    BY <1>2, <2>2
  <2>4. k[n] \in FreeIndexes
    <3>1. ClassSize(11) = 16384
      <4>1. Power2[13 + 1] = 2 * Power2[13] /\ Power2[13] = 8192
        <5>1. 13 \in Nat
          OBVIOUS
        <5>2. Power2[13 + 1] = 2 * Power2[13]
          BY <5>1, Power2Doubles, Zenon
        <5>3. QED
          <6>1. Power2[13] = 8192
            BY Power2Values
          <6>2. QED
            BY <5>2, <6>1
      <4>2. 13 + 1 = 14 /\ ALLOC_MINBITS + 11 = 14
        BY DEF ALLOC_MINBITS
      <4>3. Power2[14] = 16384
        BY <4>1, <4>2
      <4>4. QED
        BY <4>2, <4>3 DEF ClassSize
    <3>2. k[n] < 11
      <4>1. ClassSize(k[n]) < ClassSize(11) /\ 11 \in Nat
        BY <2>2, <2>3, <3>1
      <4>2. QED
        BY <2>1, <4>1, ClassSizeOrder, Zenon
    <3>3. QED
      BY <2>1, <3>2 DEF FreeIndexes, ALLOCSET_NUM_FREELISTS
  <2>5. t[n] = t[n - 1] + ClassSize(k[n]) + 8
    <3>1. n \in 0..Len(k) /\ n # 0
      BY <1>5
    <3>2. QED
      BY <1>6, <3>1 DEF Takes, ALLOC_CHUNKHDRSZ
  <2>6. t[n - 1] \in Int
    BY <1>5, <1>6
  <2>7. QED
    BY <2>2, <2>4, <2>5, <2>6 DEF Footprint, ALLOC_CHUNKHDRSZ
<1>9. \A m, n \in 1..Len(k) : k[m] = k[n] => m = n
  <2>1. \A m, n \in 1..Len(k) : m < n => k[n] < k[m]
    BY <1>3, <1>4 DEF CutsUp
  <2>2. \A n \in 1..Len(k) : k[n] \in Int
    BY <1>5
  <2>3. QED
    BY <1>5, <2>1, <2>2
<1>10. t[0] = 0
  BY <1>5, <1>6 DEF Takes
<1>11. QED
  BY <1>5, <1>6, <1>7, <1>8, <1>9, <1>10 DEF Cuts, r, k

(* The space taken grows, so no two chunks begin at the same place. *)
LEMMA CutsGrow ==
  ASSUME NEW k, NEW t, NEW room, Cuts(k, t, room)
  PROVE  /\ \A n \in 0..Len(k) : t[n] \in Nat
         /\ \A m, n \in 0..Len(k) : m < n => t[m] < t[n]
<1> DEFINE L == Len(k)
           T == {n \in Nat : n <= L => /\ t[n] \in Nat
                                       /\ \A m \in 0..L : m < n => t[m] < t[n]}
<1>1. L \in Nat /\ t \in [0..L -> Int] /\ t[0] = 0
  BY DEF Cuts
<1>2. \A n \in 1..L : t[n] = t[n - 1] + Footprint(k[n]) /\ k[n] \in FreeIndexes
  BY DEF Cuts
<1> HIDE DEF L
<1>3. 0 \in T
  BY <1>1
<1>4. ASSUME NEW n \in Nat, n \in T PROVE n + 1 \in T
  <2> SUFFICES ASSUME n + 1 <= L
               PROVE  t[n + 1] \in Nat /\ \A m \in 0..L : m < n + 1 => t[m] < t[n + 1]
    OBVIOUS
  <2>1. n + 1 \in 1..L /\ (n + 1) - 1 = n /\ n <= L
    BY <1>1
  <2>2. t[n + 1] = t[n] + Footprint(k[n + 1]) /\ k[n + 1] \in FreeIndexes
    BY <1>2, <2>1
  <2>3. Footprint(k[n + 1]) \in Nat /\ Footprint(k[n + 1]) >= 16
    BY <2>2, ClassFacts
  <2>4. t[n] \in Nat /\ \A m \in 0..L : m < n => t[m] < t[n]
    BY <1>4, <2>1
  <2>5. t[n + 1] \in Nat /\ t[n] < t[n + 1]
    BY <2>2, <2>3, <2>4
  <2>6. ASSUME NEW m \in 0..L, m < n + 1 PROVE t[m] < t[n + 1]
    <3>1. m < n \/ m = n
      BY <1>1, <2>6
    <3>2. t[m] \in Int
      BY <1>1
    <3>3. QED
      BY <2>4, <2>5, <3>1, <3>2
  <2>7. QED
    BY <2>5, <2>6
<1>5. \A n \in Nat : n \in T
  <2> HIDE DEF T
  <2>1. QED
    BY <1>3, <1>4, Ascend
<1>6. QED
  BY <1>1, <1>5 DEF L

(***************************************************************************)
(* The chunks cut off fill the active block from its free pointer to the   *)
(* new one; they are all new, and each has a class of its own.             *)
(***************************************************************************)
LEMMA CarvingFills ==
  ASSUME AllocInv, NEW size \in Nat, NeedsNewBlock(size)
  PROVE  /\ Tiles(blocks, CarvedChunks, CarvedEnds, freeptr[blocks], CarvedFreeptr)
         /\ CarvedFreeptr \in Nat /\ freeptr[blocks] <= CarvedFreeptr
         /\ CarvedFreeptr <= endptr[blocks]
         /\ IsFiniteSet(CarvedChunks)
         /\ \A c \in CarvedChunks : /\ c \in Address /\ c \notin Chunks /\ c[1] = blocks
                                    /\ CarvedClass(c) \in FreeIndexes
         /\ \A c, d \in CarvedChunks : CarvedClass(c) = CarvedClass(d) => c = d
<1> DEFINE k == CarvedClasses
           t == CarvedSpace(CarvedClasses)
           lo == freeptr[blocks]
           At(n) == <<blocks, lo + t[n - 1]>>
           D(n) == {At(m) : m \in 1..n}
           L == Len(k)
<1>1. lo \in Nat /\ endptr[blocks] \in Nat /\ blocks \in Block
  BY DEF AllocInv, MemoryTypes, Linked
<1>2. Cuts(k, t, Room(blocks)) /\ L \in Nat
  <2>1. Cuts(k, t, Room(blocks))
    BY RestIsCut
  <2>2. QED
    BY <2>1 DEF Cuts
<1>3. CarvedChunks = D(L) /\ CarvedFreeptr = lo + t[L]
  <2>1. DOMAIN k = 1..L
    BY <1>2 DEF Cuts
  <2>2. QED
    BY <2>1 DEF CarvedChunks, CarvedChunk, CarvedFreeptr
<1>4. \A n \in 1..L : CarvedChunk(n) = At(n)
  BY DEF CarvedChunk
<1> HIDE DEF k, t, lo
<1>5. /\ \A n \in 0..L : t[n] \in Nat
      /\ \A m, n \in 0..L : m < n => t[m] < t[n]
  BY <1>2, CutsGrow
<1>6. \A m, n \in 1..L : At(m) = At(n) => m = n
  <2> SUFFICES ASSUME NEW m \in 1..L, NEW n \in 1..L, At(m) = At(n) PROVE m = n
    OBVIOUS
  <2>1. m - 1 \in 0..L /\ n - 1 \in 0..L /\ t[m - 1] \in Nat /\ t[n - 1] \in Nat
    BY <1>2, <1>5
  <2>2. t[m - 1] = t[n - 1]
    BY <1>1, <2>1
  <2>3. ~ (m - 1 < n - 1) /\ ~ (n - 1 < m - 1)
    BY <1>5, <2>1, <2>2
  <2>4. QED
    BY <2>3
<1>7. ASSUME NEW n \in 1..L
      PROVE  /\ CarvedClass(At(n)) = k[n] /\ k[n] \in FreeIndexes /\ At(n) \in CarvedChunks
             /\ At(n) \in Address /\ lo <= At(n)[2] /\ At(n)[2] \in Nat
             /\ CarvedEnds[At(n)] = lo + t[n] /\ t[n] \in Nat
             /\ At(n)[2] + 16 <= lo + t[n]
  <2>1. k[n] \in FreeIndexes /\ t[n] = t[n - 1] + Footprint(k[n])
    BY <1>2 DEF Cuts
  <2>2. DOMAIN CarvedClasses = 1..L
    BY <1>2 DEF Cuts, k
  <2>3. \A i \in FreeIndexes :
          (\E m \in DOMAIN CarvedClasses : CarvedClasses[m] = i /\ CarvedChunk(m) = At(n)) <=> i = k[n]
    BY <1>4, <1>6, <2>1, <2>2 DEF k
  <2>4. CarvedClass(At(n)) = k[n]
    BY <2>1, <2>3 DEF CarvedClass
  <2>5. At(n) \in CarvedChunks
    BY <1>3
  <2>6. n - 1 \in 0..L /\ n \in 0..L
    BY <1>2
  <2>7. t[n - 1] \in Nat /\ t[n] \in Nat /\ Footprint(k[n]) \in Nat /\ Footprint(k[n]) >= 16
    BY <1>5, <2>1, <2>6, ClassFacts
  <2>8. At(n)[2] = lo + t[n - 1] /\ At(n) \in Address
    BY <1>1, <2>7 DEF Address
  <2>9. CarvedEnds[At(n)] = At(n)[2] + Footprint(k[n])
    BY <2>4, <2>5 DEF CarvedEnds
  <2>10. QED
    BY <1>1, <2>1, <2>4, <2>5, <2>7, <2>8, <2>9
<1>8. Tiles(blocks, D(L), CarvedEnds, lo, lo + t[L])
  <2> DEFINE T == {n \in Nat : n <= L => Tiles(blocks, D(n), CarvedEnds, lo, lo + t[n])}
  <2>1. 0 \in T
    <3>1. D(0) = {} /\ lo + t[0] = lo
      BY <1>1, <1>2 DEF Cuts
    <3>2. QED
      BY <1>1, <3>1, TilesNone
  <2>2. ASSUME NEW n \in Nat, n \in T PROVE n + 1 \in T
    <3> SUFFICES ASSUME n + 1 <= L PROVE Tiles(blocks, D(n + 1), CarvedEnds, lo, lo + t[n + 1])
      OBVIOUS
    <3>1. n <= L /\ n \in 0..L /\ n + 1 \in 1..L /\ (n + 1) - 1 = n
      BY <1>2
    <3>2. Tiles(blocks, D(n), CarvedEnds, lo, lo + t[n])
      BY <2>2, <3>1
    <3>3. At(n + 1) = <<blocks, lo + t[n]>> /\ lo + t[n] \in Nat /\ lo + t[n + 1] \in Nat
      BY <1>1, <1>5, <1>7, <3>1
    <3>4. CarvedEnds[At(n + 1)] = lo + t[n + 1] /\ lo + t[n] + 8 <= lo + t[n + 1]
      BY <1>7, <3>1, <3>3
    <3>5. Tiles(blocks, {At(n + 1)}, CarvedEnds, lo + t[n], lo + t[n + 1])
      BY <1>1, <3>3, <3>4, TilesOne
    <3>6. D(n + 1) = D(n) \cup {At(n + 1)}
      BY <3>1
    <3> HIDE DEF D, At
    <3>7. QED
      BY <3>2, <3>5, <3>6, TilesJoin
  <2>3. \A n \in Nat : n \in T
    <3> HIDE DEF T
    <3>1. QED
      BY <2>1, <2>2, Ascend
  <2> HIDE DEF D, L
  <2>4. L \in T /\ L <= L
    <3> HIDE DEF T
    <3>1. L \in T
      BY <1>2, <2>3
    <3>2. QED
      BY <1>2, <3>1
  <2>5. QED
    BY <2>4
<1>9. CarvedFreeptr \in Nat /\ lo <= CarvedFreeptr /\ CarvedFreeptr <= endptr[blocks]
  <2>1. t[L] \in Nat /\ t[L] <= endptr[blocks] - lo
    BY <1>2, <1>5 DEF Cuts, Room, lo
  <2>2. QED
    BY <1>1, <1>3, <2>1
<1>10. IsFiniteSet(CarvedChunks)
  <2>1. IsFiniteSet(1..L)
    BY <1>2, FS_Interval
  <2>2. [n \in 1..L |-> At(n)] \in Surjection(1..L, D(L))
    BY DEF Surjection
  <2> HIDE DEF D
  <2>3. QED
    BY <1>3, <2>1, <2>2, FS_Surjection
<1>11. ASSUME NEW c \in CarvedChunks
       PROVE  /\ c \in Address /\ c \notin Chunks /\ c[1] = blocks
              /\ CarvedClass(c) \in FreeIndexes
  <2>1. PICK n \in 1..L : c = At(n)
    BY <1>3
  <2>2. c \in Address /\ c[1] = blocks /\ lo <= c[2] /\ CarvedClass(c) \in FreeIndexes /\ c[2] \in Nat
    BY <1>7, <2>1
  <2>3. c \notin Chunks
    <3> SUFFICES ASSUME c \in Chunks PROVE FALSE
      OBVIOUS
    <3>1. Tiles(blocks, InBlock(blocks), Ends, ALLOC_BLOCKHDRSZ, freeptr[blocks])
      BY DEF AllocInv, Filled, Linked
    <3>2. c \in InBlock(blocks)
      BY <2>2 DEF InBlock
    <3>3. c[2] < lo
      BY <3>1, <3>2, TilesBelow DEF lo
    <3>4. QED
      BY <1>1, <2>2, <3>3
  <2>4. QED
    BY <2>2, <2>3
<1>12. \A c, d \in CarvedChunks : CarvedClass(c) = CarvedClass(d) => c = d
  <2> SUFFICES ASSUME NEW m \in 1..L, NEW n \in 1..L, CarvedClass(At(m)) = CarvedClass(At(n))
               PROVE  At(m) = At(n)
    BY <1>3
  <2>1. k[m] = k[n]
    BY <1>7
  <2>2. m = n
    BY <1>2, <2>1 DEF Cuts
  <2>3. QED
    BY <2>2
<1>13. QED
  BY <1>3, <1>8, <1>9, <1>10, <1>11, <1>12 DEF lo

--------------------------------------------------------------------------------
(* A block's chunks, and its free pointer, once the active block is cut up. *)
CarvedIn(b) == {c \in Chunks \cup CarvedChunks : c[1] = b}
CarvedTop(b) == IF b = blocks THEN CarvedFreeptr ELSE freeptr[b]

(* The blocks are filled as before, the active one further than before.    *)
LEMMA CarvedBlocks ==
  ASSUME AllocInv, NEW size \in Nat, NeedsNewBlock(size)
  PROVE  /\ \A b \in owned : /\ Tiles(b, CarvedIn(b), CarvedEnds, ALLOC_BLOCKHDRSZ, CarvedTop(b))
                             /\ CarvedTop(b) <= endptr[b]
                             /\ CarvedTop(b) = ALLOC_BLOCKHDRSZ => b = Keeper
         /\ \A c \in Chunks \cup CarvedChunks : c \in Address /\ c[1] \in owned
         /\ IsFiniteSet(Chunks \cup CarvedChunks)
<1>1. /\ Tiles(blocks, CarvedChunks, CarvedEnds, freeptr[blocks], CarvedFreeptr)
      /\ CarvedFreeptr \in Nat /\ freeptr[blocks] <= CarvedFreeptr
      /\ CarvedFreeptr <= endptr[blocks] /\ IsFiniteSet(CarvedChunks)
  BY CarvingFills
<1>2. \A c \in CarvedChunks : c \in Address /\ c \notin Chunks /\ c[1] = blocks
  BY CarvingFills
<1>3. blocks \in owned /\ freeptr[blocks] \in Nat
  BY DEF AllocInv, MemoryTypes, Linked
<1>4. ASSUME NEW b \in owned
      PROVE  /\ Tiles(b, CarvedIn(b), CarvedEnds, ALLOC_BLOCKHDRSZ, CarvedTop(b))
             /\ CarvedTop(b) <= endptr[b]
             /\ CarvedTop(b) = ALLOC_BLOCKHDRSZ => b = Keeper
  <2>1. /\ Tiles(b, InBlock(b), Ends, ALLOC_BLOCKHDRSZ, freeptr[b]) /\ freeptr[b] <= endptr[b]
        /\ freeptr[b] = ALLOC_BLOCKHDRSZ => b = Keeper
    BY DEF AllocInv, Filled
  <2>2. Agree(CarvedEnds, Ends, InBlock(b))
    BY <1>2 DEF Agree, CarvedEnds, InBlock
  <2>3. Tiles(b, InBlock(b), CarvedEnds, ALLOC_BLOCKHDRSZ, freeptr[b])
    BY <2>1, <2>2, TilesStay
  <2>4. CASE b = blocks
    <3>1. CarvedIn(b) = InBlock(b) \cup CarvedChunks /\ CarvedTop(b) = CarvedFreeptr
      BY <1>2, <2>4 DEF CarvedIn, InBlock, CarvedTop
    <3>2. Tiles(b, CarvedIn(b), CarvedEnds, ALLOC_BLOCKHDRSZ, CarvedTop(b))
      BY <1>1, <2>3, <2>4, <3>1, TilesJoin
    <3>3. ALLOC_BLOCKHDRSZ <= freeptr[b] /\ ALLOC_BLOCKHDRSZ \in Nat
      BY <2>1 DEF Tiles
    <3>4. CarvedTop(b) = ALLOC_BLOCKHDRSZ => b = Keeper
      BY <1>1, <1>3, <2>1, <2>4, <3>1, <3>3
    <3>5. QED
      BY <1>1, <2>4, <3>1, <3>2, <3>4
  <2>5. CASE b # blocks
    <3>1. CarvedIn(b) = InBlock(b) /\ CarvedTop(b) = freeptr[b]
      BY <1>2, <2>5 DEF CarvedIn, InBlock, CarvedTop
    <3>2. QED
      BY <2>1, <2>3, <3>1
  <2>6. QED
    BY <2>4, <2>5
<1>5. \A c \in Chunks \cup CarvedChunks : c \in Address /\ c[1] \in owned
  BY <1>2, <1>3 DEF AllocInv, MemoryTypes, Filled
<1>6. IsFiniteSet(Chunks \cup CarvedChunks)
  BY <1>1, FS_Union DEF AllocInv, MemoryTypes
<1>7. QED
  BY <1>4, <1>5, <1>6

(* The headers of the chunks that are there, and of the new ones. *)
LEMMA CarvedHeaders ==
  ASSUME AllocInv, NEW size \in Nat, NeedsNewBlock(size)
  PROVE  /\ CarvedHdr \in [Chunks \cup CarvedChunks -> FreeIndexes \cup {External}]
         /\ \A c \in Chunks : CarvedHdr[c] = hdr[c]
         /\ \A c \in CarvedChunks : CarvedHdr[c] \in FreeIndexes
         /\ \A c \in Chunks \cup CarvedChunks :
              /\ CarvedEnds[c] = IF CarvedHdr[c] = External THEN endptr[c[1]]
                                 ELSE c[2] + Footprint(CarvedHdr[c])
              /\ CarvedHdr[c] = External =>
                   /\ c \in Held /\ c[1] # blocks /\ c[1] # Keeper
                   /\ CarvedIn(c[1]) = {c} /\ CarvedTop(c[1]) = endptr[c[1]]
<1>1. \A c \in CarvedChunks : /\ c \notin Chunks /\ c[1] = blocks
                              /\ CarvedClass(c) \in FreeIndexes /\ CarvedClass(c) # External
  BY CarvingFills, ClassFacts
<1>2. \A c \in Chunks : CarvedHdr[c] = hdr[c]
  BY <1>1 DEF CarvedHdr
<1>3. \A c \in CarvedChunks : CarvedHdr[c] = CarvedClass(c)
  BY DEF CarvedHdr
<1>4. CarvedHdr \in [Chunks \cup CarvedChunks -> FreeIndexes \cup {External}]
  BY <1>1 DEF CarvedHdr, AllocInv, MemoryTypes
<1>5. ASSUME NEW c \in Chunks \cup CarvedChunks
      PROVE  /\ CarvedEnds[c] = IF CarvedHdr[c] = External THEN endptr[c[1]]
                                ELSE c[2] + Footprint(CarvedHdr[c])
             /\ CarvedHdr[c] = External =>
                  /\ c \in Held /\ c[1] # blocks /\ c[1] # Keeper
                  /\ CarvedIn(c[1]) = {c} /\ CarvedTop(c[1]) = endptr[c[1]]
  <2>1. CASE c \in CarvedChunks
    <3>1. CarvedHdr[c] # External /\ CarvedEnds[c] = c[2] + Footprint(CarvedHdr[c])
      BY <1>1, <1>3, <2>1 DEF CarvedEnds
    <3>2. QED
      BY <3>1
  <2>2. CASE c \notin CarvedChunks
    <3>1. c \in Chunks /\ CarvedHdr[c] = hdr[c]
      BY <1>2, <2>2
    <3>2. CarvedEnds[c] = ChunkEnd(c)
      BY <2>2, <3>1 DEF CarvedEnds, Ends
    <3>3. CarvedHdr[c] = External =>
            /\ c \in Held /\ c[1] # blocks /\ c[1] # Keeper
            /\ InBlock(c[1]) = {c} /\ freeptr[c[1]] = endptr[c[1]]
      BY <3>1 DEF AllocInv, Filled, IsExternal
    <3>4. c[1] # blocks => CarvedIn(c[1]) = InBlock(c[1]) /\ CarvedTop(c[1]) = freeptr[c[1]]
      BY <1>1 DEF CarvedIn, InBlock, CarvedTop
    <3>5. QED
      BY <3>1, <3>2, <3>3, <3>4 DEF ChunkEnd, IsExternal
  <2>3. QED
    BY <2>1, <2>2
<1>6. QED
  BY <1>1, <1>2, <1>3, <1>4, <1>5

(* Each new chunk is pushed on the list of its class. *)
LEMMA CarvedThreads ==
  ASSUME AllocInv, NEW size \in Nat, NeedsNewBlock(size)
  PROVE  /\ \A i \in FreeIndexes :
              ListOf(Unheld(i) \cup CarvedOf(i), CarvedFreelist[i], CarvedData, NULL)
         /\ CarvedFreelist \in [FreeIndexes -> Address \cup {NULL}]
         /\ CarvedData \in [Chunks \cup CarvedChunks -> Contents]
         /\ \A c \in Chunks : CarvedData[c] = data[c]
<1>1. \A c \in CarvedChunks : c \in Address /\ c \notin Chunks /\ CarvedClass(c) \in FreeIndexes
  BY CarvingFills
<1>2. \A c, d \in CarvedChunks : CarvedClass(c) = CarvedClass(d) => c = d
  BY CarvingFills
<1>3. \A c \in Chunks : CarvedData[c] = data[c]
  BY <1>1 DEF CarvedData
<1>4. \A c \in CarvedChunks : CarvedData[c] = freelist[CarvedClass(c)]
  BY DEF CarvedData
<1>5. \A i \in FreeIndexes : Unheld(i) \subseteq Chunks
  BY DEF Unheld
<1>6. \A i \in FreeIndexes : freelist[i] \in Address \cup {NULL}
  BY DEF AllocInv, MemoryTypes
<1>7. ASSUME NEW i \in FreeIndexes
      PROVE  /\ ListOf(Unheld(i) \cup CarvedOf(i), CarvedFreelist[i], CarvedData, NULL)
             /\ CarvedFreelist[i] \in Address \cup {NULL}
  <2>1. ListOf(Unheld(i), freelist[i], data, NULL)
    BY DEF AllocInv, Threaded
  <2>2. Agree(CarvedData, data, Unheld(i))
    BY <1>3, <1>5 DEF Agree
  <2>3. CASE CarvedOf(i) = {}
    <3>1. Unheld(i) \cup CarvedOf(i) = Unheld(i) /\ CarvedFreelist[i] = freelist[i]
      BY <2>3 DEF CarvedFreelist
    <3>2. QED
      BY <1>6, <2>1, <2>2, <3>1, ListStays
  <2>4. CASE CarvedOf(i) # {}
    <3>1. PICK c : c \in CarvedOf(i)
      BY <2>4
    <3>2. c \in CarvedChunks /\ CarvedClass(c) = i
      BY <3>1 DEF CarvedOf
    <3>3. CarvedOf(i) = {c}
      BY <1>2, <3>1, <3>2 DEF CarvedOf
    <3>4. CarvedFreelist[i] = c /\ CarvedData[c] = freelist[i]
      BY <1>4, <3>2, <3>3 DEF CarvedFreelist
    <3>5. c \notin Unheld(i) /\ c # NULL /\ c \in Address
      BY <1>1, <1>5, <3>2, AllocSetAssumption DEF Address
    <3>6. ListOf(Unheld(i) \cup {c}, c, CarvedData, NULL)
      BY <2>1, <2>2, <3>4, <3>5, ListPush
    <3>7. QED
      BY <3>3, <3>4, <3>5, <3>6
  <2>5. QED
    BY <2>3, <2>4
<1>8. CarvedFreelist \in [FreeIndexes -> Address \cup {NULL}]
  <2>1. \A i \in FreeIndexes : CarvedFreelist[i] \in Address \cup {NULL}
    BY <1>7
  <2>2. QED
    BY <2>1 DEF CarvedFreelist
<1>9. CarvedData \in [Chunks \cup CarvedChunks -> Contents]
  <2>1. \A c \in CarvedChunks : freelist[CarvedClass(c)] \in Contents
    BY <1>1, <1>6 DEF Contents
  <2>2. \A c \in Chunks : data[c] \in Contents
    BY DEF AllocInv, MemoryTypes
  <2>3. QED
    BY <2>1, <2>2 DEF CarvedData
<1>10. QED
  BY <1>3, <1>7, <1>8, <1>9

(* The size of the next block doubles, up to the limit. *)
LEMMA NextBlockSizeInRange ==
  ASSUME AllocInv
  PROVE  NextBlockSize(nextBlockSize, maxBlockSize) \in InitBlockSize..maxBlockSize
<1>1. /\ nextBlockSize \in InitBlockSize..maxBlockSize /\ InitBlockSize \in Nat
      /\ maxBlockSize \in Nat
  BY AllocSetAssumption DEF AllocInv, MemoryTypes
<1>2. QED
  BY <1>1 DEF NextBlockSize, Smaller

--------------------------------------------------------------------------------
(* The set of blocks, its sum, and what is known of the links. *)
LEMMA BlockFacts ==
  ASSUME AllocInv
  PROVE  /\ IsFiniteSet(owned) /\ owned \subseteq Block /\ blocks \in owned /\ Keeper \in owned
         /\ NULL \notin Block /\ prev[blocks] = NULL
         /\ ListOf(owned, blocks, next, NULL)
         /\ Doubly(owned, next, prev, NULL)
         /\ Numbers(endptr, owned)
         /\ memAllocated = ALLOC_CONTEXTSZ + SumFunctionOnSet(endptr, owned)
<1>1. owned \subseteq Block /\ endptr \in [Block -> Nat]
  BY DEF AllocInv, MemoryTypes
<1>2. IsFiniteSet(owned) /\ NULL \notin Block
  BY <1>1, AllocSetAssumption, FS_Subset
<1>3. Numbers(endptr, owned)
  BY <1>1 DEF Numbers
<1>4. ListOf(owned, blocks, next, NULL) /\ Doubly(owned, next, prev, NULL)
  BY DEF AllocInv, Linked, ListOf, Follow, Doubly
<1>5. QED
  BY <1>1, <1>2, <1>3, <1>4 DEF AllocInv, Linked, AccountingOK

(* A new block is counted. *)
LEMMA AccountGains ==
  ASSUME AllocInv, NEW b \in Block \ owned, NEW n \in Nat,
         endptr' = [endptr EXCEPT ![b] = n], owned' = owned \cup {b},
         memAllocated' = memAllocated + n
  PROVE  AccountingOK'
<1>1. endptr \in [Block -> Nat] /\ owned \subseteq Block
  BY DEF AllocInv, MemoryTypes
<1>2. Agree(endptr', endptr, owned) /\ endptr'[b] = n
  BY <1>1 DEF Agree
<1>3. Numbers(endptr, owned) /\ Numbers(endptr', owned) /\ endptr'[b] \in Int
  BY <1>1, <1>2 DEF Numbers, Agree
<1>4. IsFiniteSet(owned) /\ memAllocated = ALLOC_CONTEXTSZ + SumFunctionOnSet(endptr, owned)
  BY BlockFacts
<1>5. SumFunctionOnSet(endptr', owned) = SumFunctionOnSet(endptr, owned)
  BY <1>2, <1>3, <1>4, SumStays
<1>6. SumFunctionOnSet(endptr', owned \cup {b}) = n + SumFunctionOnSet(endptr', owned)
  BY <1>2, <1>3, <1>4, SumWith
<1>7. SumFunctionOnSet(endptr, owned) \in Int
  BY <1>3, <1>4, SumType
<1>8. QED
  BY <1>4, <1>5, <1>6, <1>7 DEF AccountingOK, ALLOC_CONTEXTSZ

(* What is left of Linked for the links of a step to show. *)
LEMMA LinkedIf ==
  ASSUME Keeper \in owned', blocks' \in owned', ListOf(owned', blocks', next', NULL),
         Doubly(owned', next', prev', NULL), prev'[blocks'] = NULL
  PROVE  Linked'
  BY DEF Linked, Doubly

(* A new block before the first ... *)
LEMMA LinksPush ==
  ASSUME AllocInv, NEW b \in Block \ owned, owned' = owned \cup {b}, blocks' = b,
         prev' = [prev EXCEPT ![b] = NULL, ![blocks] = b], next' = [next EXCEPT ![b] = blocks]
  PROVE  Linked' /\ next' \in [Block -> Block \cup {NULL}] /\ prev' \in [Block -> Block \cup {NULL}]
<1>1. next \in [Block -> Block \cup {NULL}] /\ prev \in [Block -> Block \cup {NULL}]
  BY DEF AllocInv, MemoryTypes
<1>2. b # blocks /\ b # NULL /\ blocks \in Block /\ blocks \in owned
  BY BlockFacts
<1>3. owned \subseteq Block /\ blocks # NULL
  BY BlockFacts
<1>4. next'[b] = blocks /\ Agree(next', next, owned)
  BY <1>1, <1>2, <1>3 DEF Agree
<1>5. prev'[b] = NULL /\ prev'[blocks] = b /\ Agree(prev', prev, owned \ {blocks})
  BY <1>1, <1>2, <1>3 DEF Agree
<1>6. ListOf(owned \cup {b}, b, next', NULL)
  <2>1. ListOf(owned, blocks, next, NULL) /\ b \notin owned
    BY BlockFacts
  <2>2. QED
    BY <1>2, <1>4, <2>1, ListPush
<1>7. Doubly(owned \cup {b}, next', prev', NULL)
  <2>1. Doubly(owned, next, prev, NULL) /\ prev[blocks] = NULL /\ b \notin owned
    BY BlockFacts
  <2>2. QED
    BY <1>2, <1>4, <1>5, <2>1, DoublyPush
<1>8. next' \in [Block -> Block \cup {NULL}] /\ prev' \in [Block -> Block \cup {NULL}]
  BY <1>1, <1>2
<1>9. Keeper \in owned' /\ blocks' \in owned'
  BY BlockFacts
<1>10. QED
  BY <1>5, <1>6, <1>7, <1>8, <1>9, LinkedIf

(* ... and after it. *)
LEMMA LinksInsert ==
  ASSUME AllocInv, NEW b \in Block \ owned, owned' = owned \cup {b}, blocks' = blocks,
         prev' = LinkUnder(b, prev), next' = [next EXCEPT ![b] = next[blocks], ![blocks] = b]
  PROVE  Linked' /\ next' \in [Block -> Block \cup {NULL}] /\ prev' \in [Block -> Block \cup {NULL}]
<1>1. next \in [Block -> Block \cup {NULL}] /\ prev \in [Block -> Block \cup {NULL}]
  BY DEF AllocInv, MemoryTypes
<1>2. b # blocks /\ b # NULL /\ blocks \in Block /\ blocks \in owned
  BY BlockFacts
<1>3. owned \subseteq Block /\ blocks # NULL
  BY BlockFacts
<1>4. next'[b] = next[blocks] /\ next'[blocks] = b /\ Agree(next', next, owned \ {blocks})
  BY <1>1, <1>2, <1>3 DEF Agree
<1>5. /\ prev'[b] = blocks
      /\ next[blocks] \in owned => prev'[next[blocks]] = b
      /\ Agree(prev', prev, owned \ {next[blocks]})
  BY <1>1, <1>2, <1>3 DEF Agree, LinkUnder
<1>6. ListOf(owned \cup {b}, blocks, next', NULL)
  <2>1. ListOf(owned, blocks, next, NULL) /\ b \notin owned
    BY BlockFacts
  <2>2. QED
    BY <1>2, <1>3, <1>4, <2>1, ListInsert
<1>7. Doubly(owned, next, prev, NULL) /\ prev[blocks] = NULL /\ b \notin owned
  BY BlockFacts
<1>8. Doubly(owned \cup {b}, next', prev', NULL)
  BY <1>2, <1>4, <1>5, <1>7, DoublyInsert
<1>9. next' \in [Block -> Block \cup {NULL}] /\ prev' \in [Block -> Block \cup {NULL}]
  BY <1>1, <1>2 DEF LinkUnder
<1>10. Keeper \in owned' /\ blocks' \in owned'
  BY BlockFacts
<1>11. prev'[blocks'] = NULL
  <2>1. next[blocks] # blocks
    BY <1>2, <1>3, <1>7 DEF Doubly
  <2>2. QED
    BY <1>2, <1>5, <1>7, <2>1 DEF Agree
<1>12. QED
  BY <1>6, <1>8, <1>9, <1>10, <1>11, LinkedIf

(* No new block: the rest of the active one is free chunks all the same.   *)
LEMMA CarvingKeeps ==
  ASSUME AllocInv, NEW size \in Nat, NewBlockFails(size), Held' = Held
  PROVE  /\ MemoryTypes' /\ Linked' /\ Filled' /\ Threaded' /\ AccountingOK'
         /\ Chunks \subseteq Chunks' /\ \A d \in Held : data'[d] = data[d]
         /\ \A d \in Chunks : hdr'[d] = hdr[d]
<1>1. /\ NeedsNewBlock(size) /\ freelist' = CarvedFreelist /\ hdr' = CarvedHdr
      /\ data' = CarvedData /\ freeptr' = [freeptr EXCEPT ![blocks] = CarvedFreeptr]
      /\ nextBlockSize' = NextBlockSize(nextBlockSize, maxBlockSize)
      /\ UNCHANGED <<listVars, endptr, maxBlockSize, chunkLimit>>
  BY DEF NewBlockFails
<1>2. /\ Chunks' = Chunks \cup CarvedChunks /\ owned' = owned /\ endptr' = endptr
      /\ blocks' = blocks
  BY <1>1 DEF Chunks, CarvedHdr, listVars
<1>3. freeptr \in [Block -> Nat] /\ owned \subseteq Block
  BY DEF AllocInv, MemoryTypes
<1>4. \A b \in owned : freeptr'[b] = CarvedTop(b) /\ InBlock(b)' = CarvedIn(b)
  BY <1>1, <1>2, <1>3 DEF CarvedTop, InBlock, CarvedIn
<1>5. MemoryTypes'
  <2>1. hdr' \in [Chunks' -> FreeIndexes \cup {External}]
    BY <1>1, <1>2, CarvedHeaders
  <2>2. Chunks' \subseteq Address /\ IsFiniteSet(Chunks')
    BY <1>1, <1>2, CarvedBlocks
  <2>3. data' \in [Chunks' -> Contents] /\ freelist' \in [FreeIndexes -> Address \cup {NULL}]
    BY <1>1, <1>2, CarvedThreads
  <2>4. freeptr' \in [Block -> Nat]
    BY <1>1, <1>3, CarvingFills
  <2>5. nextBlockSize' \in InitBlockSize..maxBlockSize
    BY <1>1, NextBlockSizeInRange
  <2>6. QED
    BY <1>1, <2>1, <2>2, <2>3, <2>4, <2>5 DEF AllocInv, MemoryTypes, listVars
<1>6. Linked' /\ AccountingOK'
  BY <1>1, ListsStay, AccountStays
<1>7. Filled'
  <2>1. \A c \in Chunks' : c[1] \in owned'
    BY <1>1, <1>2, CarvedBlocks
  <2>2. ASSUME NEW b \in owned'
        PROVE  /\ Tiles(b, InBlock(b)', Ends', ALLOC_BLOCKHDRSZ, freeptr'[b])
               /\ freeptr'[b] <= endptr'[b]
               /\ freeptr'[b] = ALLOC_BLOCKHDRSZ => b = Keeper
    <3>1. /\ Tiles(b, CarvedIn(b), CarvedEnds, ALLOC_BLOCKHDRSZ, CarvedTop(b))
          /\ CarvedTop(b) <= endptr[b]
          /\ CarvedTop(b) = ALLOC_BLOCKHDRSZ => b = Keeper
      BY <1>1, <1>2, CarvedBlocks
    <3>2. Agree(Ends', CarvedEnds, CarvedIn(b))
      <4> SUFFICES ASSUME NEW c \in CarvedIn(b) PROVE Ends'[c] = CarvedEnds[c]
        BY DEF Agree
      <4>1. c \in Chunks \cup CarvedChunks
        BY DEF CarvedIn
      <4>2. CarvedEnds[c] = IF CarvedHdr[c] = External THEN endptr[c[1]]
                            ELSE c[2] + Footprint(CarvedHdr[c])
        BY <1>1, <4>1, CarvedHeaders
      <4>3. QED
        BY <1>1, <1>2, <4>1, <4>2 DEF Ends, ChunkEnd, IsExternal
    <3>3. Tiles(b, CarvedIn(b), Ends', ALLOC_BLOCKHDRSZ, CarvedTop(b))
      BY <3>1, <3>2, TilesStay
    <3>4. QED
      BY <1>2, <1>4, <3>1, <3>3
  <2>3. ASSUME NEW c \in Chunks', IsExternal(c)'
        PROVE  /\ c \in Held' /\ c[1] # blocks' /\ c[1] # Keeper
               /\ InBlock(c[1])' = {c} /\ freeptr'[c[1]] = endptr'[c[1]]
    <3>1. CarvedHdr[c] = External /\ c \in Chunks \cup CarvedChunks /\ c[1] \in owned
      BY <1>1, <1>2, <2>1, <2>3 DEF IsExternal
    <3>2. /\ c \in Held /\ c[1] # blocks /\ c[1] # Keeper
          /\ CarvedIn(c[1]) = {c} /\ CarvedTop(c[1]) = endptr[c[1]]
      BY <1>1, <3>1, CarvedHeaders
    <3>3. QED
      BY <1>2, <1>4, <3>1, <3>2
  <2>4. QED
    BY <2>1, <2>2, <2>3 DEF Filled
<1>8. Threaded'
  <2> SUFFICES ASSUME NEW i \in FreeIndexes
               PROVE  ListOf(Unheld(i)', freelist'[i], data', NULL)
    BY DEF Threaded
  <2>1. ListOf(Unheld(i) \cup CarvedOf(i), CarvedFreelist[i], CarvedData, NULL)
    BY <1>1, CarvedThreads
  <2>2. Unheld(i)' = Unheld(i) \cup CarvedOf(i)
    <3>1. \A c \in CarvedChunks : c \notin Chunks /\ hdr'[c] = CarvedClass(c)
      BY <1>1, CarvingFills DEF CarvedHdr
    <3>2. \A c \in Chunks : hdr'[c] = hdr[c]
      BY <1>1, CarvedHeaders
    <3>3. Held \subseteq Chunks
      BY HeldFacts
    <3>4. QED
      BY <1>2, <3>1, <3>2, <3>3 DEF Unheld, CarvedOf
  <2>3. QED
    BY <1>1, <2>1, <2>2
<1>9. /\ Chunks \subseteq Chunks' /\ \A d \in Held : data'[d] = data[d]
      /\ \A d \in Chunks : hdr'[d] = hdr[d]
  BY <1>1, <1>2, CarvedHeaders, CarvedThreads, HeldFacts
<1>10. QED
  BY <1>5, <1>6, <1>7, <1>8, <1>9

--------------------------------------------------------------------------------
(* A step that adds the chunk c for a client to what is there now: it is   *)
(* on no freelist.                                                         *)
LEMMA ListsStayWithChunk ==
  ASSUME AllocInv, NEW c, c \notin Chunks, Chunks' = Chunks \cup {c}, Held' = Held \cup {c},
         freelist' = freelist, Agree(data', data, Chunks), Agree(hdr', hdr, Chunks)
  PROVE  Threaded'
<1> SUFFICES ASSUME NEW i \in FreeIndexes
             PROVE  ListOf(Unheld(i)', freelist'[i], data', NULL)
  BY DEF Threaded
<1>1. ListOf(Unheld(i), freelist[i], data, NULL)
  BY DEF AllocInv, Threaded
<1>2. Unheld(i)' = Unheld(i)
  BY DEF Unheld, Agree
<1>3. Agree(data', data, Unheld(i))
  BY DEF Unheld, Agree
<1>4. QED
  BY <1>1, <1>2, <1>3, ListStays

(* A chunk is cut from the active block.                                   *)
LEMMA CutKeeps ==
  ASSUME AllocInv, NEW size \in Nat, NEW v \in Value \cup {NULL}, NEW c,
         FromActiveBlock(size, c, v), Held' = Held \cup {c}
  PROVE  Obtained(c, v)
<1> DEFINE i == FreeIndex(size)
           lo == freeptr[blocks]
<1>1. i \in FreeIndexes
  BY SmallClass DEF FromActiveBlock, AllocInv
<1> HIDE DEF i
<1>2. /\ Room(blocks) >= Footprint(i) /\ c = <<blocks, lo>>
      /\ freeptr' = [freeptr EXCEPT ![blocks] = lo + Footprint(i)]
      /\ hdr' = With(hdr, c, i) /\ data' = With(data, c, v)
      /\ UNCHANGED <<listVars, endptr, freelist, paramVars>>
  BY DEF FromActiveBlock, i
<1>3. /\ Footprint(i) \in Nat /\ Footprint(i) >= 16 /\ i # External
      /\ lo \in Nat /\ endptr[blocks] \in Nat /\ blocks \in Block /\ blocks \in owned
      /\ freeptr \in [Block -> Nat] /\ owned \subseteq Block
  BY <1>1, ClassFacts DEF AllocInv, MemoryTypes, Linked
<1>4. lo + Footprint(i) <= endptr[blocks] /\ lo + Footprint(i) \in Nat
  BY <1>2, <1>3 DEF Room
<1>5. c \in Address /\ c[1] = blocks /\ c[2] = lo /\ c \notin Chunks /\ c \notin Held
  <2>1. c \in Address /\ c[1] = blocks /\ c[2] = lo
    BY <1>2, <1>3 DEF Address
  <2>2. ASSUME c \in Chunks PROVE FALSE
    <3>1. Tiles(blocks, InBlock(blocks), Ends, ALLOC_BLOCKHDRSZ, freeptr[blocks])
      BY <1>3 DEF AllocInv, Filled
    <3>2. c \in InBlock(blocks)
      BY <2>1, <2>2 DEF InBlock
    <3>3. c[2] < lo
      BY <3>1, <3>2, TilesBelow
    <3>4. QED
      BY <1>3, <2>1, <3>3
  <2>3. QED
    BY <2>1, <2>2, HeldFacts
<1>6. /\ Chunks' = Chunks \cup {c} /\ Agree(hdr', hdr, Chunks) /\ hdr'[c] = i
      /\ Agree(data', data, Chunks) /\ data'[c] = v
  BY <1>2, <1>5 DEF Chunks, With, Agree, AllocInv, MemoryTypes
<1>7. owned' = owned /\ blocks' = blocks /\ endptr' = endptr
  BY <1>2 DEF listVars
<1> HIDE DEF lo
<1>8. MemoryTypes'
  <2>1. hdr' \in [Chunks' -> FreeIndexes \cup {External}] /\ data' \in [Chunks' -> Contents]
    BY <1>1, <1>2, <1>6 DEF AllocInv, MemoryTypes, With, Contents, Chunks
  <2>2. Chunks' \subseteq Address /\ IsFiniteSet(Chunks')
    BY <1>5, <1>6, FS_AddElement DEF AllocInv, MemoryTypes
  <2>3. freeptr' \in [Block -> Nat]
    BY <1>2, <1>3, <1>4
  <2>4. QED
    BY <1>2, <1>7, <2>1, <2>2, <2>3 DEF AllocInv, MemoryTypes, listVars, paramVars
<1>9. Linked' /\ AccountingOK'
  BY <1>2, ListsStay, AccountStays
<1>10. Filled'
  <2>1. \A d \in Chunks' : d[1] \in owned'
    BY <1>3, <1>5, <1>6, <1>7 DEF AllocInv, Filled
  <2>2. Agree(Ends', Ends, Chunks)
    BY <1>6, <1>7 DEF Agree, Ends, ChunkEnd, IsExternal
  <2>3. ASSUME NEW b \in owned'
        PROVE  /\ Tiles(b, InBlock(b)', Ends', ALLOC_BLOCKHDRSZ, freeptr'[b])
               /\ freeptr'[b] <= endptr'[b]
               /\ freeptr'[b] = ALLOC_BLOCKHDRSZ => b = Keeper
    <3>1. /\ Tiles(b, InBlock(b), Ends, ALLOC_BLOCKHDRSZ, freeptr[b])
          /\ freeptr[b] <= endptr[b]
          /\ freeptr[b] = ALLOC_BLOCKHDRSZ => b = Keeper
      BY <1>7 DEF AllocInv, Filled
    <3>2. Agree(Ends', Ends, InBlock(b))
      BY <2>2 DEF Agree, InBlock
    <3>3. Tiles(b, InBlock(b), Ends', ALLOC_BLOCKHDRSZ, freeptr[b])
      BY <3>1, <3>2, TilesStay
    <3>4. CASE b = blocks
      <4>1. InBlock(b)' = InBlock(b) \cup {c} /\ freeptr'[b] = lo + Footprint(i) /\ freeptr[b] = lo
        BY <1>2, <1>3, <1>5, <1>6, <3>4 DEF InBlock, lo
      <4>2. Ends'[c] = lo + Footprint(i)
        BY <1>3, <1>5, <1>6 DEF Ends, ChunkEnd, IsExternal
      <4>3. Tiles(b, {c}, Ends', lo, lo + Footprint(i))
        <5>1. lo \in Nat /\ lo + Footprint(i) \in Nat /\ lo + 8 <= lo + Footprint(i) /\ c = <<b, lo>>
          BY <1>2, <1>3, <1>4, <3>4 DEF lo
        <5>2. QED
          BY <1>3, <3>4, <4>2, <5>1, TilesOne
      <4>4. Tiles(b, InBlock(b)', Ends', ALLOC_BLOCKHDRSZ, freeptr'[b])
        BY <3>3, <4>1, <4>3, TilesJoin
      <4>5. ALLOC_BLOCKHDRSZ <= lo /\ ALLOC_BLOCKHDRSZ \in Nat
        BY <3>1, <4>1 DEF Tiles
      <4>6. freeptr'[b] # ALLOC_BLOCKHDRSZ
        BY <1>3, <4>1, <4>5
      <4>7. QED
        BY <1>4, <1>7, <3>4, <4>1, <4>4, <4>6
    <3>5. CASE b # blocks
      <4>1. InBlock(b)' = InBlock(b) /\ freeptr'[b] = freeptr[b]
        BY <1>2, <1>3, <1>5, <1>6, <1>7, <3>5 DEF InBlock
      <4>2. QED
        BY <1>7, <3>1, <3>3, <4>1
    <3>6. QED
      BY <3>4, <3>5
  <2>4. ASSUME NEW d \in Chunks', IsExternal(d)'
        PROVE  /\ d \in Held' /\ d[1] # blocks' /\ d[1] # Keeper
               /\ InBlock(d[1])' = {d} /\ freeptr'[d[1]] = endptr'[d[1]]
    <3>1. d \in Chunks /\ IsExternal(d)
      BY <1>3, <1>6, <2>4 DEF IsExternal, Agree
    <3>2. /\ d \in Held /\ d[1] # blocks /\ d[1] # Keeper /\ d[1] \in owned
          /\ InBlock(d[1]) = {d} /\ freeptr[d[1]] = endptr[d[1]]
      BY <3>1 DEF AllocInv, Filled
    <3>3. InBlock(d[1])' = InBlock(d[1]) /\ freeptr'[d[1]] = freeptr[d[1]]
      BY <1>2, <1>3, <1>5, <1>6, <3>2 DEF InBlock
    <3>4. QED
      BY <1>7, <3>2, <3>3
  <2>5. QED
    BY <2>1, <2>3, <2>4 DEF Filled
<1>11. Threaded'
  BY <1>2, <1>5, <1>6, ListsStayWithChunk
<1>12. QED
  BY <1>5, <1>6, <1>8, <1>9, <1>10, <1>11, HeldFacts DEF Obtained, Agree

--------------------------------------------------------------------------------
(* The first chunk of a block. *)
LEMMA StartFacts ==
  ASSUME NEW b \in Block
  PROVE  Start(b) \in Address /\ Start(b)[1] = b /\ Start(b)[2] = ALLOC_BLOCKHDRSZ
         /\ Start(b) = <<b, ALLOC_BLOCKHDRSZ>> /\ ALLOC_BLOCKHDRSZ \in Nat /\ ALLOC_BLOCKHDRSZ = 40
  BY DEF Start, Address, ALLOC_BLOCKHDRSZ

(* The sizes tried for a new block hold its chunk. *)
LEMMA NewBlockFits ==
  ASSUME AllocInv, NEW i \in FreeIndexes,
         NEW blksize \in Range(RetriedSizes(BlockSize(nextBlockSize, i), RequiredSize(i)))
  PROVE  blksize \in Nat /\ ALLOC_BLOCKHDRSZ + Footprint(i) <= blksize
<1>1. nextBlockSize \in Nat /\ nextBlockSize >= 1
  <2>1. /\ nextBlockSize \in InitBlockSize..maxBlockSize
        /\ InitBlockSize \in Nat /\ InitBlockSize >= 1024
    BY AllocSetAssumption DEF AllocInv, MemoryTypes
  <2>2. QED
    BY <2>1
<1>2. BlockSize(nextBlockSize, i) \in Nat /\ RequiredSize(i) <= BlockSize(nextBlockSize, i)
  BY <1>1, BlockSizeFits
<1>3. RequiredSize(i) \in Nat /\ RequiredSize(i) = ALLOC_BLOCKHDRSZ + Footprint(i)
  BY ClassFacts DEF RequiredSize, Footprint, ALLOC_BLOCKHDRSZ, ALLOC_CHUNKHDRSZ
<1>4. blksize \in Nat /\ RequiredSize(i) <= blksize
  BY <1>2, <1>3, RetriedSizesFit
<1>5. QED
  BY <1>3, <1>4

(* A chunk is cut from a new block, once the active one is cut up.         *)
LEMMA NewBlockKeeps ==
  ASSUME AllocInv, NEW size \in Nat, NEW v \in Value \cup {NULL}, NEW c,
         FromNewBlock(size, c, v), Held' = Held \cup {c}
  PROVE  Obtained(c, v)
<1> DEFINE i == FreeIndex(size)
<1>1. i \in FreeIndexes /\ NeedsNewBlock(size)
  BY SmallClass DEF FromNewBlock, NeedsNewBlock, AllocInv
<1>2. PICK b \in Block \ owned, blksize \in Range(RetriedSizes(BlockSize(nextBlockSize, i), RequiredSize(i))) :
       /\ c = Start(b)
       /\ hdr' = With(CarvedHdr, c, i)
       /\ data' = With(CarvedData, c, v)
       /\ freeptr' = [freeptr EXCEPT ![blocks] = CarvedFreeptr,
                                     ![b] = ALLOC_BLOCKHDRSZ + Footprint(i)]
       /\ endptr' = [endptr EXCEPT ![b] = blksize]
       /\ memAllocated' = memAllocated + blksize
       /\ prev' = [prev EXCEPT ![b] = NULL, ![blocks] = b]
       /\ next' = [next EXCEPT ![b] = blocks]
       /\ blocks' = b
       /\ owned' = owned \cup {b}
  BY DEF FromNewBlock
<1>3. /\ freelist' = CarvedFreelist /\ maxBlockSize' = maxBlockSize /\ chunkLimit' = chunkLimit
      /\ nextBlockSize' = NextBlockSize(nextBlockSize, maxBlockSize)
  BY DEF FromNewBlock
<1> HIDE DEF i
<1>4. blksize \in Nat /\ ALLOC_BLOCKHDRSZ + Footprint(i) <= blksize
  BY <1>1, NewBlockFits
<1>5. /\ i # External /\ Footprint(i) \in Nat /\ Footprint(i) >= 16
      /\ b \notin owned /\ blocks \in owned /\ owned \subseteq Block /\ b # blocks /\ Keeper \in owned
      /\ freeptr \in [Block -> Nat] /\ endptr \in [Block -> Nat]
  BY <1>1, ClassFacts, BlockFacts DEF AllocInv, MemoryTypes
<1>6. /\ c \in Address /\ c[1] = b /\ c[2] = ALLOC_BLOCKHDRSZ /\ c = <<b, ALLOC_BLOCKHDRSZ>>
      /\ ALLOC_BLOCKHDRSZ \in Nat /\ ALLOC_BLOCKHDRSZ = 40
  BY <1>2, StartFacts
<1> DEFINE Old == Chunks \cup CarvedChunks
<1>7. \A d \in Old : d \in Address /\ d[1] \in owned
  BY <1>1, CarvedBlocks
<1>8. c \notin Old /\ c \notin Chunks /\ c \notin Held
  BY <1>5, <1>6, <1>7, HeldFacts
<1>9. /\ Chunks' = Old \cup {c} /\ Agree(hdr', CarvedHdr, Old) /\ hdr'[c] = i
      /\ Agree(data', CarvedData, Old) /\ data'[c] = v
  <2>1. DOMAIN CarvedHdr = Old /\ DOMAIN CarvedData = Old
    BY DEF CarvedHdr, CarvedData
  <2> HIDE DEF Old
  <2>2. QED
    BY <1>2, <1>8, <2>1 DEF Chunks, With, Agree
<1>10. /\ \A x \in owned : freeptr'[x] = CarvedTop(x) /\ endptr'[x] = endptr[x]
       /\ freeptr'[b] = ALLOC_BLOCKHDRSZ + Footprint(i) /\ endptr'[b] = blksize
  BY <1>2, <1>5 DEF CarvedTop
<1>11. /\ \A x \in owned : InBlock(x)' = CarvedIn(x)
       /\ InBlock(b)' = {c}
  BY <1>5, <1>6, <1>7, <1>9 DEF InBlock, CarvedIn
<1> HIDE DEF Old
<1>12. Linked' /\ next' \in [Block -> Block \cup {NULL}] /\ prev' \in [Block -> Block \cup {NULL}]
  BY <1>2, LinksPush
<1>13. AccountingOK'
  BY <1>2, <1>4, AccountGains
<1>14. MemoryTypes'
  <2>1. hdr' \in [Chunks' -> FreeIndexes \cup {External}]
    <3>1. CarvedHdr \in [Old -> FreeIndexes \cup {External}]
      BY <1>1, CarvedHeaders DEF Old
    <3>2. QED
      BY <1>1, <1>2, <1>9, <3>1 DEF With
  <2>2. data' \in [Chunks' -> Contents]
    <3>1. CarvedData \in [Old -> Contents]
      BY <1>1, CarvedThreads DEF Old
    <3>2. QED
      BY <1>2, <1>9, <3>1 DEF With, Contents
  <2>3. Chunks' \subseteq Address /\ IsFiniteSet(Chunks')
    <3>1. IsFiniteSet(Old)
      BY <1>1, CarvedBlocks DEF Old
    <3>2. QED
      BY <1>6, <1>7, <1>9, <3>1, FS_AddElement
  <2>4. freeptr' \in [Block -> Nat] /\ endptr' \in [Block -> Nat]
    <3>1. CarvedFreeptr \in Nat /\ ALLOC_BLOCKHDRSZ + Footprint(i) \in Nat
      BY <1>1, <1>5, <1>6, CarvingFills
    <3>2. QED
      BY <1>2, <1>4, <1>5, <3>1
  <2>5. nextBlockSize' \in InitBlockSize..maxBlockSize
    BY <1>3, NextBlockSizeInRange
  <2>6. freelist' \in [FreeIndexes -> Address \cup {NULL}]
    BY <1>1, <1>3, CarvedThreads
  <2>7. owned' \in SUBSET Block
    BY <1>2, <1>5
  <2>8. QED
    BY <1>3, <1>12, <2>1, <2>2, <2>3, <2>4, <2>5, <2>6, <2>7 DEF AllocInv, MemoryTypes
<1>15. Filled'
  <2>1. \A d \in Chunks' : d[1] \in owned'
    BY <1>2, <1>6, <1>7, <1>9
  <2>2. ASSUME NEW x \in owned'
        PROVE  /\ Tiles(x, InBlock(x)', Ends', ALLOC_BLOCKHDRSZ, freeptr'[x])
               /\ freeptr'[x] <= endptr'[x]
               /\ freeptr'[x] = ALLOC_BLOCKHDRSZ => x = Keeper
    <3>1. CASE x \in owned
      <4>1. /\ Tiles(x, CarvedIn(x), CarvedEnds, ALLOC_BLOCKHDRSZ, CarvedTop(x))
            /\ CarvedTop(x) <= endptr[x]
            /\ CarvedTop(x) = ALLOC_BLOCKHDRSZ => x = Keeper
        BY <1>1, <3>1, CarvedBlocks
      <4>2. Agree(Ends', CarvedEnds, CarvedIn(x))
        <5> SUFFICES ASSUME NEW d \in CarvedIn(x) PROVE Ends'[d] = CarvedEnds[d]
          BY DEF Agree
        <5>1. d \in Old /\ d[1] = x
          BY DEF CarvedIn, Old
        <5>2. CarvedEnds[d] = IF CarvedHdr[d] = External THEN endptr[d[1]]
                              ELSE d[2] + Footprint(CarvedHdr[d])
          BY <1>1, <5>1, CarvedHeaders DEF Old
        <5>3. hdr'[d] = CarvedHdr[d] /\ d \in Chunks' /\ endptr'[d[1]] = endptr[d[1]]
          BY <1>9, <1>10, <3>1, <5>1 DEF Agree
        <5>4. QED
          BY <5>2, <5>3 DEF Ends, ChunkEnd, IsExternal
      <4>3. Tiles(x, CarvedIn(x), Ends', ALLOC_BLOCKHDRSZ, CarvedTop(x))
        BY <4>1, <4>2, TilesStay
      <4>4. QED
        BY <1>10, <1>11, <3>1, <4>1, <4>3
    <3>2. CASE x = b
      <4>1. Ends'[c] = ALLOC_BLOCKHDRSZ + Footprint(i)
        BY <1>5, <1>6, <1>9 DEF Ends, ChunkEnd, IsExternal
      <4>2. ALLOC_BLOCKHDRSZ + Footprint(i) \in Nat
            /\ ALLOC_BLOCKHDRSZ + 8 <= ALLOC_BLOCKHDRSZ + Footprint(i)
        BY <1>5, <1>6
      <4>3. Tiles(b, {c}, Ends', ALLOC_BLOCKHDRSZ, ALLOC_BLOCKHDRSZ + Footprint(i))
        BY <1>2, <1>6, <4>1, <4>2, TilesOne
      <4>4. freeptr'[b] # ALLOC_BLOCKHDRSZ
        BY <1>5, <1>6, <1>10
      <4>5. QED
        BY <1>4, <1>10, <1>11, <3>2, <4>3, <4>4
    <3>3. QED
      BY <1>2, <3>1, <3>2
  <2>3. ASSUME NEW d \in Chunks', IsExternal(d)'
        PROVE  /\ d \in Held' /\ d[1] # blocks' /\ d[1] # Keeper
               /\ InBlock(d[1])' = {d} /\ freeptr'[d[1]] = endptr'[d[1]]
    <3>1. d \in Old /\ CarvedHdr[d] = External /\ d[1] \in owned
      BY <1>5, <1>7, <1>9, <2>3 DEF IsExternal, Agree
    <3>2. /\ d \in Held /\ d[1] # Keeper
          /\ CarvedIn(d[1]) = {d} /\ CarvedTop(d[1]) = endptr[d[1]]
      BY <1>1, <3>1, CarvedHeaders DEF Old
    <3>3. d[1] # blocks'
      BY <1>2, <1>5, <3>1
    <3>4. QED
      BY <1>10, <1>11, <3>1, <3>2, <3>3
  <2>4. QED
    BY <2>1, <2>2, <2>3 DEF Filled
<1>16. Threaded'
  <2> SUFFICES ASSUME NEW j \in FreeIndexes
               PROVE  ListOf(Unheld(j)', freelist'[j], data', NULL)
    BY DEF Threaded
  <2>1. ListOf(Unheld(j) \cup CarvedOf(j), CarvedFreelist[j], CarvedData, NULL)
    BY <1>1, CarvedThreads
  <2>2. \A d \in CarvedChunks : d \notin Chunks /\ CarvedHdr[d] = CarvedClass(d)
    BY <1>1, CarvingFills DEF CarvedHdr
  <2>3. \A d \in Chunks : CarvedHdr[d] = hdr[d]
    BY <1>1, CarvedHeaders
  <2>4. Held \subseteq Chunks
    BY HeldFacts
  <2>5. Unheld(j)' = Unheld(j) \cup CarvedOf(j)
    BY <1>8, <1>9, <2>2, <2>3, <2>4 DEF Unheld, CarvedOf, Old, Agree
  <2>6. Agree(data', CarvedData, Unheld(j) \cup CarvedOf(j))
    BY <1>9 DEF Agree, Unheld, CarvedOf, Old
  <2>7. QED
    BY <1>3, <2>1, <2>5, <2>6, ListStays
<1>17. /\ Chunks \subseteq Chunks' /\ c \in Chunks'
       /\ \A d \in Held : data'[d] = data[d]
       /\ \A d \in Chunks : hdr'[d] = hdr[d]
  <2>1. \A d \in Chunks : CarvedHdr[d] = hdr[d] /\ CarvedData[d] = data[d]
    BY <1>1, CarvedHeaders, CarvedThreads
  <2>2. QED
    BY <1>9, <2>1, HeldFacts DEF Agree, Old
<1>18. QED
  BY <1>8, <1>9, <1>12, <1>13, <1>14, <1>15, <1>16, <1>17 DEF Obtained

--------------------------------------------------------------------------------
(***************************************************************************)
(* The chunks of the blocks in B, when a step leaves them and their blocks *)
(* as they are.                                                            *)
(***************************************************************************)
SameIn(x) ==
  /\ InBlock(x)' = InBlock(x) /\ freeptr'[x] = freeptr[x] /\ endptr'[x] = endptr[x]
  /\ Agree(hdr', hdr, InBlock(x))

(* Where the chunks of a block are the same, they fill it as before. *)
LEMMA BlockStays ==
  ASSUME AllocInv, NEW x \in owned, SameIn(x)
  PROVE  /\ Tiles(x, InBlock(x), Ends, ALLOC_BLOCKHDRSZ, freeptr[x])'
         /\ freeptr'[x] <= endptr'[x]
         /\ freeptr'[x] = ALLOC_BLOCKHDRSZ => x = Keeper
<1>1. /\ Tiles(x, InBlock(x), Ends, ALLOC_BLOCKHDRSZ, freeptr[x])
      /\ freeptr[x] <= endptr[x]
      /\ freeptr[x] = ALLOC_BLOCKHDRSZ => x = Keeper
  BY DEF AllocInv, Filled
<1>2. Agree(Ends', Ends, InBlock(x))
  <2> SUFFICES ASSUME NEW c \in InBlock(x) PROVE Ends'[c] = Ends[c]
    BY DEF Agree
  <2>1. c \in Chunks /\ c[1] = x /\ c \in Chunks' /\ hdr'[c] = hdr[c]
    BY DEF InBlock, SameIn, Agree
  <2>2. QED
    BY <2>1 DEF Ends, ChunkEnd, IsExternal, SameIn
<1>3. Tiles(x, InBlock(x), Ends', ALLOC_BLOCKHDRSZ, freeptr[x])
  BY <1>1, <1>2, TilesStay
<1>4. QED
  BY <1>1, <1>3 DEF SameIn

(* An external chunk of such a block. *)
LEMMA ExternalStays ==
  ASSUME AllocInv, NEW c \in Chunks', IsExternal(c)', SameIn(c[1]), c[1] \in owned
  PROVE  /\ c \in Held /\ c[1] # blocks /\ c[1] # Keeper
         /\ InBlock(c[1])' = {c} /\ freeptr'[c[1]] = endptr'[c[1]]
<1>1. c \in InBlock(c[1])
  BY DEF SameIn, InBlock
<1>2. c \in Chunks /\ IsExternal(c)
  BY <1>1 DEF InBlock, SameIn, Agree, IsExternal
<1>3. /\ c \in Held /\ c[1] # blocks /\ c[1] # Keeper
      /\ InBlock(c[1]) = {c} /\ freeptr[c[1]] = endptr[c[1]]
  BY <1>2 DEF AllocInv, Filled
<1>4. QED
  BY <1>3 DEF SameIn

(* A block of its own for the chunk. *)
LEMMA OwnBlockFills ==
  ASSUME NEW b \in Block, NEW n \in Nat, 48 <= n, freeptr'[b] = n, endptr'[b] = n,
         InBlock(b)' = {Start(b)}, hdr'[Start(b)] = External
  PROVE  /\ Tiles(b, InBlock(b), Ends, ALLOC_BLOCKHDRSZ, freeptr[b])'
         /\ freeptr'[b] <= endptr'[b]
         /\ freeptr'[b] # ALLOC_BLOCKHDRSZ
<1> DEFINE c == Start(b)
<1>1. c \in Address /\ c[1] = b /\ c = <<b, ALLOC_BLOCKHDRSZ>> /\ ALLOC_BLOCKHDRSZ = 40
  BY StartFacts
<1>2. c \in Chunks'
  BY DEF InBlock
<1>3. Ends'[c] = n
  BY <1>1, <1>2 DEF Ends, ChunkEnd, IsExternal
<1> HIDE DEF c
<1>4. Tiles(b, {c}, Ends', ALLOC_BLOCKHDRSZ, n)
  <2>1. ALLOC_BLOCKHDRSZ \in Nat /\ ALLOC_BLOCKHDRSZ + 8 <= n
    BY <1>1
  <2>2. QED
    BY <1>1, <1>3, <2>1, TilesOne
<1>5. QED
  BY <1>1, <1>4 DEF c

(* A large request gets a block of its own.                                *)
LEMMA LargeKeeps ==
  ASSUME AllocInv, NEW size \in Nat, NEW v \in Value \cup {NULL}, NEW c,
         AllocLarge(size, c, v), Held' = Held \cup {c}
  PROVE  Obtained(c, v)
<1> DEFINE n == LargeBlockSize(size)
<1>1. n \in Nat /\ 48 <= n
  BY LargeFacts
<1>2. PICK b \in Block \ owned :
       /\ c = Start(b)
       /\ hdr' = With(hdr, c, External)
       /\ data' = With(data, c, v)
       /\ freeptr' = [freeptr EXCEPT ![b] = n]
       /\ endptr' = [endptr EXCEPT ![b] = n]
       /\ memAllocated' = memAllocated + n
       /\ prev' = LinkUnder(b, prev)
       /\ next' = [next EXCEPT ![b] = next[blocks], ![blocks] = b]
       /\ owned' = owned \cup {b}
  BY DEF AllocLarge
<1>3. UNCHANGED <<blocks, freelist, paramVars>>
  BY DEF AllocLarge
<1> HIDE DEF n
<1>4. /\ b \notin owned /\ blocks \in owned /\ owned \subseteq Block /\ b # blocks /\ Keeper \in owned
      /\ freeptr \in [Block -> Nat] /\ endptr \in [Block -> Nat]
  BY BlockFacts DEF AllocInv, MemoryTypes
<1>5. c \in Address /\ c[1] = b
  BY <1>2, StartFacts
<1>6. \A d \in Chunks : d \in Address /\ d[1] \in owned
  BY HeldFacts
<1>7. c \notin Chunks /\ c \notin Held
  BY <1>4, <1>5, <1>6, HeldFacts
<1>8. /\ Chunks' = Chunks \cup {c} /\ Agree(hdr', hdr, Chunks) /\ hdr'[c] = External
      /\ Agree(data', data, Chunks) /\ data'[c] = v
  BY <1>2, <1>7 DEF Chunks, With, Agree, AllocInv, MemoryTypes
<1>9. /\ \A x \in owned : SameIn(x)
      /\ freeptr'[b] = n /\ endptr'[b] = n /\ InBlock(b)' = {c}
  <2>1. /\ \A x \in owned : freeptr'[x] = freeptr[x] /\ endptr'[x] = endptr[x]
        /\ freeptr'[b] = n /\ endptr'[b] = n
    BY <1>2, <1>4
  <2>2. \A x \in owned : InBlock(x)' = InBlock(x)
    BY <1>4, <1>5, <1>8 DEF InBlock
  <2>3. InBlock(b)' = {c}
    BY <1>4, <1>5, <1>6, <1>8 DEF InBlock
  <2>4. \A x \in owned : Agree(hdr', hdr, InBlock(x))
    BY <1>8 DEF InBlock, Agree
  <2>5. QED
    BY <2>1, <2>2, <2>3, <2>4 DEF SameIn
<1>10. Linked' /\ next' \in [Block -> Block \cup {NULL}] /\ prev' \in [Block -> Block \cup {NULL}]
  BY <1>2, <1>3, LinksInsert
<1>11. AccountingOK'
  BY <1>1, <1>2, AccountGains
<1>12. MemoryTypes'
  <2>1. hdr' \in [Chunks' -> FreeIndexes \cup {External}] /\ data' \in [Chunks' -> Contents]
    BY <1>2, <1>8 DEF AllocInv, MemoryTypes, With, Contents, Chunks
  <2>2. Chunks' \subseteq Address /\ IsFiniteSet(Chunks')
    BY <1>5, <1>8, FS_AddElement DEF AllocInv, MemoryTypes
  <2>3. freeptr' \in [Block -> Nat] /\ endptr' \in [Block -> Nat] /\ owned' \in SUBSET Block
    BY <1>1, <1>2, <1>4
  <2>4. QED
    BY <1>3, <1>10, <2>1, <2>2, <2>3 DEF AllocInv, MemoryTypes, paramVars
<1>13. Filled'
  <2>1. \A d \in Chunks' : d[1] \in owned'
    BY <1>2, <1>5, <1>6, <1>8
  <2>2. ASSUME NEW x \in owned'
        PROVE  /\ Tiles(x, InBlock(x), Ends, ALLOC_BLOCKHDRSZ, freeptr[x])'
               /\ freeptr'[x] <= endptr'[x]
               /\ freeptr'[x] = ALLOC_BLOCKHDRSZ => x = Keeper
    <3>1. CASE x \in owned
      BY <1>9, <3>1, BlockStays
    <3>2. CASE x = b
      BY <1>1, <1>2, <1>8, <1>9, <3>2, OwnBlockFills
    <3>3. QED
      BY <1>2, <3>1, <3>2
  <2>3. ASSUME NEW d \in Chunks', IsExternal(d)'
        PROVE  /\ d \in Held' /\ d[1] # blocks' /\ d[1] # Keeper
               /\ InBlock(d[1])' = {d} /\ freeptr'[d[1]] = endptr'[d[1]]
    <3>1. CASE d = c
      BY <1>3, <1>4, <1>5, <1>9, <3>1
    <3>2. CASE d # c
      <4>1. d[1] \in owned
        BY <1>6, <1>8, <3>2
      <4>2. QED
        BY <1>3, <1>9, <2>3, <4>1, ExternalStays
    <3>3. QED
      BY <3>1, <3>2
  <2>4. QED
    BY <2>1, <2>2, <2>3 DEF Filled
<1>14. Threaded'
  BY <1>3, <1>7, <1>8, ListsStayWithChunk
<1>15. QED
  BY <1>7, <1>8, <1>10, <1>11, <1>12, <1>13, <1>14, HeldFacts DEF Obtained, Agree

(* Whichever way the request is served.                                    *)
LEMMA ObtainKeeps ==
  ASSUME AllocInv, NEW size \in Nat, NEW v \in Value \cup {NULL}, NEW c,
         Obtain(size, c, v), Held' = Held \cup {c}
  PROVE  Obtained(c, v)
  BY PopKeeps, CutKeeps, NewBlockKeeps, LargeKeeps DEF Obtain

--------------------------------------------------------------------------------
(* The block of an external chunk: between others in the list. *)
LEMMA NotFirst ==
  ASSUME AllocInv, NEW b \in owned, b # blocks
  PROVE  /\ prev[b] \in owned /\ prev[b] # NULL /\ next[prev[b]] = b
         /\ prev[b] # b /\ next[b] # b /\ next[b] # blocks /\ b \in Block
<1>1. /\ ListOf(owned, blocks, next, NULL) /\ Doubly(owned, next, prev, NULL)
      /\ prev[blocks] = NULL /\ NULL \notin owned /\ blocks \in owned /\ owned \subseteq Block
  BY BlockFacts DEF Doubly
<1>2. PICK p \in owned : next[p] = b
  BY <1>1, ListPredecessor
<1>3. prev[b] = p
  BY <1>1, <1>2 DEF Doubly
<1>4. Agree(next, next, owned \ {b, p})
  BY DEF Agree
<1>5. p # b
  <2>1. SUFFICES ASSUME p = b PROVE FALSE
    OBVIOUS
  <2> DEFINE T == owned \ {b}
  <2>2. \A x \in T : next[x] # b
    BY <1>1, <1>2, <2>1 DEF ListOf
  <2>3. Follow(T, blocks, next, NULL)
    BY <1>1, <2>2 DEF ListOf, Follow
  <2>4. T = owned
    BY <1>1, <2>3 DEF ListOf
  <2>5. QED
    BY <2>4
<1>6. next[b] # b /\ next[b] # blocks
  BY <1>1, <1>3, <1>5 DEF Doubly
<1>7. QED
  BY <1>1, <1>2, <1>3, <1>5, <1>6

(* The external chunks are those of blocks of their own. *)
LEMMA ExternalFacts ==
  ASSUME AllocInv, NEW c \in Chunks, IsExternal(c)
  PROVE  /\ c[1] \in owned /\ c[1] # blocks /\ c[1] # Keeper /\ InBlock(c[1]) = {c}
         /\ \A d \in Chunks : d[1] = c[1] => d = c
<1>1. c[1] \in owned /\ c[1] # blocks /\ c[1] # Keeper /\ InBlock(c[1]) = {c}
  BY DEF AllocInv, Filled
<1>2. \A d \in Chunks : d[1] = c[1] => d = c
  BY <1>1 DEF InBlock
<1>3. QED
  BY <1>1, <1>2

(* A block other than the active one leaves the list ...                   *)
LEMMA LinksRemove ==
  ASSUME AllocInv, NEW b \in owned, b # blocks, b # Keeper, blocks' = blocks,
         owned' = owned \ {b},
         next' = [UnlinkNext(b) EXCEPT ![b] = NULL], prev' = [UnlinkPrev(b) EXCEPT ![b] = NULL]
  PROVE  Linked' /\ next' \in [Block -> Block \cup {NULL}] /\ prev' \in [Block -> Block \cup {NULL}]
<1> DEFINE p == prev[b]
<1>1. next \in [Block -> Block \cup {NULL}] /\ prev \in [Block -> Block \cup {NULL}]
  BY DEF AllocInv, MemoryTypes
<1>2. /\ p \in owned /\ p # NULL /\ next[p] = b
      /\ p # b /\ next[b] # b /\ next[b] # blocks /\ b \in Block
  BY NotFirst
<1>3. /\ ListOf(owned, blocks, next, NULL) /\ Doubly(owned, next, prev, NULL)
      /\ prev[blocks] = NULL /\ blocks \in owned /\ owned \subseteq Block /\ Keeper \in owned
  BY BlockFacts
<1>4. UnlinkNext(b) = [next EXCEPT ![p] = next[b]]
  BY <1>2 DEF UnlinkNext
<1> HIDE DEF p
<1>5. next'[p] = next[b] /\ Agree(next', next, owned \ {b, p})
  BY <1>1, <1>2, <1>3, <1>4 DEF Agree
<1>6. /\ next[b] \in owned => prev'[next[b]] = p
      /\ Agree(prev', prev, owned \ {b, next[b]})
  <2>1. CASE next[b] = NULL
    <3>1. prev' = [prev EXCEPT ![b] = NULL]
      BY <2>1 DEF UnlinkPrev
    <3>2. next[b] \notin owned
      BY <1>3, <2>1 DEF Doubly
    <3>3. QED
      BY <1>1, <1>3, <3>1, <3>2 DEF Agree
  <2>2. CASE next[b] # NULL
    <3>1. prev' = [[prev EXCEPT ![next[b]] = p] EXCEPT ![b] = NULL]
      BY <2>2 DEF UnlinkPrev, p
    <3>2. QED
      BY <1>1, <1>2, <1>3, <3>1 DEF Agree
  <2>3. QED
    BY <2>1, <2>2
<1>7. ListOf(owned \ {b}, blocks, next', NULL)
  BY <1>2, <1>3, <1>5, ListRemove
<1>8. Doubly(owned \ {b}, next', prev', NULL)
  BY <1>2, <1>3, <1>5, <1>6, DoublyRemove DEF p
<1>9. prev'[blocks] = NULL
  BY <1>2, <1>3, <1>6 DEF Agree
<1>10. next' \in [Block -> Block \cup {NULL}] /\ prev' \in [Block -> Block \cup {NULL}]
  BY <1>1, <1>2, <1>4 DEF UnlinkPrev
<1>11. QED
  BY <1>3, <1>7, <1>8, <1>9, <1>10, LinkedIf

(* ... or is moved.                                                        *)
LEMMA LinksRename ==
  ASSUME AllocInv, NEW a \in owned, a # blocks, a # Keeper,
         NEW b \in (Block \ owned) \cup {a}, blocks' = blocks,
         owned' = (owned \ {a}) \cup {b},
         next' = [x \in Block |->
                    IF x = b THEN next[a] ELSE IF x = a THEN NULL ELSE Renamed(next[x], a, b)],
         prev' = [x \in Block |->
                    IF x = b THEN prev[a] ELSE IF x = a THEN NULL ELSE Renamed(prev[x], a, b)]
  PROVE  Linked' /\ next' \in [Block -> Block \cup {NULL}] /\ prev' \in [Block -> Block \cup {NULL}]
<1>1. next \in [Block -> Block \cup {NULL}] /\ prev \in [Block -> Block \cup {NULL}]
  BY DEF AllocInv, MemoryTypes
<1>2. prev[a] # a /\ next[a] # a /\ a \in Block
  BY NotFirst
<1>3. /\ ListOf(owned, blocks, next, NULL) /\ Doubly(owned, next, prev, NULL)
      /\ prev[blocks] = NULL /\ blocks \in owned /\ owned \subseteq Block /\ Keeper \in owned
      /\ NULL \notin Block
  BY BlockFacts
<1>4. b \in Block /\ b # NULL /\ b \notin owned \ {a} /\ b # blocks
  BY <1>2, <1>3
<1>5. Renames(next', next, owned, a, b) /\ Renames(prev', prev, owned, a, b)
  BY <1>2, <1>3, <1>4 DEF Renames, Renamed
<1>6. ListOf((owned \ {a}) \cup {b}, blocks, next', NULL)
  <2>1. (IF blocks = a THEN b ELSE blocks) = blocks
    OBVIOUS
  <2>2. ListOf((owned \ {a}) \cup {b}, IF blocks = a THEN b ELSE blocks, next', NULL)
    BY <1>3, <1>4, <1>5, ListRename
  <2>3. QED
    BY <2>1, <2>2
<1>7. Doubly((owned \ {a}) \cup {b}, next', prev', NULL)
  BY <1>3, <1>4, <1>5, DoublyRename
<1>8. prev'[blocks] = NULL
  BY <1>2, <1>3, <1>4 DEF Renamed
<1>9. next' \in [Block -> Block \cup {NULL}] /\ prev' \in [Block -> Block \cup {NULL}]
  BY <1>1, <1>2, <1>4 DEF Renamed
<1>10. QED
  BY <1>3, <1>6, <1>7, <1>8, <1>9, LinkedIf

--------------------------------------------------------------------------------
(* A block that leaves takes its size with it. *)
LEMMA AccountLoses ==
  ASSUME AllocInv, NEW b \in owned
  PROVE  /\ SumFunctionOnSet(endptr, owned \ {b}) \in Int /\ Numbers(endptr, owned \ {b})
         /\ endptr[b] \in Int /\ IsFiniteSet(owned \ {b})
         /\ memAllocated = ALLOC_CONTEXTSZ + endptr[b] + SumFunctionOnSet(endptr, owned \ {b})
<1>1. /\ IsFiniteSet(owned) /\ Numbers(endptr, owned)
      /\ memAllocated = ALLOC_CONTEXTSZ + SumFunctionOnSet(endptr, owned)
  BY BlockFacts
<1>2. IsFiniteSet(owned \ {b}) /\ Numbers(endptr, owned \ {b}) /\ endptr[b] \in Int
  BY <1>1, FS_Subset DEF Numbers
<1>3. SumFunctionOnSet(endptr, owned \ {b}) \in Int
  BY <1>2, SumType
<1>4. SumFunctionOnSet(endptr, owned) = endptr[b] + SumFunctionOnSet(endptr, owned \ {b})
  BY <1>1, SumWithout
<1>5. QED
  BY <1>1, <1>2, <1>3, <1>4 DEF ALLOC_CONTEXTSZ

(* An external chunk is freed with its block.                              *)
LEMMA ReleaseKeeps ==
  ASSUME AllocInv, NEW c \in Held, ReleaseBlock(c), Held' = Held \ {c}
  PROVE  /\ MemoryTypes' /\ Linked' /\ Filled' /\ Threaded' /\ AccountingOK'
         /\ Chunks' = Chunks \ {c} /\ Agree(data', data, Chunks \ {c})
         /\ Agree(hdr', hdr, Chunks \ {c})
<1> DEFINE b == c[1]
<1>1. /\ IsExternal(c)
      /\ next' = [UnlinkNext(b) EXCEPT ![b] = NULL]
      /\ prev' = [UnlinkPrev(b) EXCEPT ![b] = NULL]
      /\ freeptr' = [freeptr EXCEPT ![b] = ALLOC_BLOCKHDRSZ]
      /\ endptr' = [endptr EXCEPT ![b] = ALLOC_BLOCKHDRSZ]
      /\ owned' = owned \ {b}
      /\ memAllocated' = memAllocated - endptr[b]
      /\ hdr' = Without(hdr, c) /\ data' = Without(data, c)
      /\ UNCHANGED <<freelist, paramVars>>
      /\ blocks' = IF prev[b] = NULL THEN next[b] ELSE blocks
  BY DEF ReleaseBlock
<1>2. /\ c \in Chunks /\ b \in owned /\ b # blocks /\ b # Keeper /\ InBlock(b) = {c}
      /\ \A d \in Chunks : d[1] = b => d = c
  BY <1>1, ExternalFacts, HeldFacts
<1> HIDE DEF b
<1>3. prev[b] # NULL /\ blocks' = blocks
  BY <1>1, <1>2, NotFirst
<1>4. Linked' /\ next' \in [Block -> Block \cup {NULL}] /\ prev' \in [Block -> Block \cup {NULL}]
  BY <1>1, <1>2, <1>3, LinksRemove
<1>5. DOMAIN data = Chunks /\ DOMAIN hdr = Chunks /\ owned \subseteq Block
      /\ freeptr \in [Block -> Nat] /\ endptr \in [Block -> Nat]
  BY DEF AllocInv, MemoryTypes, Chunks
<1>6. Chunks' = Chunks \ {c} /\ Agree(hdr', hdr, Chunks \ {c}) /\ Agree(data', data, Chunks \ {c})
  BY <1>1, <1>5 DEF Chunks, Without, Restrict, Agree
<1>7. /\ \A x \in owned' : x \in owned /\ SameIn(x) /\ endptr'[x] = endptr[x]
  <2> SUFFICES ASSUME NEW x \in owned' PROVE x \in owned /\ SameIn(x) /\ endptr'[x] = endptr[x]
    OBVIOUS
  <2>1. x \in owned /\ x # b
    BY <1>1
  <2>2. freeptr'[x] = freeptr[x] /\ endptr'[x] = endptr[x]
    BY <1>1, <1>5, <2>1
  <2>3. InBlock(x)' = InBlock(x) /\ c \notin InBlock(x)
    BY <1>6, <2>1 DEF InBlock, b
  <2>4. Agree(hdr', hdr, InBlock(x))
    BY <1>6, <2>3 DEF Agree, InBlock
  <2>5. QED
    BY <2>1, <2>2, <2>3, <2>4 DEF SameIn
<1>8. MemoryTypes'
  <2>1. hdr' \in [Chunks' -> FreeIndexes \cup {External}] /\ data' \in [Chunks' -> Contents]
    BY <1>1, <1>5, <1>6 DEF AllocInv, MemoryTypes, Without, Restrict
  <2>2. Chunks' \subseteq Address /\ IsFiniteSet(Chunks')
    BY <1>6, FS_Subset DEF AllocInv, MemoryTypes
  <2>3. freeptr' \in [Block -> Nat] /\ endptr' \in [Block -> Nat] /\ owned' \in SUBSET Block
    BY <1>1, <1>5 DEF ALLOC_BLOCKHDRSZ
  <2>4. QED
    BY <1>1, <1>4, <2>1, <2>2, <2>3 DEF AllocInv, MemoryTypes, paramVars
<1>9. AccountingOK'
  <2>1. /\ SumFunctionOnSet(endptr, owned \ {b}) \in Int /\ Numbers(endptr, owned \ {b})
        /\ endptr[b] \in Int /\ IsFiniteSet(owned \ {b})
        /\ memAllocated = ALLOC_CONTEXTSZ + endptr[b] + SumFunctionOnSet(endptr, owned \ {b})
    BY <1>2, AccountLoses
  <2>2. Agree(endptr', endptr, owned \ {b})
    BY <1>1, <1>7 DEF Agree
  <2>3. SumFunctionOnSet(endptr', owned \ {b}) = SumFunctionOnSet(endptr, owned \ {b})
    BY <2>1, <2>2, SumStays
  <2>4. QED
    BY <1>1, <2>1, <2>3 DEF AccountingOK, ALLOC_CONTEXTSZ
<1>10. Filled'
  <2>1. \A d \in Chunks' : d[1] \in owned'
    BY <1>1, <1>2, <1>6, HeldFacts
  <2>2. ASSUME NEW x \in owned'
        PROVE  /\ Tiles(x, InBlock(x), Ends, ALLOC_BLOCKHDRSZ, freeptr[x])'
               /\ freeptr'[x] <= endptr'[x]
               /\ freeptr'[x] = ALLOC_BLOCKHDRSZ => x = Keeper
    BY <1>7, BlockStays
  <2>3. ASSUME NEW d \in Chunks', IsExternal(d)'
        PROVE  /\ d \in Held' /\ d[1] # blocks' /\ d[1] # Keeper
               /\ InBlock(d[1])' = {d} /\ freeptr'[d[1]] = endptr'[d[1]]
    <3>1. d[1] \in owned /\ SameIn(d[1]) /\ d # c
      BY <1>6, <1>7, <2>1
    <3>2. QED
      BY <1>3, <2>3, <3>1, ExternalStays
  <2>4. QED
    BY <2>1, <2>2, <2>3 DEF Filled
<1>11. Threaded'
  <2> SUFFICES ASSUME NEW i \in FreeIndexes
               PROVE  ListOf(Unheld(i)', freelist'[i], data', NULL)
    BY DEF Threaded
  <2>1. ListOf(Unheld(i), freelist[i], data, NULL)
    BY DEF AllocInv, Threaded
  <2>2. Unheld(i)' = Unheld(i) /\ Unheld(i) \subseteq Chunks \ {c}
    BY <1>6 DEF Unheld, Agree
  <2>3. Agree(data', data, Unheld(i))
    BY <1>6, <2>2 DEF Agree
  <2>4. QED
    BY <1>1, <2>1, <2>2, <2>3, ListStays
<1>12. QED
  BY <1>4, <1>6, <1>8, <1>9, <1>10, <1>11

(* An external chunk goes with its block to where realloc puts it.         *)
LEMMA MoveKeeps ==
  ASSUME AllocInv, NEW c, NEW size \in Nat, NEW b \in Block, ReallocExternal(c, size, b)
  PROVE  /\ AllocInv' /\ Chunks' = (Chunks \ {c}) \cup {Start(b)}
         /\ c \in inUse /\ Start(b) \notin Chunks \ {c}
         /\ Agree(data', data, Chunks \ {c}) /\ data'[Start(b)] = data[c]
<1> DEFINE a == c[1]
           n == LargeBlockSize(size)
           d == Start(b)
<1>1. n \in Nat /\ 48 <= n
  BY LargeFacts
<1>2. /\ moving = NULL /\ c \in inUse /\ IsExternal(c) /\ b \in (Block \ owned) \cup {a}
      /\ blocks' = IF prev[a] = NULL THEN b ELSE blocks
      /\ next' = [x \in Block |->
                    IF x = b THEN next[a] ELSE IF x = a THEN NULL ELSE Renamed(next[x], a, b)]
      /\ prev' = [x \in Block |->
                    IF x = b THEN prev[a] ELSE IF x = a THEN NULL ELSE Renamed(prev[x], a, b)]
      /\ freeptr' = [freeptr EXCEPT ![a] = ALLOC_BLOCKHDRSZ, ![b] = n]
      /\ endptr' = [endptr EXCEPT ![a] = ALLOC_BLOCKHDRSZ, ![b] = n]
      /\ owned' = (owned \ {a}) \cup {b}
      /\ memAllocated' = memAllocated - endptr[a] + n
      /\ hdr' = With(Without(hdr, c), d, External)
      /\ data' = With(Without(data, c), d, data[c])
      /\ inUse' = (inUse \ {c}) \cup {d}
      /\ UNCHANGED <<freelist, paramVars, moving>>
  BY DEF ReallocExternal, AccountResize
<1>3. /\ c \in Chunks /\ a \in owned /\ a # blocks /\ a # Keeper /\ InBlock(a) = {c}
      /\ \A e \in Chunks : e[1] = a => e = c
  BY <1>2, ExternalFacts DEF AllocInv, ClientTypes
<1>4. d \in Address /\ d[1] = b
  BY StartFacts
<1> HIDE DEF a, n, d
<1>5. prev[a] # NULL /\ blocks' = blocks
  BY <1>2, <1>3, NotFirst
<1>6. Linked' /\ next' \in [Block -> Block \cup {NULL}] /\ prev' \in [Block -> Block \cup {NULL}]
  BY <1>2, <1>3, <1>5, LinksRename
<1>7. DOMAIN data = Chunks /\ DOMAIN hdr = Chunks /\ owned \subseteq Block
      /\ freeptr \in [Block -> Nat] /\ endptr \in [Block -> Nat] /\ blocks \in owned
  BY BlockFacts DEF AllocInv, MemoryTypes, Chunks
<1>8. \A e \in Chunks : e \in Address /\ e[1] \in owned
  BY HeldFacts
<1>9. d \notin Chunks \ {c}
  BY <1>2, <1>3, <1>4, <1>8
<1>10. /\ Chunks' = (Chunks \ {c}) \cup {d} /\ Agree(hdr', hdr, Chunks \ {c}) /\ hdr'[d] = External
       /\ Agree(data', data, Chunks \ {c}) /\ data'[d] = data[c]
  <2>1. DOMAIN Without(hdr, c) = Chunks \ {c} /\ DOMAIN Without(data, c) = Chunks \ {c}
        /\ Agree(Without(hdr, c), hdr, Chunks \ {c}) /\ Agree(Without(data, c), data, Chunks \ {c})
    BY <1>7 DEF Without, Restrict, Agree
  <2>2. QED
    BY <1>2, <1>9, <2>1 DEF Chunks, With, Agree
<1>11. /\ \A x \in owned \ {a} : SameIn(x) /\ x # b /\ x \in Block
       /\ freeptr'[b] = n /\ endptr'[b] = n /\ InBlock(b)' = {d}
  <2>1. ASSUME NEW x \in owned \ {a} PROVE SameIn(x) /\ x # b /\ x \in Block
    <3>1. x \in owned /\ x # a /\ x # b /\ x \in Block
      BY <1>2, <1>7
    <3>2. freeptr'[x] = freeptr[x] /\ endptr'[x] = endptr[x]
      BY <1>2, <1>7, <3>1
    <3>3. InBlock(x)' = InBlock(x) /\ c \notin InBlock(x)
      BY <1>4, <1>10, <3>1 DEF InBlock, a
    <3>4. Agree(hdr', hdr, InBlock(x))
      BY <1>10, <3>3 DEF Agree, InBlock
    <3>5. QED
      BY <3>1, <3>2, <3>3, <3>4 DEF SameIn
  <2>2. freeptr'[b] = n /\ endptr'[b] = n
    BY <1>2, <1>7
  <2>3. InBlock(b)' = {d}
    BY <1>2, <1>3, <1>4, <1>8, <1>10 DEF InBlock
  <2>4. QED
    BY <2>1, <2>2, <2>3
<1>12. MemoryTypes'
  <2>1. hdr' \in [Chunks' -> FreeIndexes \cup {External}] /\ data' \in [Chunks' -> Contents]
    <3>1. hdr \in [Chunks -> FreeIndexes \cup {External}] /\ data \in [Chunks -> Contents]
      BY DEF AllocInv, MemoryTypes
    <3>2. /\ Without(hdr, c) \in [Chunks \ {c} -> FreeIndexes \cup {External}]
          /\ Without(data, c) \in [Chunks \ {c} -> Contents]
      BY <3>1 DEF Without, Restrict
    <3>3. data[c] \in Contents
      BY <1>3, <3>1
    <3>4. QED
      BY <1>2, <1>10, <3>2, <3>3 DEF With
  <2>2. Chunks' \subseteq Address /\ IsFiniteSet(Chunks')
    <3>1. IsFiniteSet(Chunks \ {c})
      BY FS_Subset DEF AllocInv, MemoryTypes
    <3>2. QED
      BY <1>4, <1>8, <1>10, <3>1, FS_AddElement
  <2>3. freeptr' \in [Block -> Nat] /\ endptr' \in [Block -> Nat] /\ owned' \in SUBSET Block
    <3>1. ALLOC_BLOCKHDRSZ \in Nat
      BY DEF ALLOC_BLOCKHDRSZ
    <3>2. QED
      BY <1>1, <1>2, <1>7, <3>1
  <2>4. QED
    BY <1>2, <1>6, <2>1, <2>2, <2>3 DEF AllocInv, MemoryTypes, paramVars
<1>13. AccountingOK'
  <2> DEFINE R == owned \ {a}
  <2>1. /\ SumFunctionOnSet(endptr, R) \in Int /\ Numbers(endptr, R)
        /\ endptr[a] \in Int /\ IsFiniteSet(R)
        /\ memAllocated = ALLOC_CONTEXTSZ + endptr[a] + SumFunctionOnSet(endptr, R)
    BY <1>3, AccountLoses
  <2>2. Agree(endptr', endptr, R) /\ b \notin R /\ endptr'[b] = n
    BY <1>11 DEF Agree, SameIn
  <2> HIDE DEF R
  <2>3. Numbers(endptr', R) /\ endptr'[b] \in Int
    BY <1>1, <2>1, <2>2 DEF Numbers, Agree
  <2>4. SumFunctionOnSet(endptr', R) = SumFunctionOnSet(endptr, R)
    BY <2>1, <2>2, SumStays
  <2>5. SumFunctionOnSet(endptr', R \cup {b}) = endptr'[b] + SumFunctionOnSet(endptr', R)
    BY <2>1, <2>2, <2>3, SumWith
  <2>6. owned' = R \cup {b}
    BY <1>2 DEF R
  <2>7. memAllocated' = memAllocated - endptr[a] + n
    BY <1>2
  <2>8. SumFunctionOnSet(endptr', owned') = n + SumFunctionOnSet(endptr, R)
    BY <2>2, <2>4, <2>5, <2>6
  <2>9. memAllocated' = ALLOC_CONTEXTSZ + SumFunctionOnSet(endptr', owned')
    <3> DEFINE s == SumFunctionOnSet(endptr, R)
               t == endptr[a]
    <3>1. s \in Int /\ t \in Int /\ memAllocated = 200 + t + s
      BY <2>1 DEF ALLOC_CONTEXTSZ
    <3>2. memAllocated' = memAllocated - t + n
      BY <2>7
    <3>3. SumFunctionOnSet(endptr', owned') = n + s
      BY <2>8
    <3> HIDE DEF s, t
    <3>4. memAllocated' = 200 + (n + s)
      BY <1>1, <3>1, <3>2
    <3>5. QED
      BY <3>3, <3>4 DEF ALLOC_CONTEXTSZ
  <2>10. QED
    BY <2>9 DEF AccountingOK
<1>14. Held' = (Held \ {c}) \cup {d} /\ c \in Held
  BY <1>2 DEF Held
<1>15. Filled'
  <2>1. \A e \in Chunks' : e[1] \in owned'
    <3>1. \A e \in Chunks \ {c} : e[1] \in owned \ {a}
      BY <1>3, <1>8
    <3>2. QED
      BY <1>2, <1>4, <1>10, <3>1
  <2>2. ASSUME NEW x \in owned'
        PROVE  /\ Tiles(x, InBlock(x), Ends, ALLOC_BLOCKHDRSZ, freeptr[x])'
               /\ freeptr'[x] <= endptr'[x]
               /\ freeptr'[x] = ALLOC_BLOCKHDRSZ => x = Keeper
    <3>1. CASE x \in owned \ {a}
      BY <1>11, <3>1, BlockStays
    <3>2. CASE x = b
      BY <1>1, <1>10, <1>11, <3>2, OwnBlockFills DEF d
    <3>3. QED
      BY <1>2, <3>1, <3>2
  <2>3. ASSUME NEW e \in Chunks', IsExternal(e)'
        PROVE  /\ e \in Held' /\ e[1] # blocks' /\ e[1] # Keeper
               /\ InBlock(e[1])' = {e} /\ freeptr'[e[1]] = endptr'[e[1]]
    <3>1. CASE e = d
      <4>1. b # blocks /\ b # Keeper
        BY <1>2, <1>3, BlockFacts
      <4>2. QED
        BY <1>4, <1>5, <1>11, <1>14, <3>1, <4>1
    <3>2. CASE e # d
      <4>1. e \in Chunks \ {c} /\ e[1] \in owned \ {a} /\ SameIn(e[1]) /\ e # c
        BY <1>3, <1>8, <1>10, <1>11, <3>2
      <4>2. QED
        BY <1>5, <1>14, <2>3, <4>1, ExternalStays
    <3>3. QED
      BY <3>1, <3>2
  <2>4. QED
    BY <2>1, <2>2, <2>3 DEF Filled
<1>16. Threaded'
  <2> SUFFICES ASSUME NEW i \in FreeIndexes
               PROVE  ListOf(Unheld(i)', freelist'[i], data', NULL)
    BY DEF Threaded
  <2>1. ListOf(Unheld(i), freelist[i], data, NULL)
    BY DEF AllocInv, Threaded
  <2>2. Unheld(i)' = Unheld(i) /\ Unheld(i) \subseteq Chunks \ {c}
    BY <1>9, <1>10, <1>14 DEF Unheld, Agree
  <2>3. Agree(data', data, Unheld(i))
    BY <1>10, <2>2 DEF Agree
  <2>4. QED
    BY <1>2, <2>1, <2>2, <2>3, ListStays
<1>17. ClientTypes'
  <2>1. inUse' \subseteq Chunks'
    BY <1>2, <1>10 DEF AllocInv, ClientTypes
  <2>2. QED
    BY <1>2, <2>1 DEF ClientTypes
<1>18. AllocInv'
  BY <1>6, <1>12, <1>13, <1>15, <1>16, <1>17 DEF AllocInv
<1>19. QED
  BY <1>2, <1>9, <1>10, <1>18 DEF d

--------------------------------------------------------------------------------
(* The list of blocks, walked from its head, is what the set owns.         *)
LEMMA ListedIsOwned ==
  ASSUME AllocInv
  PROVE  Walks(Nth, blocks, next, NULL) /\ Listed = owned
<1>1. ListOf(owned, blocks, next, NULL) /\ IsFiniteSet(owned) /\ owned \subseteq Block
  BY BlockFacts
<1>2. Follow(owned, blocks, next, NULL)
  BY <1>1 DEF ListOf
<1>3. Nth = CHOOSE g : g = [n \in Nat |->
               IF n = 0 THEN blocks ELSE IF g[n - 1] = NULL THEN NULL ELSE next[g[n - 1]]]
  BY DEF Nth
<1>4. Walks(Nth, blocks, next, NULL)
  BY <1>2, <1>3, WalkEquation
<1>5. Cardinality(owned) <= Cardinality(Block) /\ Cardinality(Block) \in Nat
  BY <1>1, AllocSetAssumption, FS_Subset, FS_CardinalityType
<1>6. {Nth[n] : n \in 0..Cardinality(Block)} \ {NULL} = owned
  BY <1>1, <1>4, <1>5, ListWalk
<1>7. QED
  BY <1>4, <1>6 DEF Listed

(* An empty set: the keeper block is all there is of it. *)
Emptied ==
  /\ blocks = Keeper /\ owned = {Keeper}
  /\ next = [b \in Block |-> NULL] /\ prev = [b \in Block |-> NULL]
  /\ freeptr = [b \in Block |-> ALLOC_BLOCKHDRSZ]
  /\ endptr \in [Block -> Nat] /\ ALLOC_BLOCKHDRSZ <= endptr[Keeper]
  /\ hdr = [c \in {} |-> External] /\ data = [c \in {} |-> NULL]
  /\ freelist = [i \in FreeIndexes |-> NULL]
  /\ nextBlockSize = InitBlockSize /\ maxBlockSize \in MaxBlockSize
  /\ \E k \in FreeIndexes : chunkLimit = ClassSize(k)
  /\ memAllocated = ALLOC_CONTEXTSZ + endptr[Keeper]
  /\ inUse = {} /\ moving = NULL

(* An empty set satisfies the invariant. *)
LEMMA EmptiedIsSound == Emptied => AllocInv
<1> SUFFICES ASSUME Emptied PROVE AllocInv
  OBVIOUS
<1> USE DEF Emptied
<1>1. Keeper \in Block /\ NULL \notin Block /\ Keeper # NULL
  BY AllocSetAssumption
<1>2. Chunks = {} /\ Held = {}
  BY DEF Chunks, Held
<1>3. MemoryTypes
  <2>1. hdr \in [Chunks -> FreeIndexes \cup {External}] /\ data \in [Chunks -> Contents]
    BY <1>2
  <2>2. Chunks \subseteq Address /\ IsFiniteSet(Chunks)
    BY <1>2, FS_EmptySet
  <2>3. freeptr \in [Block -> Nat]
    BY DEF ALLOC_BLOCKHDRSZ
  <2>4. nextBlockSize \in InitBlockSize..maxBlockSize
    <3>1. InitBlockSize \in Nat /\ maxBlockSize \in Nat /\ maxBlockSize >= InitBlockSize
      BY AllocSetAssumption
    <3>2. QED
      BY <3>1
  <2>5. next \in [Block -> Block \cup {NULL}] /\ prev \in [Block -> Block \cup {NULL}]
    OBVIOUS
  <2>6. freelist \in [FreeIndexes -> Address \cup {NULL}]
    OBVIOUS
  <2>7. owned \in SUBSET Block
    BY <1>1
  <2>8. QED
    BY <2>1, <2>2, <2>3, <2>4, <2>5, <2>6, <2>7 DEF MemoryTypes
<1>4. ClientTypes
  BY <1>2 DEF ClientTypes
<1>5. Linked
  <2>1. ListOf({Keeper}, Keeper, next, NULL)
    BY <1>1, ListSingle
  <2>2. next[Keeper] = NULL /\ prev[Keeper] = NULL
    BY <1>1
  <2>3. \A a, b \in owned : next[a] = b <=> prev[b] = a
    BY <1>1, <2>2
  <2>4. QED
    BY <1>1, <2>1, <2>2, <2>3 DEF Linked
<1>6. Filled
  <2>1. Tiles(Keeper, {}, Ends, ALLOC_BLOCKHDRSZ, ALLOC_BLOCKHDRSZ)
    BY TilesNone DEF ALLOC_BLOCKHDRSZ
  <2>2. InBlock(Keeper) = {} /\ freeptr[Keeper] = ALLOC_BLOCKHDRSZ
    BY <1>1, <1>2 DEF InBlock
  <2>3. QED
    BY <1>2, <2>1, <2>2 DEF Filled
<1>7. Threaded
  <2> SUFFICES ASSUME NEW i \in FreeIndexes PROVE ListOf(Unheld(i), freelist[i], data, NULL)
    BY DEF Threaded
  <2>1. Unheld(i) = {} /\ freelist[i] = NULL
    BY <1>2 DEF Unheld
  <2>2. QED
    BY <2>1, ListEmpty
<1>8. AccountingOK
  <2>1. IsFiniteSet({Keeper}) /\ Numbers(endptr, {Keeper}) /\ {Keeper} \ {Keeper} = {}
    <3>1. IsFiniteSet({Keeper})
      BY FS_Singleton, Zenon
    <3>2. endptr[Keeper] \in Nat
      BY <1>1
    <3>3. QED
      BY <3>1, <3>2 DEF Numbers
  <2>2. SumFunctionOnSet(endptr, {Keeper}) = endptr[Keeper] + SumFunctionOnSet(endptr, {Keeper} \ {Keeper})
    BY <2>1, SumWithout
  <2>3. SumFunctionOnSet(endptr, {Keeper} \ {Keeper}) = 0 /\ endptr[Keeper] \in Nat
    BY <1>1, <2>1, SumOfNone
  <2>4. QED
    BY <2>2, <2>3 DEF AccountingOK
<1>9. QED
  BY <1>3, <1>4, <1>5, <1>6, <1>7, <1>8 DEF AllocInv

(* The initial state, and the state after a reset.                         *)
LEMMA InitIsEmpty ==
  ASSUME Init
  PROVE  Emptied
<1>1. KeeperSize \in Nat /\ 48 <= KeeperSize /\ Keeper \in Block
  BY KeeperFacts, AllocSetAssumption
<1>2. endptr \in [Block -> Nat] /\ endptr[Keeper] = KeeperSize /\ ALLOC_BLOCKHDRSZ <= KeeperSize
  BY <1>1 DEF Init, ALLOC_BLOCKHDRSZ
<1>3. \E k \in FreeIndexes : chunkLimit = ClassSize(k)
  BY LimitIsClass DEF Init
<1>4. QED
  BY <1>2, <1>3 DEF Init, Emptied

(* A reset leaves an empty set: the listed blocks but the keeper are freed. *)
LEMMA ResetEmpties ==
  ASSUME AllocInv, NEW max \in MaxBlockSize, ResetTo(max)
  PROVE  Emptied'
<1>1. Listed = owned /\ Keeper \in owned /\ owned \subseteq Block /\ endptr \in [Block -> Nat]
  BY ListedIsOwned, BlockFacts DEF AllocInv, MemoryTypes
<1>2. /\ endptr' = [b \in Block |-> IF b = Keeper THEN endptr[b] ELSE ALLOC_BLOCKHDRSZ]
      /\ owned' = owned \ (owned \ {Keeper})
      /\ memAllocated' = memAllocated - SumFunctionOnSet(endptr, owned \ {Keeper})
      /\ maxBlockSize' = max /\ chunkLimit' = chunkLimit
  BY <1>1 DEF ResetTo
<1>3. owned' = {Keeper}
  BY <1>1, <1>2
<1>4. endptr' \in [Block -> Nat] /\ endptr'[Keeper] = endptr[Keeper]
  BY <1>1, <1>2 DEF ALLOC_BLOCKHDRSZ
<1>5. ALLOC_BLOCKHDRSZ <= endptr[Keeper]
  <2>1. Tiles(Keeper, InBlock(Keeper), Ends, ALLOC_BLOCKHDRSZ, freeptr[Keeper])
        /\ freeptr[Keeper] <= endptr[Keeper] /\ freeptr[Keeper] \in Nat /\ endptr[Keeper] \in Nat
    BY <1>1 DEF AllocInv, Filled, MemoryTypes
  <2>2. ALLOC_BLOCKHDRSZ <= freeptr[Keeper] /\ ALLOC_BLOCKHDRSZ \in Nat
    BY <2>1 DEF Tiles
  <2>3. QED
    BY <2>1, <2>2
<1>6. memAllocated' = ALLOC_CONTEXTSZ + endptr'[Keeper]
  <2> DEFINE s == SumFunctionOnSet(endptr, owned \ {Keeper})
  <2>1. s \in Int /\ endptr[Keeper] \in Int /\ memAllocated = ALLOC_CONTEXTSZ + endptr[Keeper] + s
    BY <1>1, AccountLoses
  <2>2. memAllocated' = memAllocated - s
    BY <1>2
  <2> HIDE DEF s
  <2>3. QED
    BY <1>4, <2>1, <2>2 DEF ALLOC_CONTEXTSZ
<1>7. \E k \in FreeIndexes : chunkLimit' = ClassSize(k)
  BY <1>2 DEF AllocInv, MemoryTypes
<1>8. QED
  BY <1>2, <1>3, <1>4, <1>5, <1>6, <1>7 DEF ResetTo, Emptied

--------------------------------------------------------------------------------
(* What clients hold, and the steps of the heap. *)
Stored == [c \in inUse |-> data[c]]
HeapStep == Memory!Next \/ Stored' = Stored

(* What the steps of clients keep, and what they are to the clients.       *)
LEMMA AllocStep ==
  ASSUME AllocInv, NEW size \in Size, NEW v \in Value, Alloc(size, v)
  PROVE  AllocInv' /\ HeapStep
<1>1. PICK c \in Candidates : Obtain(size, c, v) /\ inUse' = inUse \cup {c}
  BY DEF Alloc
<1>2. size \in Nat /\ moving = NULL /\ moving' = NULL
  BY AllocSetAssumption DEF Alloc
<1>3. Held = inUse /\ Held' = Held \cup {c}
  BY <1>1, <1>2 DEF Held
<1>4. Obtained(c, v)
  BY <1>1, <1>2, <1>3, ObtainKeeps
<1>5. ClientTypes'
  <2>1. inUse' \subseteq Chunks'
    BY <1>1, <1>4 DEF AllocInv, ClientTypes, Obtained
  <2>2. QED
    BY <1>2, <2>1 DEF ClientTypes
<1>6. Memory!Next
  <2>1. c \in inUse' \ inUse
    BY <1>1, <1>3, <1>4 DEF Obtained
  <2>2. Memory!Alloc(c)
    BY <1>1, <1>3, <1>4 DEF Memory!Alloc, Memory!InUse, Obtained
  <2>3. QED
    BY <2>1, <2>2 DEF Memory!Next, Memory!InUse
<1>7. QED
  BY <1>4, <1>5, <1>6 DEF AllocInv, Obtained, HeapStep

(* A failed request may have carved up the rest of the active block. *)
LEMMA AllocFailsStep ==
  ASSUME AllocInv, NEW size \in Size, AllocFails(size)
  PROVE  AllocInv' /\ HeapStep
<1>1. size \in Nat /\ NewBlockFails(size) /\ inUse' = inUse /\ moving' = moving /\ moving = NULL
  BY AllocSetAssumption DEF AllocFails
<1>2. Held' = Held /\ inUse \subseteq Held
  BY <1>1 DEF Held
<1>3. /\ MemoryTypes' /\ Linked' /\ Filled' /\ Threaded' /\ AccountingOK'
      /\ Chunks \subseteq Chunks' /\ \A d \in Held : data'[d] = data[d]
  BY <1>1, <1>2, CarvingKeeps
<1>4. ClientTypes'
  BY <1>1, <1>3 DEF AllocInv, ClientTypes
<1>5. Stored' = Stored
  BY <1>1, <1>2, <1>3 DEF Stored
<1>6. QED
  BY <1>3, <1>4, <1>5 DEF AllocInv, HeapStep

(* pfree: the block goes back to malloc, or the chunk on its freelist. *)
LEMMA FreeStep ==
  ASSUME AllocInv, NEW c \in inUse, Free(c)
  PROVE  AllocInv' /\ HeapStep
<1>1. moving = NULL /\ moving' = NULL /\ inUse' = inUse \ {c}
  BY DEF Free
<1>2. Held = inUse /\ Held' = Held \ {c} /\ c \in Held
  BY <1>1 DEF Held
<1>3. DOMAIN data = Chunks /\ inUse \subseteq Chunks /\ data \in [Chunks -> Contents]
  BY DEF AllocInv, MemoryTypes, ClientTypes
<1>4. /\ MemoryTypes' /\ Linked' /\ Filled' /\ Threaded' /\ AccountingOK'
      /\ inUse' \subseteq Chunks' /\ \A d \in inUse' : data'[d] = data[d]
  <2>1. CASE ReleaseBlock(c)
    <3>1. /\ MemoryTypes' /\ Linked' /\ Filled' /\ Threaded' /\ AccountingOK'
          /\ Chunks' = Chunks \ {c} /\ Agree(data', data, Chunks \ {c})
      BY <1>2, <2>1, ReleaseKeeps
    <3>2. QED
      BY <1>1, <1>3, <3>1 DEF Agree
  <2>2. CASE PushFree(c, data)
    <3>1. Agree(data, data, Chunks \ Held)
      BY DEF Agree
    <3>2. MemoryTypes' /\ Linked' /\ Filled' /\ Threaded' /\ AccountingOK'
      BY <1>2, <1>3, <2>2, <3>1, PushKeeps
    <3>3. Chunks' = Chunks /\ \A d \in Chunks \ {c} : data'[d] = data[d]
      BY <1>3, <2>2 DEF PushFree, Chunks
    <3>4. QED
      BY <1>1, <1>3, <3>2, <3>3
  <2>3. QED
    BY <2>1, <2>2 DEF Free
<1>5. ClientTypes'
  BY <1>1, <1>4 DEF ClientTypes
<1>6. Memory!Next
  <2>1. c \in inUse \ inUse'
    BY <1>1
  <2>2. Memory!Free(c)
    BY <1>1, <1>4 DEF Memory!Free, Memory!InUse
  <2>3. QED
    BY <2>1, <2>2 DEF Memory!Next, Memory!InUse
<1>7. QED
  BY <1>4, <1>5, <1>6 DEF AllocInv, HeapStep

(* A realloc of an external chunk, which may stay where it is. *)
LEMMA ReallocStep ==
  ASSUME AllocInv, NEW c \in inUse, NEW size \in Size, NEW b \in Block, ReallocExternal(c, size, b)
  PROVE  AllocInv' /\ HeapStep
<1> DEFINE d == Start(b)
<1>1. size \in Nat
  BY AllocSetAssumption
<1>2. /\ AllocInv' /\ Chunks' = (Chunks \ {c}) \cup {d} /\ d \notin Chunks \ {c}
      /\ Agree(data', data, Chunks \ {c}) /\ data'[d] = data[c]
  BY <1>1, MoveKeeps
<1>3. inUse' = (inUse \ {c}) \cup {d} /\ inUse \subseteq Chunks
  BY DEF ReallocExternal, AllocInv, ClientTypes
<1> HIDE DEF d
<1>4. \A e \in inUse \ {c} : data'[e] = data[e] /\ e # d
  BY <1>2, <1>3 DEF Agree
<1>5. CASE d = c
  <2>1. inUse' = inUse /\ \A e \in inUse : data'[e] = data[e]
    BY <1>2, <1>3, <1>4, <1>5
  <2>2. Stored' = Stored
    BY <2>1 DEF Stored
  <2>3. QED
    BY <1>2, <2>2 DEF HeapStep
<1>6. CASE d # c
  <2>1. d \in inUse' \ inUse /\ c \in inUse \ inUse'
    BY <1>2, <1>3, <1>6
  <2>2. Memory!Move(c, d)
    BY <1>2, <1>3, <1>4, <2>1 DEF Memory!Move, Memory!InUse
  <2>3. Memory!Next
    BY <2>1, <2>2 DEF Memory!Next, Memory!InUse
  <2>4. QED
    BY <1>2, <2>3 DEF HeapStep
<1>7. QED
  BY <1>5, <1>6

(* The first half of another realloc: a second chunk is held. *)
LEMMA StartGrowStep ==
  ASSUME AllocInv, NEW c \in inUse, NEW size \in Size, StartGrow(c, size)
  PROVE  AllocInv' /\ HeapStep
<1>1. PICK new \in Candidates : Obtain(size, new, NULL) /\ moving' = [from |-> c, to |-> new]
  BY DEF StartGrow
<1>2. size \in Nat /\ moving = NULL /\ inUse' = inUse /\ ~ IsExternal(c) /\ c \in Chunks
  BY AllocSetAssumption DEF StartGrow, AllocInv, ClientTypes
<1>3. new \in Address
  <2>1. Range(freelist) \subseteq Address \cup {NULL} /\ blocks \in Block /\ freeptr[blocks] \in Nat
    BY BlockFacts DEF AllocInv, MemoryTypes, Range
  <2>2. \A b \in Block : Start(b) \in Address
    BY StartFacts
  <2>3. QED
    BY <2>1, <2>2 DEF Candidates, Address
<1>4. moving' # NULL
  <2>1. c \in Address
    BY <1>2 DEF AllocInv, MemoryTypes
  <2>2. moving' \in [from : Block \X Nat, to : Block \X Nat]
    BY <1>1, <1>3, <2>1 DEF Address
  <2>3. QED
    BY <2>2, AllocSetAssumption
<1>5. Held = inUse /\ Held' = Held \cup {new}
  BY <1>1, <1>2, <1>4 DEF Held
<1>6. Obtained(new, NULL)
  BY <1>1, <1>2, <1>5, ObtainKeeps
<1>7. ClientTypes'
  <2>1. inUse' \subseteq Chunks' /\ new \in Chunks' \ inUse' /\ c \in inUse'
    BY <1>2, <1>5, <1>6 DEF AllocInv, ClientTypes, Obtained
  <2>2. ~ IsExternal(c)'
    BY <1>2, <1>6 DEF Obtained, IsExternal
  <2>3. QED
    BY <1>1, <2>1, <2>2 DEF ClientTypes
<1>8. Stored' = Stored
  BY <1>2, <1>5, <1>6 DEF Stored, Obtained
<1>9. QED
  BY <1>6, <1>7, <1>8 DEF AllocInv, Obtained, HeapStep

(* The second half: the contents are copied and the first chunk is freed. *)
LEMMA FinishGrowStep ==
  ASSUME AllocInv, FinishGrow
  PROVE  AllocInv' /\ HeapStep
<1> DEFINE from == moving.from
           to == moving.to
           contents == [data EXCEPT ![to] = data[from]]
<1>1. moving # NULL /\ moving' = NULL /\ inUse' = (inUse \ {from}) \cup {to} /\ PushFree(from, contents)
  BY DEF FinishGrow
<1>2. from \in inUse /\ to \in Chunks \ inUse /\ inUse \subseteq Chunks
  BY <1>1 DEF AllocInv, ClientTypes
<1>3. Held = inUse \cup {to} /\ Held' = Held \ {from} /\ from \in Held
  BY <1>1, <1>2 DEF Held
<1> HIDE DEF from, to
<1>4. contents \in [Chunks -> Contents] /\ Agree(contents, data, Chunks \ Held)
      /\ DOMAIN data = Chunks
  BY <1>2, <1>3 DEF AllocInv, MemoryTypes, Agree
<1>5. MemoryTypes' /\ Linked' /\ Filled' /\ Threaded' /\ AccountingOK'
  <2> HIDE DEF contents
  <2>1. QED
    BY <1>1, <1>3, <1>4, PushKeeps
<1>6. Chunks' = Chunks /\ data'[to] = data[from] /\ \A r \in inUse \ {from} : data'[r] = data[r]
  BY <1>1, <1>2, <1>4 DEF PushFree, Chunks
<1>7. ClientTypes'
  BY <1>1, <1>2, <1>6 DEF ClientTypes
<1>8. Memory!Next
  <2>1. PICK p \in inUse \ inUse', q \in inUse' \ inUse : p = from /\ q = to
    BY <1>1, <1>2
  <2>2. Memory!Move(p, q)
    BY <1>1, <1>2, <1>6, <2>1 DEF Memory!Move, Memory!InUse
  <2>3. QED
    BY <2>1, <2>2 DEF Memory!Next, Memory!InUse
<1>9. QED
  BY <1>5, <1>7, <1>8 DEF AllocInv, HeapStep

(* A reset, or the reuse of a context of a freelist. *)
LEMMA ResetStep ==
  ASSUME AllocInv, NEW max \in MaxBlockSize, ResetTo(max)
  PROVE  AllocInv' /\ HeapStep
<1>1. Emptied'
  BY ResetEmpties
<1>2. AllocInv'
  BY <1>1, EmptiedIsSound, PTL
<1>3. Memory!Next
  BY DEF Memory!Next, Memory!Reset, Memory!InUse, ResetTo
<1>4. QED
  BY <1>2, <1>3 DEF HeapStep

(* A step of something else. *)
LEMMA StutterKeeps ==
  ASSUME AllocInv, UNCHANGED vars
  PROVE  AllocInv'
<1>1. /\ UNCHANGED listVars /\ UNCHANGED spaceVars /\ UNCHANGED chunkVars
      /\ UNCHANGED inUse /\ UNCHANGED moving /\ UNCHANGED paramVars
  BY DEF vars
<1>2. Chunks' = Chunks /\ Held' = Held
  BY <1>1 DEF chunkVars, Chunks, Held
<1>3. MemoryTypes'
  BY <1>1, <1>2 DEF AllocInv, MemoryTypes, listVars, spaceVars, chunkVars, paramVars
<1>4. ClientTypes'
  BY <1>1, <1>2 DEF AllocInv, ClientTypes, IsExternal, chunkVars
<1>5. Linked' /\ AccountingOK'
  BY <1>1 DEF AllocInv, Linked, AccountingOK, listVars, spaceVars
<1>6. Filled'
  <2>1. Filled /\ UNCHANGED <<hdr, spaceVars, listVars>>
    BY <1>1 DEF AllocInv, chunkVars
  <2>2. \A c \in Chunks : c \in Held /\ IsExternal(c) => c \in Held'
    BY <1>2
  <2>3. QED
    BY <2>1, <2>2, SpaceStays
<1>7. Threaded'
  BY <1>1, <1>2 DEF AllocInv, Threaded, Unheld, listVars, chunkVars
<1>8. QED
  BY <1>3, <1>4, <1>5, <1>6, <1>7 DEF AllocInv

(***************************************************************************)
(* Every step keeps the invariant and is a step of the heap or none.       *)
(***************************************************************************)
LEMMA StepKeeps ==
  ASSUME AllocInv, [Next]_vars
  PROVE  AllocInv' /\ HeapStep
<1>1. CASE \E size \in Size, v \in Value : Alloc(size, v)
  BY <1>1, AllocStep
<1>2. CASE \E size \in Size : AllocFails(size)
  BY <1>2, AllocFailsStep
<1>3. CASE \E c \in inUse : Free(c)
  BY <1>3, FreeStep
<1>4. CASE \E c \in inUse, size \in Size, b \in Block : ReallocExternal(c, size, b)
  BY <1>4, ReallocStep
<1>5. CASE \E c \in inUse, size \in Size : StartGrow(c, size)
  BY <1>5, StartGrowStep
<1>6. CASE FinishGrow
  BY <1>6, FinishGrowStep
<1>7. CASE Reset \/ Recycle
  <2>1. PICK max \in MaxBlockSize : ResetTo(max)
    BY <1>7 DEF Reset, Recycle, AllocInv, MemoryTypes
  <2>2. QED
    BY <2>1, ResetStep
<1>8. CASE UNCHANGED vars
  <2>1. AllocInv'
    BY <1>8, StutterKeeps
  <2>2. Stored' = Stored
    BY <1>8 DEF vars, chunkVars, Stored
  <2>3. QED
    BY <2>1, <2>2 DEF HeapStep
<1>9. QED
  BY <1>1, <1>2, <1>3, <1>4, <1>5, <1>6, <1>7, <1>8 DEF Next

(* AllocInv holds in every state. *)
THEOREM AllocInvHolds == Spec => []AllocInv
<1>1. Init => AllocInv
  BY InitIsEmpty, EmptiedIsSound
<1>2. AllocInv /\ [Next]_vars => AllocInv'
  BY StepKeeps
<1>3. QED
  BY <1>1, <1>2, PTL DEF Spec

(***************************************************************************)
(* To clients the set is a heap (ImplementsHeap): the map of what they     *)
(* hold is changed by the steps of Heap only, whichever way AllocSetAlloc  *)
(* and AllocSetRealloc find memory.                                        *)
(***************************************************************************)
THEOREM SetIsHeap == Spec => ImplementsHeap
<1>1. Init => Memory!Init
  BY DEF Init, Memory!Init, Memory!InUse
<1>2. AllocInv /\ [Next]_vars => [Memory!Next]_([c \in inUse |-> data[c]])
  <2> SUFFICES ASSUME AllocInv, [Next]_vars
               PROVE  [Memory!Next]_([c \in inUse |-> data[c]])
    OBVIOUS
  <2>1. HeapStep
    BY StepKeeps
  <2>2. QED
    BY <2>1 DEF HeapStep, Stored
<1>3. QED
  BY <1>1, <1>2, AllocInvHolds, PTL DEF Spec, ImplementsHeap, Memory!Spec

--------------------------------------------------------------------------------
(***************************************************************************)
(* From AllocInv to the properties of the runs.                            *)
(***************************************************************************)
LEMMA LinkedMeansListOK ==
  ASSUME AllocInv
  PROVE  BlockListOK
<1>1. /\ IsFiniteSet(owned) /\ Keeper \in owned /\ prev[blocks] = NULL
      /\ ListOf(owned, blocks, next, NULL) /\ Doubly(owned, next, prev, NULL)
  BY BlockFacts
<1>2. Walks(Nth, blocks, next, NULL) /\ Listed = owned
  BY ListedIsOwned
<1>3. Nth[Cardinality(owned)] = NULL
  <2>1. Cardinality(owned) \in Nat /\ Cardinality(owned) <= Cardinality(owned)
    BY <1>1, FS_CardinalityType
  <2>2. \A n \in Nat : Nth[n] = NULL <=> Cardinality(owned) <= n
    BY <1>1, <1>2, ListWalk
  <2>3. QED
    BY <2>1, <2>2
<1>4. \A a, b \in owned : next[a] = b <=> prev[b] = a
  BY DEF AllocInv, Linked
<1>5. \A c \in Chunks : IsExternal(c) => c[1] # blocks
  BY DEF AllocInv, Filled
<1>6. QED
  BY <1>1, <1>2, <1>3, <1>4, <1>5 DEF BlockListOK

(* The types, with the sum for memAllocated. *)
LEMMA TypesMeanTypeOK ==
  ASSUME AllocInv
  PROVE  AllocSetTypeOK
<1>1. MemoryTypes /\ ClientTypes
  BY DEF AllocInv
<1>2. blocks \in Block
  BY BlockFacts
<1>3. Range(hdr) \subseteq FreeIndexes \cup {External}
  BY <1>1 DEF MemoryTypes, Range, Chunks
<1>4. DOMAIN data = Chunks /\ Range(data) \subseteq Contents
  BY <1>1 DEF MemoryTypes, Range
<1>5. chunkLimit \in Nat
  BY <1>1, ClassFacts DEF MemoryTypes
<1>6. memAllocated \in Nat
  <2>1. IsFiniteSet(owned) /\ \A b \in owned : endptr[b] \in Nat
    BY <1>1, BlockFacts DEF MemoryTypes
  <2>2. SumFunctionOnSet(endptr, owned) \in Nat
    BY <2>1, SumNotNegative
  <2>3. memAllocated = ALLOC_CONTEXTSZ + SumFunctionOnSet(endptr, owned)
    BY BlockFacts
  <2>4. QED
    BY <2>2, <2>3 DEF ALLOC_CONTEXTSZ
<1>7. inUse \subseteq Chunks /\ (moving = NULL \/ moving \in [from : inUse, to : Chunks \ inUse])
  BY <1>1 DEF ClientTypes
<1>8. QED
  BY <1>1, <1>2, <1>3, <1>4, <1>5, <1>6, <1>7 DEF MemoryTypes, AllocSetTypeOK

(* The links lead over the unheld chunks of a class to the last of them.   *)
LEMMA ThreadedMeansSound ==
  ASSUME AllocInv, NEW i \in FreeIndexes
  PROVE  FreeChunks(i) = Unheld(i) /\ FreelistEnds(i)
<1> DEFINE At == CHOOSE g : g = [n \in Nat |->
                   IF n = 0 THEN freelist[i]
                   ELSE IF g[n - 1] = NULL THEN NULL ELSE data[g[n - 1]]]
           K == Cardinality(Unheld(i))
<1>1. /\ ListOf(Unheld(i), freelist[i], data, NULL) /\ IsFiniteSet(Unheld(i))
      /\ K \in Nat /\ K <= Cardinality(Chunks) /\ Cardinality(Chunks) \in Nat
  <2>1. IsFiniteSet(Chunks) /\ Unheld(i) \in SUBSET Chunks
    BY DEF AllocInv, MemoryTypes, Unheld
  <2>2. QED
    BY <2>1, FS_Subset, FS_CardinalityType DEF AllocInv, Threaded
<1>2. FreeChunks(i) = {At[n] : n \in 0..Cardinality(Chunks)} \ {NULL}
  BY DEF FreeChunks
<1>3. At = CHOOSE g : g = [n \in Nat |->
                   IF n = 0 THEN freelist[i]
                   ELSE IF g[n - 1] = NULL THEN NULL ELSE data[g[n - 1]]]
  OBVIOUS
<1> HIDE DEF At, K
<1>4. Follow(Unheld(i), freelist[i], data, NULL)
  BY <1>1 DEF ListOf
<1>5. Walks(At, freelist[i], data, NULL)
  BY <1>3, <1>4, WalkEquation
<1>6. /\ \A n \in Nat : At[n] \in Unheld(i) \cup {NULL}
      /\ \A n \in Nat : At[n] = NULL <=> K <= n
      /\ {At[n] : n \in 0..Cardinality(Chunks)} \ {NULL} = Unheld(i)
  BY <1>1, <1>5, ListWalk DEF K
<1>7. FreeChunks(i) = Unheld(i)
  BY <1>2, <1>6
<1>8. FreelistEnds(i)
  <2>1. CASE K = 0
    <3>1. At[0] = NULL
      BY <1>6, <2>1
    <3>2. QED
      BY <1>5, <3>1 DEF Walks, FreelistEnds
  <2>2. CASE K # 0
    <3>1. K - 1 \in Nat /\ ~ (K <= K - 1) /\ (K - 1) + 1 = K /\ K <= K
      BY <1>1, <2>2
    <3>2. At[K - 1] # NULL /\ At[K] = NULL
      BY <1>1, <1>6, <3>1
    <3>3. At[K] = data[At[K - 1]]
      BY <1>5, <3>1, <3>2 DEF Walks
    <3>4. At[K - 1] \in FreeChunks(i)
      BY <1>6, <1>7, <3>1, <3>2
    <3>5. QED
      BY <3>2, <3>3, <3>4 DEF FreelistEnds
  <2>3. QED
    BY <2>1, <2>2
<1>9. QED
  BY <1>7, <1>8

--------------------------------------------------------------------------------
(* Where the chunks C of a block begin, and where the next one does: the   *)
(* chunks are a list, from lo to hi, by their ends.                        *)
Begins(C) == {c[2] : c \in C}
Onward(b, C, E) == [p \in Nat |-> IF <<b, p>> \in C THEN E[<<b, p>>] ELSE p]

(* Each place is that of one chunk. *)
LEMMA BeginsFacts ==
  ASSUME NEW b, NEW C, NEW E, NEW lo, NEW hi, Tiles(b, C, E, lo, hi)
  PROVE  \A p : p \in Begins(C) <=> p \in Nat /\ <<b, p>> \in C
<1>1. \A c \in C : c[2] \in Nat /\ c = <<b, c[2]>>
  BY TilesBelow
<1>2. \A p : <<b, p>>[2] = p
  OBVIOUS
<1>3. QED
  BY <1>1, <1>2 DEF Begins

(* The chunks that fill a block are such a list. *)
LEMMA TilesAreListed ==
  ASSUME NEW b, NEW C, NEW E, NEW lo, NEW hi, Tiles(b, C, E, lo, hi)
  PROVE  ListOf(Begins(C), lo, Onward(b, C, E), hi)
<1> DEFINE F == Begins(C)
           f == Onward(b, C, E)
<1>1. lo \in Nat /\ hi \in Nat
  BY DEF Tiles
<1>2. /\ \A p \in F : p \in Nat /\ lo <= p /\ p < hi /\ p < f[p] /\ f[p] \in Nat
      /\ \A p \in F : <<b, p>> \in C /\ f[p] = E[<<b, p>>]
  <2> SUFFICES ASSUME NEW p \in F
               PROVE  /\ p \in Nat /\ <<b, p>> \in C /\ f[p] = E[<<b, p>>]
                      /\ lo <= p /\ p < hi /\ p < f[p] /\ f[p] \in Nat
    OBVIOUS
  <2>1. p \in Nat /\ <<b, p>> \in C
    BY BeginsFacts
  <2>2. f[p] = E[<<b, p>>]
    BY <2>1 DEF Onward
  <2>3. /\ <<b, p>>[2] = p /\ lo <= <<b, p>>[2] /\ <<b, p>>[2] < hi
        /\ <<b, p>>[2] < E[<<b, p>>] /\ E[<<b, p>>] \in Nat
    BY <2>1, TilesBelow
  <2>4. QED
    BY <2>1, <2>2, <2>3
<1>3. \A p \in Nat : <<b, p>> \in C => p \in F
  BY BeginsFacts
<1> HIDE DEF F, f
<1>2a. \A p \in F : p \in Nat /\ lo <= p /\ p < hi /\ p < f[p] /\ f[p] \in Nat
  BY <1>2
<1>2b. \A p \in F : <<b, p>> \in C /\ f[p] = E[<<b, p>>]
  BY <1>2
<1>4. hi \notin F
  BY <1>1, <1>2a
<1>5. Follow(F, lo, f, hi)
  <2>1. lo = hi \/ lo \in F
    BY <1>1, <1>3 DEF Tiles
  <2>2. ASSUME NEW p \in F PROVE f[p] = hi \/ f[p] \in F
    <3>1. E[<<b, p>>] = hi \/ <<b, E[<<b, p>>]>> \in C
      BY <1>2b DEF Tiles
    <3>2. QED
      BY <1>2a, <1>2b, <1>3, <3>1
  <2>3. QED
    BY <2>1, <2>2 DEF Follow
<1>6. \A p \in F : f[p] = lo => lo = hi
  BY <1>1, <1>2a
<1>7. ASSUME NEW p \in F, NEW q \in F, f[p] = f[q] PROVE p = q
  <2> DEFINE c == <<b, p>>
             d == <<b, q>>
  <2>1. c \in C /\ d \in C /\ E[c] = E[d]
    BY <1>2b, <1>7
  <2>2. c[2] = p /\ d[2] = q
    OBVIOUS
  <2> HIDE DEF c, d
  <2>3. c = d
    BY <2>1 DEF Tiles
  <2>4. QED
    BY <2>2, <2>3
<1>8. ASSUME NEW T \in SUBSET F, Follow(T, lo, f, hi) PROVE T = F
  <2> DEFINE Bad == F \ T
  <2> SUFFICES ASSUME Bad # {} PROVE FALSE
    OBVIOUS
  <2>1. PICK p \in Bad : \A q \in Bad : p <= q
    <3>1. Bad \in SUBSET Nat
      BY <1>2a
    <3>2. QED
      BY <3>1, LeastNumber
  <2>2. p # lo
    BY <1>1, <1>2a, <1>8, <2>1 DEF Follow
  <2>3. PICK d \in C : E[d] = p
    <3>1. <<b, p>> \in C /\ <<b, p>>[2] = p
      BY <1>2b
    <3>2. QED
      BY <2>2, <3>1 DEF Tiles
  <2>4. d[2] \in Nat /\ d = <<b, d[2]>> /\ d[2] < p
    BY <2>3, TilesBelow
  <2>5. d[2] \in F
    BY <1>3, <2>3, <2>4
  <2>6. d[2] \in T
    BY <1>2a, <2>1, <2>4, <2>5
  <2>7. f[d[2]] = p
    BY <1>2b, <2>3, <2>4, <2>5
  <2>8. p \in F /\ p \notin T /\ p # hi
    BY <1>4
  <2>9. QED
    BY <1>8, <2>6, <2>7, <2>8 DEF Follow
<1>9. QED
  BY <1>4, <1>5, <1>6, <1>7, <1>8 DEF ListOf, F, f

(* As many places as chunks. *)
LEMMA BeginsCount ==
  ASSUME NEW b, NEW C, NEW E, NEW lo, NEW hi, Tiles(b, C, E, lo, hi), IsFiniteSet(C)
  PROVE  IsFiniteSet(Begins(C)) /\ Cardinality(Begins(C)) = Cardinality(C) /\ hi \notin Begins(C)
<1> DEFINE place == [c \in C |-> c[2]]
<1>1. \A c \in C : c[2] < hi /\ c[2] \in Nat /\ c = <<b, c[2]>> /\ hi \in Nat
  BY TilesBelow
<1>2. place \in Bijection(C, Begins(C))
  <2>1. place \in [C -> Begins(C)]
    BY DEF Begins
  <2>2. \A c, d \in C : place[c] = place[d] => c = d
    BY <1>1
  <2>3. \A p \in Begins(C) : \E c \in C : place[c] = p
    BY DEF Begins
  <2>4. QED
    BY <2>1, <2>2, <2>3 DEF Bijection, Injection, Surjection, IsInjective
<1>3. ExistsBijection(C, Begins(C))
  BY <1>2 DEF ExistsBijection
<1>4. hi \notin Begins(C)
  BY <1>1 DEF Begins
<1>5. QED
  BY <1>3, <1>4, FS_Bijection

(* A chunk begins where another ends: these are the same places.           *)
LEMMA TilesMeet ==
  ASSUME NEW b, NEW C, NEW E, NEW lo, NEW hi, Tiles(b, C, E, lo, hi)
  PROVE  Begins(C) \cup {hi} = {E[c] : c \in C} \cup {lo}
<1> DEFINE Finishes == {E[c] : c \in C}
<1>1. ASSUME NEW p \in Begins(C) \cup {hi} PROVE p \in Finishes \cup {lo}
  <2>1. CASE p = hi
    BY <2>1 DEF Tiles
  <2>2. CASE p # hi
    <3>1. PICK c \in C : p = c[2]
      BY <2>2 DEF Begins
    <3>2. QED
      BY <3>1 DEF Tiles
  <2>3. QED
    BY <2>1, <2>2
<1>2. ASSUME NEW p \in Finishes \cup {lo} PROVE p \in Begins(C) \cup {hi}
  <2>1. p = hi \/ (p \in Nat /\ <<b, p>> \in C)
    <3>1. CASE p = lo
      BY <3>1 DEF Tiles
    <3>2. CASE p # lo
      BY <3>2 DEF Tiles
    <3>3. QED
      BY <3>1, <3>2
  <2>2. QED
    BY <2>1, BeginsFacts
<1>3. QED
  BY <1>1, <1>2

(* So they fill their block, as the property counts them. *)
LEMMA FilledMeansTiled ==
  ASSUME AllocInv
  PROVE  ChunksTile
<1> SUFFICES ASSUME NEW b \in owned
             PROVE  LET In == {c \in Chunks : c[1] = b}
                        starts == {c[2] : c \in In} \cup {freeptr[b]}
                        ends == {ChunkEnd(c) : c \in In} \cup {ALLOC_BLOCKHDRSZ}
                    IN  /\ starts = ends
                        /\ Cardinality(starts) = Cardinality(In) + 1
                        /\ freeptr[b] <= endptr[b]
                        /\ \A c \in In : IsExternal(c) => In = {c} /\ freeptr[b] = endptr[b]
  BY DEF ChunksTile
<1> DEFINE In == InBlock(b)
           starts == {c[2] : c \in In} \cup {freeptr[b]}
           ends == {ChunkEnd(c) : c \in In} \cup {ALLOC_BLOCKHDRSZ}
<1>1. Tiles(b, In, Ends, ALLOC_BLOCKHDRSZ, freeptr[b]) /\ freeptr[b] <= endptr[b]
  BY DEF AllocInv, Filled
<1>2. \A c \in In : IsExternal(c) => In = {c} /\ freeptr[b] = endptr[b]
  BY DEF AllocInv, Filled, InBlock
<1>3. starts = Begins(In) \cup {freeptr[b]}
  BY DEF Begins
<1>4. \A c \in In : Ends[c] = ChunkEnd(c)
  BY DEF InBlock, Ends
<1>5. IsFiniteSet(In)
  <2>1. IsFiniteSet(Chunks) /\ In \in SUBSET Chunks
    BY DEF AllocInv, MemoryTypes, InBlock
  <2>2. QED
    BY <2>1, FS_Subset
<1> HIDE DEF In
<1>7. {ChunkEnd(c) : c \in In} = {Ends[c] : c \in In}
  BY <1>4
<1>8. Begins(In) \cup {freeptr[b]} = {Ends[c] : c \in In} \cup {ALLOC_BLOCKHDRSZ}
  BY <1>1, TilesMeet
<1>9. starts = ends
  BY <1>3, <1>7, <1>8
<1>10. Cardinality(starts) = Cardinality(In) + 1
  <2>1. IsFiniteSet(Begins(In)) /\ Cardinality(Begins(In)) = Cardinality(In) /\ freeptr[b] \notin Begins(In)
    BY <1>1, <1>5, BeginsCount
  <2>2. QED
    BY <1>3, <2>1, FS_AddElement
<1> HIDE DEF starts, ends
<1>11. QED
  BY <1>1, <1>2, <1>9, <1>10 DEF In, InBlock, starts, ends

(* The freelists, all of them. *)
LEMMA ThreadedMeansFreelistsSound ==
  ASSUME AllocInv
  PROVE  FreelistsSound
<1>1. \A i \in FreeIndexes : FreeChunks(i) = Unheld(i) /\ FreelistEnds(i)
  BY ThreadedMeansSound
<1>2. QED
  BY <1>1 DEF FreelistsSound, Unheld

--------------------------------------------------------------------------------
(* A block and its chunks. *)
LEMMA OwnedFacts ==
  ASSUME AllocInv, NEW b \in owned
  PROVE  /\ Tiles(b, InBlock(b), Ends, ALLOC_BLOCKHDRSZ, freeptr[b])
         /\ freeptr[b] \in Nat /\ endptr[b] \in Nat /\ ALLOC_BLOCKHDRSZ \in Nat
         /\ ALLOC_BLOCKHDRSZ <= freeptr[b] /\ freeptr[b] <= endptr[b]
         /\ InBlock(b) \subseteq Chunks /\ IsFiniteSet(InBlock(b))
<1>1. Tiles(b, InBlock(b), Ends, ALLOC_BLOCKHDRSZ, freeptr[b]) /\ freeptr[b] <= endptr[b]
  BY DEF AllocInv, Filled
<1>2. freeptr[b] \in Nat /\ endptr[b] \in Nat
  BY DEF AllocInv, MemoryTypes
<1>3. InBlock(b) \subseteq Chunks /\ IsFiniteSet(InBlock(b))
  BY FS_Subset DEF AllocInv, MemoryTypes, InBlock
<1>4. ALLOC_BLOCKHDRSZ \in Nat /\ ALLOC_BLOCKHDRSZ <= freeptr[b]
  BY <1>1 DEF Tiles
<1>5. QED
  BY <1>1, <1>2, <1>3, <1>4

(* The size that a header tells is the distance to the end of the chunk.   *)
LEMMA ChunkSizeIs ==
  ASSUME AllocInv, NEW c \in Chunks
  PROVE  /\ ChunkSize(c) \in Int /\ c[2] \in Nat /\ Ends[c] \in Nat
         /\ c[2] + ALLOC_CHUNKHDRSZ + ChunkSize(c) = Ends[c]
         /\ ChunkSize(c) + ALLOC_CHUNKHDRSZ = Ends[c] - c[2]
<1>1. c \in Address /\ c[1] \in Block /\ c[2] \in Nat /\ endptr[c[1]] \in Nat
  BY DEF AllocInv, MemoryTypes, Address
<1>2. Ends[c] = ChunkEnd(c)
  BY DEF Ends
<1>3. CASE IsExternal(c)
  BY <1>1, <1>2, <1>3 DEF ChunkEnd, ChunkSize, ALLOC_CHUNKHDRSZ
<1>4. CASE ~ IsExternal(c)
  <2>1. hdr[c] \in FreeIndexes
    BY <1>4 DEF AllocInv, MemoryTypes, IsExternal
  <2>2. ClassSize(hdr[c]) \in Nat /\ Footprint(hdr[c]) = ClassSize(hdr[c]) + 8
    BY <2>1, ClassFacts
  <2>3. QED
    BY <1>1, <1>2, <1>4, <2>2 DEF ChunkEnd, ChunkSize, ALLOC_CHUNKHDRSZ
<1>5. QED
  BY <1>3, <1>4

(* From each chunk of a block its header leads on to the next, and nowhere *)
(* from the end of the last.                                               *)
Beyond(b, p) == LET c == <<b, p>> IN
                IF c \in Chunks THEN c[2] + ALLOC_CHUNKHDRSZ + ChunkSize(c) ELSE c[2]

(* This is the list of the places where chunks begin. *)
LEMMA BeyondIs ==
  ASSUME AllocInv, NEW b \in owned, NEW p \in Begins(InBlock(b)) \cup {freeptr[b]}
  PROVE  Beyond(b, p) = IF p = freeptr[b] THEN freeptr[b]
                        ELSE Onward(b, InBlock(b), Ends)[p]
<1> DEFINE c == <<b, p>>
<1>1. \A q : q \in Begins(InBlock(b)) <=> q \in Nat /\ <<b, q>> \in InBlock(b)
  BY OwnedFacts, BeginsFacts
<1>2. freeptr[b] \notin Begins(InBlock(b)) /\ freeptr[b] \in Nat
  BY OwnedFacts, BeginsCount
<1>3. c[1] = b /\ c[2] = p /\ p \in Nat
  BY <1>1, <1>2
<1>4. c \in Chunks <=> c \in InBlock(b)
  BY <1>3 DEF InBlock
<1>5. CASE p = freeptr[b]
  <2>1. c \notin Chunks
    BY <1>1, <1>2, <1>4, <1>5
  <2>2. QED
    BY <1>3, <1>5, <2>1 DEF Beyond
<1>6. CASE p # freeptr[b]
  <2>1. c \in InBlock(b) /\ c \in Chunks
    BY <1>1, <1>4, <1>6
  <2>2. Onward(b, InBlock(b), Ends)[p] = Ends[c]
    BY <1>3, <2>1 DEF Onward
  <2> HIDE DEF c
  <2>3. c[2] + ALLOC_CHUNKHDRSZ + ChunkSize(c) = Ends[c]
    BY <2>1, ChunkSizeIs
  <2>4. Beyond(b, p) = Ends[c]
    BY <2>1, <2>3 DEF Beyond, c
  <2>5. QED
    BY <1>6, <2>2, <2>4
<1>7. QED
  BY <1>5, <1>6

(* So AllocSetCheck comes to the chunks of the block and to freeptr.       *)
LEMMA WalkedIs ==
  ASSUME AllocInv, NEW b \in owned
  PROVE  Walked(b) = Begins(InBlock(b)) \cup {freeptr[b]}
<1> DEFINE C == InBlock(b)
           F == Begins(C)
           f == Onward(b, C, Ends)
           lo == ALLOC_BLOCKHDRSZ
           hi == freeptr[b]
           Body(g, n) == IF n = 0 THEN lo ELSE Beyond(b, g[n - 1])
           bpoz == CHOOSE g : g = [n \in Nat |-> Body(g, n)]
           N == Cardinality({c \in Chunks : c[1] = b})
<1>1. Walked(b) = {bpoz[n] : n \in 0..N}
  BY DEF Walked, Beyond
<1>2. /\ ListOf(F, lo, f, hi) /\ IsFiniteSet(F) /\ Cardinality(F) = N /\ N \in Nat
  <2>1. Tiles(b, C, Ends, lo, hi) /\ IsFiniteSet(C)
    BY OwnedFacts
  <2>2. N = Cardinality(C)
    BY DEF InBlock
  <2> HIDE DEF C, N
  <2>3. QED
    BY <2>1, <2>2, TilesAreListed, BeginsCount, FS_CardinalityType
<1>3. \A p \in F \cup {hi} : Beyond(b, p) = IF p = hi THEN hi ELSE f[p]
  BY BeyondIs
<1>4. bpoz = CHOOSE g : g = [n \in Nat |-> Body(g, n)]
  OBVIOUS
<1> HIDE DEF F, f, lo, hi, N, bpoz
<1>5. Follow(F, lo, f, hi)
  BY <1>2 DEF ListOf
<1>6. \E g : g = [n \in Nat |-> Body(g, n)]
  <2>1. PICK g : g = [n \in Nat |-> IF n = 0 THEN lo ELSE IF g[n - 1] = hi THEN hi ELSE f[g[n - 1]]]
    BY <1>5, WalkExists
  <2>2. Walks(g, lo, f, hi)
    BY <2>1, WalkIsWalk
  <2>3. \A n \in Nat : g[n] \in F \cup {hi}
    BY <1>2, <2>2, ListWalk
  <2>4. \A n \in Nat : g[n] = Body(g, n)
    <3> SUFFICES ASSUME NEW n \in Nat PROVE g[n] = Body(g, n)
      OBVIOUS
    <3>1. g[n] = IF n = 0 THEN lo ELSE IF g[n - 1] = hi THEN hi ELSE f[g[n - 1]]
      BY <2>1
    <3>2. n # 0 => g[n - 1] \in F \cup {hi}
      BY <2>3
    <3>3. QED
      BY <1>3, <3>1, <3>2
  <2> HIDE DEF Body
  <2>5. g = [n \in Nat |-> Body(g, n)]
    <3>1. g = [n \in Nat |-> g[n]]
      BY <2>1
    <3>2. QED
      BY <2>4, <3>1
  <2>6. QED
    BY <2>5
<1> HIDE DEF Body
<1>7. bpoz = [n \in Nat |-> Body(bpoz, n)]
  BY <1>4, <1>6
<1>8. \A n \in Nat : bpoz[n] = Body(bpoz, n)
  BY <1>7
<1>9. bpoz[0] = lo /\ \A n \in Nat : bpoz[n + 1] = Beyond(b, bpoz[n])
  <2>1. bpoz[0] = lo
    BY <1>8 DEF Body
  <2>2. ASSUME NEW n \in Nat PROVE bpoz[n + 1] = Beyond(b, bpoz[n])
    <3>1. n + 1 \in Nat /\ n + 1 # 0 /\ (n + 1) - 1 = n
      OBVIOUS
    <3>2. bpoz[n + 1] = Body(bpoz, n + 1)
      BY <1>8, <3>1
    <3>3. QED
      BY <3>1, <3>2 DEF Body
  <2>3. QED
    BY <2>1, <2>2
<1>10. \A n \in Nat : bpoz[n] \in F \cup {hi}
  <2> DEFINE T == {n \in Nat : bpoz[n] \in F \cup {hi}}
  <2>1. 0 \in T
    BY <1>5, <1>9 DEF Follow
  <2>2. \A n \in Nat : n \in T => n + 1 \in T
    BY <1>3, <1>5, <1>9 DEF Follow
  <2> HIDE DEF T
  <2>3. \A n \in Nat : n \in T
    BY <2>1, <2>2, Ascend
  <2>4. QED
    BY <2>3 DEF T
<1>11. Walks(bpoz, lo, f, hi)
  BY <1>3, <1>9, <1>10 DEF Walks
<1>12. {bpoz[n] : n \in 0..N} \ {hi} = F /\ bpoz[N] = hi
  BY <1>2, <1>11, ListWalk
<1>13. hi \in {bpoz[n] : n \in 0..N}
  BY <1>2, <1>12
<1>14. Walked(b) = F \cup {hi}
  BY <1>1, <1>12, <1>13
<1>15. QED
  BY <1>14 DEF F, hi

(* A block, reached from the one before it, gives no cause for a warning. *)
LEMMA BlocksPass ==
  ASSUME AllocInv, NEW b \in owned, NEW p, prev[b] = p
  PROVE  BlockPasses(b, p)
<1> DEFINE F == Begins(InBlock(b))
           found == {q \in Walked(b) : q < freeptr[b]}
<1>1. /\ Tiles(b, InBlock(b), Ends, ALLOC_BLOCKHDRSZ, freeptr[b])
      /\ freeptr[b] \in Nat /\ ALLOC_BLOCKHDRSZ <= freeptr[b] /\ freeptr[b] <= endptr[b]
  BY OwnedFacts
<1>2. Walked(b) = F \cup {freeptr[b]}
  BY WalkedIs
<1>3. \A q \in F : q \in Nat /\ <<b, q>> \in InBlock(b) /\ <<b, q>> \in Chunks /\ q < freeptr[b]
  <2> SUFFICES ASSUME NEW q \in F
               PROVE  q \in Nat /\ <<b, q>> \in InBlock(b) /\ <<b, q>> \in Chunks /\ q < freeptr[b]
    OBVIOUS
  <2>1. q \in Nat /\ <<b, q>> \in InBlock(b)
    BY <1>1, BeginsFacts
  <2>2. <<b, q>> \in Chunks
    BY <2>1 DEF InBlock
  <2>3. <<b, q>>[2] = q /\ <<b, q>>[2] < freeptr[b]
    BY <1>1, <2>1, TilesBelow
  <2>4. QED
    BY <2>1, <2>2, <2>3
<1> HIDE DEF F
<1>4. found = F
  <2>1. \A q \in F : q < freeptr[b]
    BY <1>3
  <2>2. ~ (freeptr[b] < freeptr[b])
    BY <1>1
  <2>3. QED
    BY <1>2, <2>1, <2>2
<1>5. freeptr[b] = ALLOC_BLOCKHDRSZ => b = Keeper
  BY DEF AllocInv, Filled
<1>6. ASSUME NEW q \in F
      PROVE  /\ <<b, q>> \in Chunks
             /\ IF IsExternal(<<b, q>>)
                THEN /\ ChunkSize(<<b, q>>) + ALLOC_CHUNKHDRSZ = freeptr[b] - ALLOC_BLOCKHDRSZ
                     /\ F = {q}
                ELSE hdr[<<b, q>>] \in FreeIndexes
  <2> DEFINE c == <<b, q>>
  <2>1. c \in Chunks /\ c \in InBlock(b) /\ c[1] = b /\ c[2] = q
    BY <1>3
  <2> HIDE DEF c
  <2>2. CASE IsExternal(c)
    <3>1. InBlock(b) = {c} /\ freeptr[b] = endptr[b]
      BY <2>1, <2>2 DEF AllocInv, Filled
    <3>2. F = {q}
      BY <2>1, <3>1 DEF F, Begins
    <3>3. q = ALLOC_BLOCKHDRSZ
      <4>1. \A d \in InBlock(b) : Ends[d] # c[2]
        BY <1>1, <2>1, <3>1, TilesBelow
      <4>2. QED
        BY <1>1, <2>1, <4>1 DEF Tiles
    <3>4. Ends[c] = freeptr[b]
      BY <2>1, <2>2, <3>1 DEF Ends, ChunkEnd
    <3>5. ChunkSize(c) + ALLOC_CHUNKHDRSZ = freeptr[b] - ALLOC_BLOCKHDRSZ
      BY <2>1, <3>3, <3>4, ChunkSizeIs
    <3>6. QED
      BY <2>1, <2>2, <3>2, <3>5 DEF c
  <2>3. CASE ~ IsExternal(c)
    <3>1. hdr[c] \in FreeIndexes
      BY <2>1, <2>3 DEF AllocInv, MemoryTypes, IsExternal
    <3>2. QED
      BY <2>1, <2>3, <3>1 DEF c
  <2>4. QED
    BY <2>2, <2>3
<1>7. freeptr[b] \in Walked(b)
  BY <1>2
<1>8. \A q \in found :
        /\ <<b, q>> \in Chunks
        /\ IF IsExternal(<<b, q>>)
           THEN /\ ChunkSize(<<b, q>>) + ALLOC_CHUNKHDRSZ = freeptr[b] - ALLOC_BLOCKHDRSZ
                /\ found = {q}
           ELSE hdr[<<b, q>>] \in FreeIndexes
  BY <1>4, <1>6
<1>9. QED
  BY <1>1, <1>5, <1>7, <1>8 DEF BlockPasses

(* None of the listed blocks does, and the total is right. *)
LEMMA InvMeansCheckPasses ==
  ASSUME AllocInv
  PROVE  CheckPasses
<1>1. Walks(Nth, blocks, next, NULL) /\ Listed = owned
  BY ListedIsOwned
<1>2. \A n \in Nat : Nth[n] \in owned \cup {NULL}
  BY <1>1, BlockFacts, ListWalk
<1>3. prev[blocks] = NULL /\ \A a, b \in owned : next[a] = b <=> prev[b] = a
  BY DEF AllocInv, Linked
<1>4. ASSUME NEW n \in Nat, Nth[n] # NULL
      PROVE  BlockPasses(Nth[n], IF n = 0 THEN NULL ELSE Nth[n - 1])
  <2>1. Nth[n] \in owned
    BY <1>2, <1>4
  <2>2. prev[Nth[n]] = IF n = 0 THEN NULL ELSE Nth[n - 1]
    <3>1. CASE n = 0
      BY <1>1, <1>3, <3>1 DEF Walks
    <3>2. CASE n # 0
      <4>1. n - 1 \in Nat /\ (n - 1) + 1 = n
        BY <3>2
      <4>2. Nth[n] = IF Nth[n - 1] = NULL THEN NULL ELSE next[Nth[n - 1]]
        BY <1>1, <4>1 DEF Walks
      <4>3. Nth[n - 1] \in owned /\ next[Nth[n - 1]] = Nth[n]
        BY <1>2, <1>4, <4>1, <4>2
      <4>4. QED
        BY <1>3, <2>1, <3>2, <4>3
    <3>3. QED
      BY <3>1, <3>2
  <2>3. QED
    BY <2>1, <2>2, BlocksPass
<1>5. \A n \in 0..Cardinality(Block) : n \in Nat
  BY AllocSetAssumption, FS_CardinalityType
<1>6. ALLOC_CONTEXTSZ + SumFunctionOnSet(endptr, Listed) = memAllocated
  BY <1>1, BlockFacts
<1>7. QED
  BY <1>4, <1>5, <1>6 DEF CheckPasses, AllocSetCheck

--------------------------------------------------------------------------------
(* The sizes of the chunks of a block add up to the space they fill.       *)
LEMMA TilesSum ==
  ASSUME NEW b, NEW C, NEW E, NEW lo, NEW hi, Tiles(b, C, E, lo, hi), IsFiniteSet(C),
         NEW g, \A c \in C : g[c] = E[c] - c[2]
  PROVE  SumFunctionOnSet(g, C) = hi - lo
<1> DEFINE begin == [c \in C |-> c[2]]
           Finishes == {E[c] : c \in C}
<1>1. lo \in Nat /\ hi \in Nat
  BY DEF Tiles
<1>2. \A c \in C : /\ begin[c] = c[2] /\ c[2] \in Nat /\ E[c] \in Nat
                   /\ lo < E[c] /\ c = <<b, c[2]>>
  BY <1>1, TilesBelow
<1>3. \A c, d \in C : E[c] = E[d] => c = d
  BY DEF Tiles
<1>4. SumFunctionOnSet(Itself, Finishes) = SumFunctionOnSet(E, C)
  BY <1>2, <1>3, SumOfValues
<1>5. SumFunctionOnSet(Itself, Begins(C)) = SumFunctionOnSet(begin, C)
  <2>1. \A c \in C : begin[c] \in Nat
    BY <1>2
  <2>2. \A c, d \in C : begin[c] = begin[d] => c = d
    BY <1>2
  <2>3. Begins(C) = {begin[c] : c \in C}
    BY <1>2 DEF Begins
  <2> HIDE DEF begin
  <2>4. QED
    BY <2>1, <2>2, <2>3, SumOfValues
<1>6. Numbers(E, C) /\ Numbers(begin, C)
  BY <1>2 DEF Numbers
<1>7. \A c \in C : g[c] = E[c] - begin[c]
  BY <1>2
<1>8. lo \notin Finishes /\ Numbers(Itself, Finishes) /\ Numbers(Itself, Begins(C))
  <2>1. \A x \in Finishes : x \in Nat /\ x # lo
    BY <1>1, <1>2
  <2>2. \A x \in Begins(C) : x \in Nat
    BY <1>2 DEF Begins
  <2>3. QED
    BY <2>1, <2>2 DEF Numbers, Itself
<1>9. Begins(C) \cup {hi} = Finishes \cup {lo} /\ hi \notin Begins(C) /\ IsFiniteSet(Begins(C))
  BY TilesMeet, BeginsCount
<1> HIDE DEF begin, Finishes
<1>10. IsFiniteSet(Finishes)
  <2>1. IsFiniteSet(Begins(C) \cup {hi}) /\ Finishes \in SUBSET (Begins(C) \cup {hi})
    BY <1>9, FS_AddElement
  <2>2. QED
    BY <2>1, FS_Subset
<1>11. SumFunctionOnSet(g, C) = SumFunctionOnSet(E, C) - SumFunctionOnSet(begin, C)
  BY <1>6, <1>7, SumOfDifferences
<1>12. SumFunctionOnSet(E, C) \in Int /\ SumFunctionOnSet(begin, C) \in Int
  BY <1>6, SumType
<1>13. Itself[hi] = hi /\ Itself[lo] = lo /\ Itself[hi] \in Int /\ Itself[lo] \in Int
  BY <1>1 DEF Itself
<1>14. SumFunctionOnSet(Itself, Begins(C) \cup {hi}) = hi + SumFunctionOnSet(begin, C)
  <2>1. SumFunctionOnSet(Itself, Begins(C) \cup {hi}) = Itself[hi] + SumFunctionOnSet(Itself, Begins(C))
    BY <1>8, <1>9, <1>13, SumWith
  <2>2. QED
    BY <1>5, <1>13, <2>1
<1>15. SumFunctionOnSet(Itself, Finishes \cup {lo}) = lo + SumFunctionOnSet(E, C)
  <2>1. SumFunctionOnSet(Itself, Finishes \cup {lo}) = Itself[lo] + SumFunctionOnSet(Itself, Finishes)
    BY <1>8, <1>10, <1>13, SumWith
  <2>2. QED
    BY <1>4, <1>13, <2>1
<1>16. hi + SumFunctionOnSet(begin, C) = lo + SumFunctionOnSet(E, C)
  BY <1>9, <1>14, <1>15
<1>17. QED
  BY <1>1, <1>11, <1>12, <1>16

--------------------------------------------------------------------------------
(* The memory of a chunk, with its header. *)
Weight == [c \in Chunks |-> ChunkSize(c) + ALLOC_CHUNKHDRSZ]

(* It is an integer, and there are finitely many chunks. *)
LEMMA WeightFacts ==
  ASSUME AllocInv
  PROVE  /\ \A c \in Chunks : Weight[c] = Ends[c] - c[2] /\ Weight[c] \in Int
         /\ \A C \in SUBSET Chunks : IsFiniteSet(C) /\ Numbers(Weight, C)
<1>1. \A c \in Chunks : Weight[c] = Ends[c] - c[2] /\ Weight[c] \in Int
  <2> SUFFICES ASSUME NEW c \in Chunks PROVE Weight[c] = Ends[c] - c[2] /\ Weight[c] \in Int
    OBVIOUS
  <2>1. Weight[c] = ChunkSize(c) + ALLOC_CHUNKHDRSZ
    BY DEF Weight
  <2>2. QED
    BY <2>1, ChunkSizeIs
<1>2. ASSUME NEW C \in SUBSET Chunks PROVE IsFiniteSet(C) /\ Numbers(Weight, C)
  BY <1>1, FS_Subset DEF Numbers, AllocInv, MemoryTypes
<1>3. QED
  BY <1>1, <1>2

(* The chunks of a block. *)
LEMMA BlockWeight ==
  ASSUME AllocInv, NEW b \in owned
  PROVE  SumFunctionOnSet(Weight, InBlock(b)) = freeptr[b] - ALLOC_BLOCKHDRSZ
<1>1. /\ Tiles(b, InBlock(b), Ends, ALLOC_BLOCKHDRSZ, freeptr[b])
      /\ InBlock(b) \subseteq Chunks /\ IsFiniteSet(InBlock(b))
  BY OwnedFacts
<1>2. \A c \in InBlock(b) : Weight[c] = Ends[c] - c[2]
  BY <1>1, WeightFacts
<1>3. QED
  BY <1>1, <1>2, TilesSum

(* What the blocks have is header, chunks and room. *)
LEMMA BlocksAddUp ==
  ASSUME AllocInv, NEW room, room = [b \in Block |-> Room(b)]
  PROVE  /\ SumFunctionOnSet(endptr, owned) = SumFunctionOnSet(room, owned)
              + ALLOC_BLOCKHDRSZ * Cardinality(owned) + SumFunctionOnSet(Weight, Chunks)
         /\ SumFunctionOnSet(room, owned) \in Int /\ Cardinality(owned) \in Nat
<1> DEFINE Within(B) == {c \in Chunks : c[1] \in B}
           Q == {B \in SUBSET owned :
                   SumFunctionOnSet(endptr, B) = SumFunctionOnSet(room, B)
                     + ALLOC_BLOCKHDRSZ * Cardinality(B) + SumFunctionOnSet(Weight, Within(B))}
<1>1. /\ \A b \in owned : /\ room[b] = endptr[b] - freeptr[b]
                          /\ endptr[b] \in Nat /\ freeptr[b] \in Nat /\ room[b] \in Int
      /\ owned \subseteq Block /\ IsFiniteSet(owned)
  <2>1. owned \subseteq Block /\ IsFiniteSet(owned)
    BY BlockFacts
  <2>2. QED
    BY <2>1, OwnedFacts DEF Room
<1>2. {} \in Q
  <2>1. Within({}) = {} /\ Cardinality({}) = 0
    BY FS_EmptySet
  <2>2. /\ SumFunctionOnSet(endptr, {}) = 0 /\ SumFunctionOnSet(room, {}) = 0
        /\ SumFunctionOnSet(Weight, {}) = 0
    BY SumOfNone
  <2> HIDE DEF Within
  <2>3. QED
    BY <2>1, <2>2 DEF ALLOC_BLOCKHDRSZ
<1>3. ASSUME NEW B \in SUBSET owned, NEW b \in owned, B \in Q, b \notin B
      PROVE  B \cup {b} \in Q
  <2>1. IsFiniteSet(B) /\ Numbers(endptr, B) /\ Numbers(room, B)
    BY <1>1, FS_Subset DEF Numbers
  <2>2. /\ endptr[b] \in Int /\ room[b] \in Int /\ freeptr[b] \in Int
        /\ room[b] = endptr[b] - freeptr[b]
    BY <1>1
  <2>3. /\ SumFunctionOnSet(endptr, B \cup {b}) = endptr[b] + SumFunctionOnSet(endptr, B)
        /\ SumFunctionOnSet(room, B \cup {b}) = room[b] + SumFunctionOnSet(room, B)
    BY <1>3, <2>1, <2>2, SumWith
  <2>4. Cardinality(B) \in Nat /\ Cardinality(B \cup {b}) = Cardinality(B) + 1
    BY <1>3, <2>1, FS_CardinalityType, FS_AddElement
  <2>5. /\ Within(B \cup {b}) = Within(B) \cup InBlock(b) /\ Within(B) \cap InBlock(b) = {}
        /\ Within(B) \in SUBSET Chunks /\ InBlock(b) \in SUBSET Chunks
    BY <1>3 DEF InBlock
  <2> HIDE DEF Within
  <2>6. /\ IsFiniteSet(Within(B)) /\ Numbers(Weight, Within(B)) /\ IsFiniteSet(InBlock(b))
        /\ Numbers(Weight, Within(B) \cup InBlock(b))
    BY <2>5, WeightFacts DEF Numbers
  <2>7. SumFunctionOnSet(Weight, Within(B \cup {b})) =
          SumFunctionOnSet(Weight, Within(B)) + (freeptr[b] - ALLOC_BLOCKHDRSZ)
    <3>1. SumFunctionOnSet(Weight, Within(B) \cup InBlock(b)) =
            SumFunctionOnSet(Weight, Within(B)) + SumFunctionOnSet(Weight, InBlock(b))
      BY <2>5, <2>6, SumOfParts
    <3>2. QED
      BY <2>5, <3>1, BlockWeight
  <2>8. /\ SumFunctionOnSet(endptr, B) \in Int /\ SumFunctionOnSet(room, B) \in Int
        /\ SumFunctionOnSet(Weight, Within(B)) \in Int
    BY <2>1, <2>6, SumType
  <2>9. SumFunctionOnSet(endptr, B) = SumFunctionOnSet(room, B)
          + ALLOC_BLOCKHDRSZ * Cardinality(B) + SumFunctionOnSet(Weight, Within(B))
    BY <1>3
  <2>10. SumFunctionOnSet(endptr, B \cup {b}) = SumFunctionOnSet(room, B \cup {b})
           + ALLOC_BLOCKHDRSZ * Cardinality(B \cup {b}) + SumFunctionOnSet(Weight, Within(B \cup {b}))
    BY <2>2, <2>3, <2>4, <2>7, <2>8, <2>9 DEF ALLOC_BLOCKHDRSZ
  <2>11. QED
    BY <2>10
<1>4. Within(owned) = Chunks
  BY DEF AllocInv, Filled
<1> HIDE DEF Q, Within
<1>5. Grows(Q, owned)
  BY <1>2, <1>3 DEF Grows
<1>6. owned \in Q
  BY <1>1, <1>5, FiniteAscend
<1>7. SumFunctionOnSet(room, owned) \in Int /\ Cardinality(owned) \in Nat
  BY <1>1, SumType, FS_CardinalityType DEF Numbers
<1>8. QED
  BY <1>4, <1>6, <1>7 DEF Q

(* What is on the freelists is the chunks that nobody holds.               *)
LEMMA FreelistsAddUp ==
  ASSUME AllocInv, NEW space, space = [i \in FreeIndexes |-> FreeChunkSpace(i)]
  PROVE  SumFunctionOnSet(space, FreeIndexes) = SumFunctionOnSet(Weight, Chunks \ Held)
<1> DEFINE Of(J) == {c \in Chunks \ Held : hdr[c] \in J}
           Q == {J \in SUBSET FreeIndexes :
                   SumFunctionOnSet(space, J) = SumFunctionOnSet(Weight, Of(J))}
<1>1. ASSUME NEW i \in FreeIndexes
      PROVE  /\ space[i] = SumFunctionOnSet(Weight, Unheld(i)) /\ space[i] \in Int
             /\ Unheld(i) \in SUBSET Chunks
  <2>1. Unheld(i) \in SUBSET Chunks /\ IsFiniteSet(Unheld(i)) /\ Numbers(Weight, Unheld(i))
    BY WeightFacts DEF Unheld
  <2>2. \A c \in Unheld(i) : Weight[c] = Footprint(i)
    <3> SUFFICES ASSUME NEW c \in Unheld(i) PROVE Weight[c] = Footprint(i)
      OBVIOUS
    <3>1. c \in Chunks /\ hdr[c] = i
      BY DEF Unheld
    <3>2. ~ IsExternal(c)
      BY <3>1, ClassFacts DEF IsExternal
    <3>3. QED
      BY <3>1, <3>2 DEF Weight, ChunkSize, Footprint
  <2>3. Footprint(i) \in Int
    BY ClassFacts
  <2>4. SumFunctionOnSet(Weight, Unheld(i)) = Footprint(i) * Cardinality(Unheld(i))
    BY <2>1, <2>2, <2>3, SumOfEquals
  <2>5. space[i] = Footprint(i) * Cardinality(Unheld(i))
    BY ThreadedMeansSound DEF FreeChunkSpace
  <2>6. SumFunctionOnSet(Weight, Unheld(i)) \in Int
    BY <2>1, SumType
  <2>7. QED
    BY <2>1, <2>4, <2>5, <2>6
<1>2. {} \in Q
  <2>1. Of({}) = {}
    OBVIOUS
  <2>2. SumFunctionOnSet(space, {}) = 0 /\ SumFunctionOnSet(Weight, {}) = 0
    BY SumOfNone
  <2> HIDE DEF Of
  <2>3. QED
    BY <2>1, <2>2
<1>3. IsFiniteSet(FreeIndexes)
  <2>1. FreeIndexes = 0..10
    BY DEF FreeIndexes, ALLOCSET_NUM_FREELISTS
  <2>2. 0 \in Int /\ 10 \in Int
    OBVIOUS
  <2>3. IsFiniteSet(0..10)
    BY <2>2, FS_Interval, Zenon
  <2>4. QED
    BY <2>1, <2>3
<1>4. ASSUME NEW J \in SUBSET FreeIndexes, NEW i \in FreeIndexes, J \in Q, i \notin J
      PROVE  J \cup {i} \in Q
  <2>1. /\ Of(J \cup {i}) = Of(J) \cup Unheld(i) /\ Of(J) \cap Unheld(i) = {}
        /\ Of(J) \in SUBSET Chunks /\ Unheld(i) \in SUBSET Chunks
    BY <1>4 DEF Unheld
  <2> HIDE DEF Of
  <2>2. /\ IsFiniteSet(Of(J)) /\ IsFiniteSet(Unheld(i)) /\ Numbers(Weight, Of(J))
        /\ Numbers(Weight, Of(J) \cup Unheld(i))
    BY <2>1, WeightFacts DEF Numbers
  <2>3. SumFunctionOnSet(Weight, Of(J \cup {i})) =
          SumFunctionOnSet(Weight, Of(J)) + SumFunctionOnSet(Weight, Unheld(i))
    BY <2>1, <2>2, SumOfParts
  <2>4. IsFiniteSet(J) /\ Numbers(space, J) /\ space[i] \in Int
    BY <1>1, <1>3, FS_Subset DEF Numbers
  <2>5. SumFunctionOnSet(space, J \cup {i}) = space[i] + SumFunctionOnSet(space, J)
    BY <1>4, <2>4, SumWith
  <2>6. SumFunctionOnSet(space, J) = SumFunctionOnSet(Weight, Of(J))
    BY <1>4
  <2>7. SumFunctionOnSet(Weight, Of(J)) \in Int
    BY <2>2, SumType
  <2>8. SumFunctionOnSet(space, J \cup {i}) = SumFunctionOnSet(Weight, Of(J \cup {i}))
    BY <1>1, <2>3, <2>4, <2>5, <2>6, <2>7
  <2>9. QED
    BY <2>8
<1>5. Of(FreeIndexes) = Chunks \ Held
  <2>1. ASSUME NEW c \in Chunks \ Held PROVE hdr[c] \in FreeIndexes
    <3>1. hdr[c] # External
      BY DEF AllocInv, Filled, IsExternal
    <3>2. QED
      BY <3>1 DEF AllocInv, MemoryTypes
  <2>2. QED
    BY <2>1
<1> HIDE DEF Q, Of
<1>6. Grows(Q, FreeIndexes)
  BY <1>2, <1>4 DEF Grows
<1>7. FreeIndexes \in Q
  BY <1>3, <1>6, FiniteAscend
<1>8. QED
  BY <1>5, <1>7 DEF Q

(* Blocks and freelists put together. *)
LEMMA InvMeansStatsAddUp ==
  ASSUME AllocInv
  PROVE  StatsAddUp
<1> DEFINE room == [b \in Block |-> Room(b)]
           space == [i \in FreeIndexes |-> FreeChunkSpace(i)]
           load == [c \in Held |-> ChunkSize(c) + ALLOC_CHUNKHDRSZ]
           stats == AllocSetStats
           held == SumFunction(load)
           total == SumFunctionOnSet(endptr, owned)
           rooms == SumFunctionOnSet(room, owned)
           spaces == SumFunctionOnSet(space, FreeIndexes)
           unheld == SumFunctionOnSet(Weight, Chunks \ Held)
           all == SumFunctionOnSet(Weight, Chunks)
<1>1. Listed = owned /\ memAllocated = ALLOC_CONTEXTSZ + total
  BY ListedIsOwned, BlockFacts
<1>2. /\ stats.nblocks = Cardinality(owned) /\ stats.totalspace = ALLOC_CONTEXTSZ + total
      /\ stats.freespace = rooms + spaces
  BY <1>1 DEF AllocSetStats, SumFunction
<1>3. held = SumFunctionOnSet(Weight, Held)
  <2>1. Held \subseteq Chunks
    BY HeldFacts
  <2>2. IsFiniteSet(Held) /\ Numbers(Weight, Held) /\ Agree(load, Weight, Held)
    BY <2>1, WeightFacts DEF Agree, Weight
  <2>3. held = SumFunctionOnSet(load, Held)
    BY DEF SumFunction
  <2> HIDE DEF load, held
  <2>4. QED
    BY <2>2, <2>3, SumStays
<1>4. all = held + unheld /\ held \in Int /\ unheld \in Int
  <2>1. Held \subseteq Chunks /\ Held \cup (Chunks \ Held) = Chunks /\ Held \cap (Chunks \ Held) = {}
    BY HeldFacts
  <2>2. /\ IsFiniteSet(Held) /\ IsFiniteSet(Chunks \ Held)
        /\ Numbers(Weight, Held) /\ Numbers(Weight, Chunks \ Held) /\ Numbers(Weight, Chunks)
    BY <2>1, WeightFacts
  <2>3. all = SumFunctionOnSet(Weight, Held) + unheld
    BY <2>1, <2>2, SumOfParts
  <2>4. SumFunctionOnSet(Weight, Held) \in Int /\ unheld \in Int
    BY <2>2, SumType
  <2> HIDE DEF held, all, unheld
  <2>5. QED
    BY <1>3, <2>3, <2>4
<1>5. /\ total = rooms + ALLOC_BLOCKHDRSZ * Cardinality(owned) + all
      /\ rooms \in Int /\ Cardinality(owned) \in Nat
  BY BlocksAddUp
<1>6. spaces = unheld
  BY FreelistsAddUp
<1> HIDE DEF stats, held, total, rooms, spaces, unheld, all
<1>7. stats.totalspace = memAllocated
  BY <1>1, <1>2
<1>8. stats.totalspace - stats.freespace =
        ALLOC_CONTEXTSZ + stats.nblocks * ALLOC_BLOCKHDRSZ + held
  BY <1>2, <1>4, <1>5, <1>6 DEF ALLOC_BLOCKHDRSZ, ALLOC_CONTEXTSZ
<1>9. QED
  BY <1>7, <1>8 DEF StatsAddUp, stats, held, load

--------------------------------------------------------------------------------
(***************************************************************************)
(* The theorems.                                                           *)
(***************************************************************************)

(* Every variable has its type: no block is begun with a size above        *)
(* maxBlockSize, and what clients hold are chunks of the set.              *)
THEOREM SetIsTyped == Spec => []AllocSetTypeOK
<1>1. AllocInv => AllocSetTypeOK
  BY TypesMeanTypeOK
<1>2. QED
  BY <1>1, AllocInvHolds, PTL

(* The list of blocks holds what malloc gave, linked in both directions,   *)
(* and chunks are never cut from the block of an external chunk.           *)
THEOREM BlocksAreListed == Spec => []BlockListOK
<1>1. AllocInv => BlockListOK
  BY LinkedMeansListOK
<1>2. QED
  BY <1>1, AllocInvHolds, PTL

(* mem_allocated is the size of what the set has from malloc.              *)
THEOREM MemoryIsAccounted == Spec => []AccountingOK
<1>1. AllocInv => AccountingOK
  BY DEF AllocInv
<1>2. QED
  BY <1>1, AllocInvHolds, PTL

(* The chunks of a block fill it from its header to freeptr, without gap   *)
(* or overlap.                                                             *)
THEOREM ChunksFillBlocks == Spec => []ChunksTile
<1>1. AllocInv => ChunksTile
  BY FilledMeansTiled
<1>2. QED
  BY <1>1, AllocInvHolds, PTL

(* Each freelist holds the chunks of its class that nobody holds, and ends.*)
THEOREM FreelistsAreSound == Spec => []FreelistsSound
<1>1. AllocInv => FreelistsSound
  BY ThreadedMeansFreelistsSound
<1>2. QED
  BY <1>1, AllocInvHolds, PTL

(* What AllocSetStats counts on its walks adds up with what clients hold.  *)
THEOREM StatsAreExact == Spec => []StatsAddUp
<1>1. AllocInv => StatsAddUp
  BY InvMeansStatsAddUp
<1>2. QED
  BY <1>1, AllocInvHolds, PTL

(* AllocSetCheck never has a warning to give.                              *)
THEOREM CheckIsSilent == Spec => []CheckPasses
<1>1. AllocInv => CheckPasses
  BY InvMeansCheckPasses
<1>2. QED
  BY <1>1, AllocInvHolds, PTL

================================================================================
