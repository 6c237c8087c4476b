------------------------------ MODULE ChunkHeader ------------------------------
(***************************************************************************)
(* The header of a chunk (memutils_memorychunk.h): a word in which four    *)
(* fields share bits.  From the lowest bit: method id, external bit,       *)
(* value, block offset; the highest bit of the value is also the lowest of *)
(* the offset.  The code has 4, 1, 30 and 30 bits, which makes 64.         *)
(*                                                                         *)
(* A field of k bits at bit b is written here as a number below 2^k times  *)
(* 2^b.  What the code combines with | has no bit in common, so + does the *)
(* same: for value and offset because the offset is even.                  *)
(***************************************************************************)
EXTENDS Integers

CONSTANTS
  Methods,    \* 2^4: how many method ids the mask lets through
  ValueHalf,  \* 2^29: a value is less than twice this, and so is an offset
  Magic       \* MEMORYCHUNK_MAGIC without the low bits that it leaves free

ASSUME HeaderAssumption ==
  /\ Methods \in Nat \ {0}
  /\ ValueHalf \in Nat \ {0}
  /\ Magic \in 0..(2 * ValueHalf * ValueHalf - 1)

VARIABLES
  hdrmask,  \* the header of a chunk, which is used again and again
  stored    \* ghost: what was last stored in it

vars == <<hdrmask, stored>>

--------------------------------------------------------------------------------
ValueBase == 2 * Methods
Word == ValueBase * ValueHalf * (2 * ValueHalf)

BlockOffsetBaseUnshared ==   \* mutant: 30 bits above the value, which makes 65
  ValueBase * (2 * ValueHalf)

BlockOffsetBase == ValueBase * ValueHalf

(* What MemoryChunkSetHdrMask may be given: chunk and block are MAXALIGNed. *)
MethodIDs == 0..(Methods - 1)
Values == 0..(2 * ValueHalf - 1)
BlockOffsets == {2 * k : k \in 0..(ValueHalf - 1)}

HdrMask(offset, value, methodid) ==
  offset * BlockOffsetBase + value * ValueBase + methodid

HdrMaskExternal(methodid) == Magic * ValueBase + Methods + methodid

GetMethodID(h) == h % Methods

HdrMaskIsExternal(h) == (h \div Methods) % 2 = 1

HdrMaskCheckMagic(h) == h \div ValueBase = Magic

HdrMaskGetValue(h) == (h \div ValueBase) % (2 * ValueHalf)

BlockOffsetUnmasked(h) ==   \* mutant: with the bit that belongs to the value
  (h \div BlockOffsetBase) % (2 * ValueHalf)

(* MEMORYCHUNK_BLOCKOFFSET_MASK keeps all bits of an offset but the lowest. *)
HdrMaskBlockOffset(h) ==
  LET bits == (h \div BlockOffsetBase) % (2 * ValueHalf) IN bits - (bits % 2)

--------------------------------------------------------------------------------
External(methodid) ==
  [external |-> TRUE, methodid |-> methodid, value |-> 0, offset |-> 0]

Ordinary(offset, value, methodid) ==
  [external |-> FALSE, methodid |-> methodid, value |-> value, offset |-> offset]

(* A chunk gets its first header when it is cut from a block, or gets a    *)
(* block of its own.                                                       *)
Init ==
  \/ \E offset \in BlockOffsets, value \in Values, methodid \in MethodIDs :
       /\ hdrmask = HdrMask(offset, value, methodid)
       /\ stored = Ordinary(offset, value, methodid)
  \/ \E methodid \in MethodIDs :
       /\ hdrmask = HdrMaskExternal(methodid)
       /\ stored = External(methodid)

SetHdrMask(offset, value, methodid) ==
  /\ hdrmask' = HdrMask(offset, value, methodid)
  /\ stored' = Ordinary(offset, value, methodid)

SetHdrMaskExternal(methodid) ==
  /\ hdrmask' = HdrMaskExternal(methodid)
  /\ stored' = External(methodid)

Next ==
  \/ \E offset \in BlockOffsets, value \in Values, methodid \in MethodIDs :
       SetHdrMask(offset, value, methodid)
  \/ \E methodid \in MethodIDs : SetHdrMaskExternal(methodid)

Spec == Init /\ [][Next]_vars

--------------------------------------------------------------------------------
(* A header fits in its word: nothing is shifted out at the top. *)
HeaderFits == hdrmask \in 0..(Word - 1)

(***************************************************************************)
(* What was stored is read back: the method id, by which pfree and         *)
(* repalloc choose the function; whether the chunk is external; and then   *)
(* the magic number, or else the value and the offset, although these      *)
(* share a bit.                                                            *)
(***************************************************************************)
HeaderReadsBack ==
  /\ GetMethodID(hdrmask) = stored.methodid
  /\ HdrMaskIsExternal(hdrmask) <=> stored.external
  /\ stored.external => HdrMaskCheckMagic(hdrmask)
  /\ ~stored.external =>
       /\ HdrMaskGetValue(hdrmask) = stored.value
       /\ HdrMaskBlockOffset(hdrmask) = stored.offset

================================================================================
