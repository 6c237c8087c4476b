--------------------------- MODULE ChunkHeaderProofs ---------------------------
(***************************************************************************)
(* Chunk headers are read back as they were written, whatever the widths   *)
(* of the fields.  A header is a number a * n + b with b < n at every      *)
(* border n between two fields, so each field is a quotient or a remainder *)
(* that DivMod computes; the field that the border cuts is split first.    *)
(***************************************************************************)
EXTENDS ChunkHeader, TLAPS

(* A number has one quotient and one remainder.                            *)
LEMMA QuotientUnique ==
  ASSUME NEW n \in Nat \ {0}, NEW a \in Int, NEW b \in 0..(n - 1), NEW q \in Int,
         NEW r \in 0..(n - 1), a * n + b = q * n + r
  PROVE  a = q /\ b = r
<1>1. ASSUME a >= q + 1 PROVE FALSE
  <2>1. PICK d \in Nat : a = q + 1 + d
    <3>1. a - q - 1 \in Nat  BY <1>1
    <3> QED  BY <3>1
  <2>2. a * n = q * n + n + d * n  BY <2>1
  <2>3. d * n >= 0  BY <2>1
  <2> DEFINE an == a * n  qn == q * n  dn == d * n
  <2>4. an \in Int /\ qn \in Int /\ dn \in Int  BY <2>1
  <2>5. an = qn + n + dn /\ dn >= 0 /\ an + b = qn + r  BY <2>2, <2>3
  <2> HIDE DEF an, qn, dn
  <2> QED  BY <2>4, <2>5
<1>2. ASSUME q >= a + 1 PROVE FALSE
  <2>1. PICK d \in Nat : q = a + 1 + d
    <3>1. q - a - 1 \in Nat  BY <1>2
    <3> QED  BY <3>1
  <2>2. q * n = a * n + n + d * n  BY <2>1
  <2>3. d * n >= 0  BY <2>1
  <2> DEFINE an == a * n  qn == q * n  dn == d * n
  <2>4. an \in Int /\ qn \in Int /\ dn \in Int  BY <2>1
  <2>5. qn = an + n + dn /\ dn >= 0 /\ an + b = qn + r  BY <2>2, <2>3
  <2> HIDE DEF an, qn, dn
  <2> QED  BY <2>4, <2>5
<1>3. a = q  BY <1>1, <1>2
<1> QED  BY <1>3

(* What a header field reads as: the quotient or remainder it was made of. *)
LEMMA DivMod ==
  ASSUME NEW n \in Nat \ {0}, NEW a \in Int, NEW b \in 0..(n - 1)
  PROVE  (a * n + b) \div n = a /\ (a * n + b) % n = b
<1> DEFINE x == a * n + b  q == x \div n  r == x % n
<1>1. x \in Int  OBVIOUS
<1> HIDE DEF x
<1>2. q \in Int /\ r \in 0..(n - 1) /\ x = n * q + r  BY <1>1
<1> HIDE DEF q, r
<1>3. n * q = q * n  BY <1>2
<1>4. a * n + b = q * n + r  BY <1>2, <1>3 DEF x
<1>5. a = q /\ b = r  BY <1>2, <1>4, QuotientUnique
<1> QED  BY <1>5 DEF q, r, x


(***************************************************************************)
(* A header that MemoryChunkSetHdrMask wrote, as seen from the bottom of   *)
(* the word: the value with the offset above it stands at the value's bit. *)
(***************************************************************************)
LEMMA LowFields ==
  ASSUME NEW k \in 0..(ValueHalf - 1), NEW v \in Values, NEW m \in MethodIDs
  PROVE  LET h == HdrMask(2 * k, v, m) IN
         /\ h \in Nat
         /\ GetMethodID(h) = m
         /\ ~HdrMaskIsExternal(h)
         /\ HdrMaskGetValue(h) = v
<1> USE HeaderAssumption
<1> DEFINE h == HdrMask(2 * k, v, m)  w == k * (2 * ValueHalf) + v
<1>1. w \in Nat /\ m \in 0..(Methods - 1) /\ v \in 0..(2 * ValueHalf - 1)
  BY DEF Values, MethodIDs
<1>2. h = w * ValueBase + m
  <2>1. h = (2 * k) * (2 * Methods * ValueHalf) + v * (2 * Methods) + m
    BY DEF HdrMask, ValueBase, BlockOffsetBase
  <2>2. w * (2 * Methods) = (k * (2 * ValueHalf)) * (2 * Methods) + v * (2 * Methods)
    BY <1>1
  <2>3. (k * (2 * ValueHalf)) * (2 * Methods) = (2 * k) * (2 * Methods * ValueHalf)
    OBVIOUS
  <2> QED  BY <2>1, <2>2, <2>3 DEF ValueBase
<1>3. w % (2 * ValueHalf) = v
  <2> DEFINE n == 2 * ValueHalf
  <2>1. n \in Nat \ {0} /\ k \in Int /\ v \in 0..(n - 1)  BY <1>1
  <2> HIDE DEF n
  <2>2. (k * n + v) % n = v  BY <2>1, DivMod
  <2> QED  BY <2>2 DEF n
<1> HIDE DEF w, h
<1>4. h = (2 * w) * Methods + m
  <2>1. w * (2 * Methods) = (2 * w) * Methods  BY <1>1
  <2> QED  BY <1>2, <2>1 DEF ValueBase
<1>5. h \div Methods = 2 * w /\ h % Methods = m
  BY <1>1, <1>4, DivMod, 2 * w \in Int
<1>6. (2 * w) % 2 = 0
  BY <1>1
<1>7. h \div ValueBase = w
  <2>1. m \in 0..(ValueBase - 1) /\ ValueBase \in Nat \ {0}  BY <1>1 DEF ValueBase
  <2> QED  BY <1>1, <1>2, <2>1, DivMod
<1>8. h \in Nat
  <2>1. w * ValueBase \in Nat  BY <1>1 DEF ValueBase
  <2> QED  BY <1>1, <1>2, <2>1
<1>9. GetMethodID(h) = m  BY <1>5 DEF GetMethodID
<1>10. ~HdrMaskIsExternal(h)  BY <1>5, <1>6 DEF HdrMaskIsExternal
<1>11. HdrMaskGetValue(h) = v  BY <1>3, <1>7 DEF HdrMaskGetValue
<1> QED  BY <1>8, <1>9, <1>10, <1>11 DEF h

(***************************************************************************)
(* As seen from the top: the offset, whose lowest bit the highest of the   *)
(* value has taken.                                                        *)
(***************************************************************************)
LEMMA HighField ==
  ASSUME NEW k \in 0..(ValueHalf - 1), NEW v \in Values, NEW m \in MethodIDs
  PROVE  LET h == HdrMask(2 * k, v, m) IN
         /\ HdrMaskBlockOffset(h) = 2 * k
         /\ h < Word
<1> USE HeaderAssumption
<1> DEFINE h == HdrMask(2 * k, v, m)
<1>1. PICK t \in 0..1, low \in 0..(ValueHalf - 1) : v = t * ValueHalf + low
  <2>1. v \in 0..(2 * ValueHalf - 1)  BY DEF Values
  <2>2. CASE v < ValueHalf
    <3>1. v \in 0..(ValueHalf - 1) /\ v = 0 * ValueHalf + v  BY <2>1, <2>2
    <3> QED  BY <3>1
  <2>3. CASE v >= ValueHalf
    <3>1. v - ValueHalf \in 0..(ValueHalf - 1)  BY <2>1, <2>3
    <3>2. v = 1 * ValueHalf + (v - ValueHalf)  BY <2>1
    <3> WITNESS 1 \in 0..1, v - ValueHalf \in 0..(ValueHalf - 1)
    <3> QED  BY <3>2
  <2> QED  BY <2>1, <2>2, <2>3
<1> DEFINE top == 2 * k + t  rest == low * ValueBase + m
<1>2. m \in 0..(ValueBase - 1) /\ ValueBase \in Nat \ {0}  BY DEF MethodIDs, ValueBase
<1>3. h = top * BlockOffsetBase + rest
  <2>1. v * ValueBase = t * (ValueBase * ValueHalf) + low * ValueBase
    <3>1. v * ValueBase = (t * ValueHalf) * ValueBase + low * ValueBase  BY <1>1, <1>2
    <3>2. (t * ValueHalf) * ValueBase = t * (ValueBase * ValueHalf)  BY <1>1, <1>2
    <3> QED  BY <3>1, <3>2
  <2>2. top * BlockOffsetBase = (2 * k) * BlockOffsetBase + t * BlockOffsetBase
    BY <1>1, <1>2 DEF BlockOffsetBase
  <2>3. h = (2 * k) * BlockOffsetBase + v * ValueBase + m  BY DEF HdrMask
  <2> DEFINE A == (2 * k) * BlockOffsetBase  B == t * BlockOffsetBase
             C == low * ValueBase  D == v * ValueBase  E == top * BlockOffsetBase
  <2>4. A \in Int /\ B \in Int /\ C \in Int  BY <1>1, <1>2 DEF BlockOffsetBase
  <2>5. D = B + C  BY <2>1 DEF BlockOffsetBase
  <2>6. E = A + B  BY <2>2
  <2>7. h = A + D + m  BY <2>3
  <2> HIDE DEF A, B, C, D, E, h
  <2>8. h = E + (C + m)  BY <1>2, <2>4, <2>5, <2>6, <2>7
  <2> QED  BY <2>8 DEF C, E
<1>4. rest \in 0..(BlockOffsetBase - 1) /\ BlockOffsetBase \in Nat \ {0}
  <2>1. low * ValueBase + ValueBase = (low + 1) * ValueBase  BY <1>1, <1>2
  <2>2. (low + 1) * ValueBase <= ValueHalf * ValueBase
    <3>1. PICK d \in Nat : ValueHalf = low + 1 + d
      <4>1. ValueHalf - low - 1 \in Nat  BY <1>1
      <4> QED  BY <4>1, <1>1
    <3>2. ValueHalf * ValueBase = (low + 1) * ValueBase + d * ValueBase  BY <1>1, <1>2, <3>1
    <3>3. d * ValueBase >= 0  BY <1>2, <3>1
    <3> DEFINE A == ValueHalf * ValueBase  B == (low + 1) * ValueBase  C == d * ValueBase
    <3>4. B \in Int /\ C \in Int /\ A = B + C /\ C >= 0  BY <1>1, <1>2, <3>1, <3>2, <3>3
    <3> HIDE DEF A, B, C
    <3>5. B <= A  BY <3>4
    <3> QED  BY <3>5 DEF A, B
  <2>3. ValueHalf * ValueBase = BlockOffsetBase  BY <1>2 DEF BlockOffsetBase
  <2>4. low * ValueBase \in Nat /\ BlockOffsetBase \in Nat \ {0}  BY <1>1, <1>2 DEF BlockOffsetBase
  <2> DEFINE C == low * ValueBase
  <2>5. C + ValueBase <= BlockOffsetBase /\ C \in Nat  BY <2>1, <2>2, <2>3, <2>4
  <2> HIDE DEF C
  <2>6. C + m \in 0..(BlockOffsetBase - 1)  BY <1>2, <2>4, <2>5
  <2> QED  BY <2>4, <2>6 DEF C
<1>5. top \in 0..(2 * ValueHalf - 1)  BY <1>1
<1> HIDE DEF h, rest
<1>6. h \div BlockOffsetBase = top  BY <1>3, <1>4, <1>5, DivMod, top \in Int
<1>7. top % (2 * ValueHalf) = top
  <2>1. top = 0 * (2 * ValueHalf) + top  BY <1>5
  <2> QED  BY <1>5, <2>1, DivMod, 2 * ValueHalf \in Nat \ {0}, 0 \in Int
<1>8. top - (top % 2) = 2 * k  BY <1>1
<1>9. HdrMaskBlockOffset(h) = 2 * k
  BY <1>6, <1>7, <1>8 DEF HdrMaskBlockOffset
<1>10. h < Word
  <2>1. (top + 1) * BlockOffsetBase = top * BlockOffsetBase + BlockOffsetBase  BY <1>4, <1>5
  <2>2. PICK d \in Nat : 2 * ValueHalf = top + 1 + d
    <3> DEFINE d == 2 * ValueHalf - top - 1
    <3>1. d \in Nat /\ 2 * ValueHalf = top + 1 + d  BY <1>5
    <3> HIDE DEF d
    <3> QED  BY <3>1
  <2>3. (2 * ValueHalf) * BlockOffsetBase = (top + 1) * BlockOffsetBase + d * BlockOffsetBase
    BY <1>4, <1>5, <2>2
  <2>4. d * BlockOffsetBase >= 0  BY <1>4, <2>2
  <2> DEFINE A == top * BlockOffsetBase  B == (top + 1) * BlockOffsetBase
             C == d * BlockOffsetBase  W == (2 * ValueHalf) * BlockOffsetBase
  <2>5. A \in Int /\ B \in Int /\ C \in Int  BY <1>4, <1>5, <2>2
  <2>6. B = A + BlockOffsetBase /\ W = B + C /\ C >= 0 /\ h = A + rest
    BY <1>3, <2>1, <2>3, <2>4
  <2>7. Word = W  BY <1>2, <1>4 DEF Word, BlockOffsetBase
  <2> HIDE DEF A, B, C, W, top
  <2>8. h < W  BY <1>4, <2>5, <2>6
  <2> QED  BY <2>7, <2>8
<1> QED  BY <1>9, <1>10 DEF h

(* The header of an external chunk: the magic number where value and       *)
(* offset would be, and the external bit below it.                         *)
LEMMA ExternalFields ==
  ASSUME NEW m \in MethodIDs
  PROVE  LET h == HdrMaskExternal(m) IN
         /\ h \in 0..(Word - 1)
         /\ GetMethodID(h) = m
         /\ HdrMaskIsExternal(h)
         /\ HdrMaskCheckMagic(h)
<1> USE HeaderAssumption
<1> DEFINE h == HdrMaskExternal(m)  low == Methods + m
<1>1. m \in 0..(Methods - 1) /\ Magic \in Nat  BY DEF MethodIDs
<1>2. low \in 0..(ValueBase - 1) /\ ValueBase \in Nat \ {0}  BY <1>1 DEF ValueBase
<1>3. h = Magic * ValueBase + low
  <2>1. Magic * ValueBase \in Int  BY <1>1, <1>2
  <2> QED  BY <1>1, <2>1 DEF HdrMaskExternal
<1>4. h = (2 * Magic + 1) * Methods + m
  <2>1. Magic * (2 * Methods) = (2 * Magic) * Methods  BY <1>1
  <2>2. (2 * Magic + 1) * Methods = (2 * Magic) * Methods + Methods  BY <1>1
  <2> QED  BY <1>1, <1>3, <2>1, <2>2 DEF ValueBase
<1>5. h < Word
  <2> DEFINE top == 2 * ValueHalf * ValueHalf
  <2>1. top \in Nat /\ Magic \in 0..(top - 1)  OBVIOUS
  <2>2. Word = top * ValueBase
    <3>1. (ValueBase * ValueHalf) * (2 * ValueHalf) = (2 * ValueHalf * ValueHalf) * ValueBase
      BY <1>2
    <3> QED  BY <3>1 DEF Word, BlockOffsetBase
  <2> HIDE DEF top
  <2> DEFINE d == top - Magic - 1
  <2>3. d \in Nat /\ top = Magic + 1 + d  BY <2>1
  <2> HIDE DEF d
  <2>4. top * ValueBase = Magic * ValueBase + ValueBase + d * ValueBase  BY <1>1, <1>2, <2>3
  <2>5. d * ValueBase >= 0  BY <1>2, <2>3
  <2> DEFINE A == Magic * ValueBase  C == d * ValueBase
  <2>6. A \in Int /\ C \in Int /\ Word = A + ValueBase + C /\ C >= 0 /\ h = A + low
    BY <1>1, <1>2, <1>3, <2>2, <2>3, <2>4, <2>5
  <2> HIDE DEF A, C, h, low
  <2> QED  BY <1>2, <2>6
<1> HIDE DEF h, low
<1>6. h \div ValueBase = Magic  BY <1>1, <1>2, <1>3, DivMod
<1>7. h \div Methods = 2 * Magic + 1 /\ h % Methods = m
  BY <1>1, <1>4, DivMod, 2 * Magic + 1 \in Int
<1>8. (2 * Magic + 1) % 2 = 1  BY <1>1
<1>9. h \in Nat
  <2>1. Magic * ValueBase \in Nat  BY <1>1, <1>2
  <2> QED  BY <1>2, <1>3, <2>1
<1>10. Word \in Nat  BY DEF Word, BlockOffsetBase, ValueBase
<1>11. h \in 0..(Word - 1)  BY <1>5, <1>9, <1>10
<1>12. GetMethodID(h) = m  BY <1>7 DEF GetMethodID
<1>13. HdrMaskIsExternal(h)  BY <1>7, <1>8 DEF HdrMaskIsExternal
<1>14. HdrMaskCheckMagic(h)  BY <1>6 DEF HdrMaskCheckMagic
<1> QED  BY <1>11, <1>12, <1>13, <1>14 DEF h

--------------------------------------------------------------------------------
(* The inductive invariant: the word holds what the ghost says.            *)
StoredInWord ==
  \/ \E k \in 0..(ValueHalf - 1), v \in Values, m \in MethodIDs :
       hdrmask = HdrMask(2 * k, v, m) /\ stored = Ordinary(2 * k, v, m)
  \/ \E m \in MethodIDs : hdrmask = HdrMaskExternal(m) /\ stored = External(m)

(* The word is what was stored, in every state. *)
LEMMA InductiveHeader == Spec => []StoredInWord
<1>1. Init => StoredInWord
  BY DEF Init, StoredInWord, BlockOffsets
<1>2. StoredInWord /\ [Next]_vars => StoredInWord'
  <2> SUFFICES ASSUME StoredInWord, [Next]_vars PROVE StoredInWord'
    OBVIOUS
  <2>1. CASE \E offset \in BlockOffsets, value \in Values, methodid \in MethodIDs :
               SetHdrMask(offset, value, methodid)
    BY <2>1 DEF SetHdrMask, StoredInWord, BlockOffsets
  <2>2. CASE \E methodid \in MethodIDs : SetHdrMaskExternal(methodid)
    BY <2>2 DEF SetHdrMaskExternal, StoredInWord
  <2>3. CASE UNCHANGED vars
    BY <2>3 DEF vars, StoredInWord
  <2> QED  BY <2>1, <2>2, <2>3 DEF Next
<1> QED  BY <1>1, <1>2, PTL DEF Spec

(* For any widths of the fields, those of the code among them, a header    *)
(* fits in the word.                                                       *)
THEOREM HeadersFit == Spec => []HeaderFits
<1>1. StoredInWord => HeaderFits
  <2> SUFFICES ASSUME StoredInWord PROVE HeaderFits
    OBVIOUS
  <2>1. ASSUME NEW k \in 0..(ValueHalf - 1), NEW v \in Values, NEW m \in MethodIDs,
               hdrmask = HdrMask(2 * k, v, m)
        PROVE  HeaderFits
    <3>1. hdrmask \in Nat /\ hdrmask < Word  BY <2>1, LowFields, HighField
    <3>2. Word \in Nat  BY HeaderAssumption DEF Word, BlockOffsetBase, ValueBase
    <3> QED  BY <3>1, <3>2 DEF HeaderFits
  <2>2. ASSUME NEW m \in MethodIDs, hdrmask = HdrMaskExternal(m)
        PROVE  HeaderFits
    BY <2>2, ExternalFields DEF HeaderFits
  <2> QED  BY <2>1, <2>2 DEF StoredInWord
<1> QED  BY <1>1, InductiveHeader, PTL

(* For any widths, every field is read back as it was stored, the shared   *)
(* bit notwithstanding, and the two kinds of header are told apart.        *)
THEOREM HeadersReadBack == Spec => []HeaderReadsBack
<1>1. StoredInWord => HeaderReadsBack
  <2> SUFFICES ASSUME StoredInWord PROVE HeaderReadsBack
    OBVIOUS
  <2>1. ASSUME NEW k \in 0..(ValueHalf - 1), NEW v \in Values, NEW m \in MethodIDs,
               hdrmask = HdrMask(2 * k, v, m), stored = Ordinary(2 * k, v, m)
        PROVE  HeaderReadsBack
    <3>1. /\ GetMethodID(hdrmask) = m
          /\ ~HdrMaskIsExternal(hdrmask)
          /\ HdrMaskGetValue(hdrmask) = v
          /\ HdrMaskBlockOffset(hdrmask) = 2 * k
      BY <2>1, LowFields, HighField
    <3>2. /\ stored.external = FALSE /\ stored.methodid = m
          /\ stored.value = v /\ stored.offset = 2 * k
      BY <2>1 DEF Ordinary
    <3> QED  BY <3>1, <3>2 DEF HeaderReadsBack
  <2>2. ASSUME NEW m \in MethodIDs, hdrmask = HdrMaskExternal(m), stored = External(m)
        PROVE  HeaderReadsBack
    <3>1. /\ GetMethodID(hdrmask) = m
          /\ HdrMaskIsExternal(hdrmask) /\ HdrMaskCheckMagic(hdrmask)
      BY <2>2, ExternalFields
    <3>2. stored.external = TRUE /\ stored.methodid = m
      BY <2>2 DEF External
    <3> QED  BY <3>1, <3>2 DEF HeaderReadsBack
  <2> QED  BY <2>1, <2>2 DEF StoredInWord
<1> QED  BY <1>1, InductiveHeader, PTL

================================================================================
