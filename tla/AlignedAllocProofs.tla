--------------------------- MODULE AlignedAllocProofs --------------------------
(***************************************************************************)
(* Aligned pointers, for any place, size and alignment (a power of two up  *)
(* to 2^26) and any number of pointers.  The invariant says where the      *)
(* pointers and their redirect headers lie in chunks that do not overlap,  *)
(* so that a new pointer differs from all others; a realloc is proved as   *)
(* an allocation and a pfree after it.                                     *)
(***************************************************************************)
EXTENDS AlignedAlloc, AllocSizesProofs

(* The chunk that the pointer p lies in. *)
At(rd, p) == IF p \in DOMAIN rd THEN rd[p].to ELSE p

(* A chunk at u of n bytes with its header overlaps none of the chunks sp. *)
Clear(sp, u, n) ==
  \A w \in DOMAIN sp : u + n <= w - 8 \/ w + sp[w] <= u - 8

ChunksApart(sp) ==
  /\ DOMAIN sp \subseteq Address
  /\ \A u \in DOMAIN sp : sp[u] \in Nat
  /\ \A u, w \in DOMAIN sp : u = w \/ u + sp[u] <= w - 8 \/ w + sp[w] <= u - 8

(* A pointer lies in its chunk, behind the redirect header if it has one,  *)
(* and what its client asked for ends in the chunk.                        *)
PointerInside(sp, rd, rq, p) ==
  LET u == At(rd, p) IN
  /\ u \in DOMAIN sp /\ p \in Nat /\ rq[p] \in Nat
  /\ p \notin DOMAIN rd => rq[p] <= sp[u]
  /\ p \in DOMAIN rd =>
       LET a == rd[p].alignto IN
       /\ a \in Alignment /\ a > 8
       /\ p % a = 0 /\ u + 8 <= p /\ p <= u + a /\ rq[p] + a <= sp[u]

Layout(sp, rd, h, rq) ==
  /\ ChunksApart(sp)
  /\ DOMAIN rd \subseteq h
  /\ \A p \in h : PointerInside(sp, rd, rq, p)
  /\ \A p, q \in h : At(rd, p) = At(rd, q) => p = q
  /\ \A u \in DOMAIN sp : \E p \in h : At(rd, p) = u

Kept(rq, pr, vl, p) ==
  pr[p] \in Nat /\ vl[p] \in Nat /\ pr[p] <= rq[p] /\ pr[p] <= vl[p]

AlignedInv ==
  /\ Layout(space, redirect, held, requested)
  /\ DOMAIN requested = held /\ DOMAIN promised = held /\ DOMAIN valid = held
  /\ \A p \in held : Kept(requested, promised, valid, p)

(* g is f with x at p, or without p. *)
Added(f, g, p, x) ==
  /\ DOMAIN g = DOMAIN f \cup {p} /\ g[p] = x
  /\ \A q \in DOMAIN f : q # p => g[q] = f[q]

Removed(f, g, p) ==
  /\ DOMAIN g = DOMAIN f \ {p}
  /\ \A q \in DOMAIN f : q # p => g[q] = f[q]

(* What With and Without do. *)
LEMMA WithAdds ==
  ASSUME NEW f, NEW p, NEW x
  PROVE  Added(f, With(f, p, x), p, x)
BY DEF Added, With

(* Without takes one value out of a function. *)
LEMMA WithoutRemoves ==
  ASSUME NEW f, NEW p
  PROVE  Removed(f, Without(f, p), p)
BY DEF Removed, Without, Restrict

--------------------------------------------------------------------------------
(* A multiple is divided without a remainder. *)
LEMMA MultipleHasNoRemainder ==
  ASSUME NEW a \in Nat \ {0}, NEW k \in Nat
  PROVE  (a * k) % a = 0
<1> DEFINE x == a * k
           q == x \div a
           r == x % a
<1>1. x \in Nat
  OBVIOUS
<1> HIDE DEF x
<1>2. q \in Int /\ r \in 0..(a - 1) /\ x = a * q + r
  BY <1>1
<1> HIDE DEF q, r
<1>3. ASSUME k >= q + 1 PROVE FALSE
  <2>1. PICK d \in Nat : k = q + 1 + d
    <3>1. k - q - 1 \in Nat /\ k = q + 1 + (k - q - 1)
      BY <1>2, <1>3
    <3>2. QED
      BY <3>1
  <2>2. a * k = a * q + a + a * d /\ a * d >= 0
    BY <1>2, <2>1
  <2> DEFINE ak == a * k  aq == a * q  ad == a * d
  <2>3. ak \in Int /\ aq \in Int /\ ad \in Int /\ ak = aq + a + ad /\ ad >= 0 /\ ak = aq + r
    BY <1>2, <2>1, <2>2 DEF x
  <2> HIDE DEF ak, aq, ad
  <2>4. QED
    BY <1>2, <2>3
<1>4. ASSUME q >= k + 1 PROVE FALSE
  <2>1. PICK d \in Nat : q = k + 1 + d
    <3>1. q - k - 1 \in Nat /\ q = k + 1 + (q - k - 1)
      BY <1>2, <1>4
    <3>2. QED
      BY <3>1
  <2>2. a * q = a * k + a + a * d /\ a * d >= 0
    BY <1>2, <2>1
  <2> DEFINE ak == a * k  aq == a * q  ad == a * d
  <2>3. ak \in Int /\ aq \in Int /\ ad \in Int /\ aq = ak + a + ad /\ ad >= 0 /\ ak = aq + r
    BY <1>2, <2>1, <2>2 DEF x
  <2> HIDE DEF ak, aq, ad
  <2>4. QED
    BY <1>2, <2>3
<1>5. k = q
  BY <1>2, <1>3, <1>4
<1> DEFINE aq == a * q
<1>6. aq \in Int /\ aq = aq + r
  BY <1>2, <1>5 DEF x
<1> HIDE DEF aq
<1>7. r = 0
  BY <1>2, <1>6
<1>8. QED
  BY <1>7 DEF r, x

(* An alignment above that of every chunk is a multiple of 8. *)
LEMMA AlignmentIsMultiple ==
  ASSUME NEW a \in Alignment
  PROVE  /\ a \in Nat /\ a >= 1
         /\ a > 8 => \E b \in Nat : b >= 1 /\ a = 8 * b
<1>1. PICK k \in 0..26 : a = Power2[k]
  BY AlignedAssumption
<1>2. a \in Nat /\ a >= 1
  BY <1>1, Power2Doubles
<1>3. ASSUME a > 8
      PROVE  \E b \in Nat : b >= 1 /\ a = 8 * b
  <2>1. k >= 3
    <3>1. k \in 0..2 => k = 0 \/ k = 1 \/ k = 2
      OBVIOUS
    <3>2. k \in 0..2 => a <= 8
      BY <1>1, <3>1, Power2Values
    <3>3. QED
      BY <1>2, <1>3, <3>2
  <2>2. /\ k - 3 \in Nat /\ k - 2 \in Nat /\ k - 1 \in Nat
        /\ (k - 3) + 1 = k - 2 /\ (k - 2) + 1 = k - 1 /\ (k - 1) + 1 = k
    BY <2>1
  <2>3. /\ Power2[k - 3] \in Nat /\ Power2[k - 3] >= 1
        /\ Power2[k - 2] = 2 * Power2[k - 3] /\ Power2[k - 1] = 2 * Power2[k - 2]
        /\ Power2[k] = 2 * Power2[k - 1]
    BY <2>2, Power2Doubles
  <2>4. a = 8 * Power2[k - 3]
    BY <1>1, <2>3
  <2>5. QED
    BY <2>3, <2>4
<1>4. QED
  BY <1>2, <1>3

(* Where TYPEALIGN puts the pointer in a chunk: behind a redirect header,  *)
(* and no further than the alignment takes it.                             *)
LEMMA AlignedInChunk ==
  ASSUME NEW u \in Address, NEW a \in Alignment, a > 8
  PROVE  LET p == AlignedIn(u, a) IN
         p \in Nat /\ p % a = 0 /\ u + 8 <= p /\ p <= u + a
<1> DEFINE n == u + 8 + a - 1
           k == n \div a
           p == AlignedIn(u, a)
<1>1. PICK b \in Nat : b >= 1 /\ a = 8 * b
  BY AlignmentIsMultiple
<1>2. PICK v \in Nat : u = 8 * v
  <2>1. u \in Nat /\ u % 8 = 0
    BY AlignedAssumption
  <2>2. u \div 8 \in Nat /\ u = 8 * (u \div 8)
    BY <2>1
  <2>3. QED
    BY <2>2
<1>3. n \in Nat /\ a \in Nat \ {0}
  BY <1>1, <1>2
<1>4. p = k * a
  BY DEF AlignedIn, TypeAlign, ALLOC_CHUNKHDRSZ
<1> HIDE DEF n, p
<1>5. k \in Int /\ a * k <= n /\ n < a * k + a
  BY <1>3
<1>5a. k \in Nat
  <2> DEFINE m == n
  <2>1. ASSUME k < 0 PROVE FALSE
    <3>1. PICK d \in Nat : k = 0 - 1 - d
      <4>1. 0 - 1 - k \in Nat /\ k = 0 - 1 - (0 - 1 - k)
        BY <1>5, <2>1
      <4>2. QED
        BY <4>1
    <3>2. a * k + a = 0 - a * d /\ a * d >= 0
      BY <1>3, <3>1
    <3> DEFINE ak == a * k  ad == a * d
    <3>3. ak \in Int /\ ad \in Int /\ ak + a = 0 - ad /\ ad >= 0 /\ n < ak + a
      BY <1>3, <1>5, <3>1, <3>2
    <3> HIDE DEF ak, ad
    <3>4. QED
      BY <1>3, <3>3
  <2>2. QED
    BY <1>5, <2>1
<1> HIDE DEF k
<1> DEFINE bk == b * k
<1>6. bk \in Nat /\ a * k = 8 * bk /\ p = 8 * bk
  <2>1. b * k \in Nat /\ (8 * b) * k = 8 * (b * k) /\ k * a = a * k
    BY <1>1, <1>3, <1>5a
  <2>2. QED
    BY <1>1, <1>4, <2>1
<1>7. p % a = 0
  <2>1. p = a * k
    BY <1>4, <1>6
  <2>2. QED
    BY <1>3, <1>5a, <2>1, MultipleHasNoRemainder
<1> HIDE DEF bk
<1>8. n = 8 * v + 8 + 8 * b - 1
  BY <1>1, <1>2 DEF n
<1>9. 8 * bk <= n /\ n < 8 * bk + 8 * b
  BY <1>1, <1>5, <1>6
<1>10. bk >= v + 1 /\ bk <= v + b
  BY <1>1, <1>2, <1>6, <1>8, <1>9
<1>11. QED
  BY <1>1, <1>2, <1>6, <1>7, <1>10 DEF p

(* A chunk is at least as large as the request it is for. *)
LEMMA ChunkHoldsRequest ==
  ASSUME NEW n \in Nat
  PROVE  ChunkSize(n) \in Nat /\ n <= ChunkSize(n)
<1>1. FreeIndex(n) \in Nat /\ n <= ClassSize(FreeIndex(n))
  BY FreeIndexTight
<1>2. ClassSize(FreeIndex(n)) \in Nat
  BY <1>1, ClassSizeOrder
<1>3. MaxAlign(n) \in Nat /\ n <= MaxAlign(n)
  BY MaxAlignRoundsUp
<1>4. QED
  BY <1>1, <1>2, <1>3 DEF ChunkSize

--------------------------------------------------------------------------------
(* A pointer into a new chunk is none that a client has. *)
LEMMA NewPointerIsNew ==
  ASSUME NEW sp, NEW rd, NEW h, NEW rq, Layout(sp, rd, h, rq),
         NEW u \in Address, NEW n \in Nat, Clear(sp, u, n),
         NEW q \in Nat, u <= q, q <= u + n
  PROVE  q \notin h /\ u \notin DOMAIN sp
<1>1. u \in Nat /\ \A w \in DOMAIN sp : w \in Nat /\ sp[w] \in Nat
  BY AlignedAssumption DEF Layout, ChunksApart
<1>2. u \notin DOMAIN sp
  BY <1>1 DEF Clear
<1>3. ASSUME NEW p \in h
      PROVE  p # q
  <2> DEFINE w == At(rd, p)
  <2>1. PointerInside(sp, rd, rq, p)
    BY DEF Layout
  <2>2. w \in DOMAIN sp /\ p \in Nat /\ w <= p /\ p <= w + sp[w]
    <3>1. CASE p \notin DOMAIN rd
      BY <1>1, <2>1, <3>1 DEF PointerInside, At
    <3>2. CASE p \in DOMAIN rd
      <4>1. rd[p].alignto \in Nat
        BY <2>1, <3>2, AlignmentIsMultiple DEF PointerInside
      <4>2. QED
        BY <1>1, <2>1, <3>2, <4>1 DEF PointerInside
    <3>3. QED
      BY <3>1, <3>2
  <2> HIDE DEF w
  <2>3. u + n <= w - 8 \/ w + sp[w] <= u - 8
    BY <2>2 DEF Clear
  <2>4. QED
    BY <1>1, <2>2, <2>3
<1>4. QED
  BY <1>2, <1>3

(* A new chunk of n bytes at u, and for a client that asked for size bytes *)
(* a pointer q into it.                                                    *)
Adds(sp, rd, h, rq, sp1, rd1, rq1, q, u, n, size) ==
  /\ Added(sp, sp1, u, n) /\ Added(rq, rq1, q, size)
  /\ DOMAIN rd1 \subseteq DOMAIN rd \cup {q}
  /\ \A p \in h : p \in DOMAIN rd1 <=> p \in DOMAIN rd
  /\ \A p \in DOMAIN rd : rd1[p] = rd[p]

(* The layout stays sound when such a pointer lies in its chunk.           *)
LEMMA LayoutAfterAdding ==
  ASSUME NEW sp, NEW rd, NEW h, NEW rq, Layout(sp, rd, h, rq),
         NEW u \in Address, NEW n \in Nat, Clear(sp, u, n),
         NEW q \in Nat, u <= q, q <= u + n, NEW size,
         NEW sp1, NEW rd1, NEW rq1, DOMAIN rq = h,
         Adds(sp, rd, h, rq, sp1, rd1, rq1, q, u, n, size),
         PointerInside(sp1, rd1, rq1, q), At(rd1, q) = u
  PROVE  Layout(sp1, rd1, h \cup {q}, rq1)
<1>1. q \notin h /\ u \notin DOMAIN sp
  BY NewPointerIsNew
<1>2. u \in Nat /\ \A w \in DOMAIN sp : w \in Nat /\ sp[w] \in Nat
  BY AlignedAssumption DEF Layout, ChunksApart
<1>3. /\ DOMAIN sp1 = DOMAIN sp \cup {u} /\ sp1[u] = n
      /\ \A w \in DOMAIN sp : sp1[w] = sp[w]
  BY <1>1 DEF Adds, Added
<1>4. ChunksApart(sp1)
  <2>1. DOMAIN sp1 \subseteq Address /\ \A w \in DOMAIN sp1 : sp1[w] \in Nat
    BY <1>3 DEF Layout, ChunksApart
  <2>2. ASSUME NEW v \in DOMAIN sp1, NEW w \in DOMAIN sp1
        PROVE  v = w \/ v + sp1[v] <= w - 8 \/ w + sp1[w] <= v - 8
    <3>1. CASE v \in DOMAIN sp /\ w \in DOMAIN sp
      BY <1>3, <3>1 DEF Layout, ChunksApart
    <3>2. CASE v = u /\ w \in DOMAIN sp
      BY <1>3, <3>2 DEF Clear
    <3>3. CASE w = u /\ v \in DOMAIN sp
      BY <1>3, <3>3 DEF Clear
    <3>4. CASE v = u /\ w = u
      BY <3>4
    <3>5. QED
      BY <1>3, <3>1, <3>2, <3>3, <3>4
  <2>3. QED
    BY <2>1, <2>2 DEF ChunksApart
<1>5. \A p \in h : At(rd1, p) = At(rd, p) /\ rq1[p] = rq[p] /\ At(rd, p) \in DOMAIN sp
  <2>1. \A p \in h : At(rd1, p) = At(rd, p)
    BY DEF Adds, At
  <2>2. \A p \in h : rq1[p] = rq[p]
    BY <1>1 DEF Adds, Added
  <2>3. \A p \in h : At(rd, p) \in DOMAIN sp
    BY DEF Layout, PointerInside
  <2>4. QED
    BY <2>1, <2>2, <2>3
<1>6. ASSUME NEW p \in h
      PROVE  PointerInside(sp1, rd1, rq1, p)
  <2>1. PointerInside(sp, rd, rq, p)
    BY DEF Layout
  <2>2. /\ p \in DOMAIN rd1 <=> p \in DOMAIN rd
        /\ p \in DOMAIN rd => rd1[p] = rd[p]
    BY DEF Adds
  <2>3. At(rd, p) \in DOMAIN sp1 /\ sp1[At(rd, p)] = sp[At(rd, p)]
    BY <1>3, <1>5
  <2>4. QED
    BY <2>1, <2>2, <2>3, <1>5 DEF PointerInside
<1>7. DOMAIN rd1 \subseteq h \cup {q}
  BY DEF Adds, Layout
<1>8. \A p, r \in h \cup {q} : At(rd1, p) = At(rd1, r) => p = r
  <2>1. \A p, r \in h : At(rd1, p) = At(rd1, r) => p = r
    BY <1>5 DEF Layout
  <2>2. \A p \in h : At(rd1, p) # u
    BY <1>1, <1>5
  <2>3. QED
    BY <2>1, <2>2
<1>9. \A w \in DOMAIN sp1 : \E p \in h \cup {q} : At(rd1, p) = w
  <2>1. \A w \in DOMAIN sp : \E p \in h : At(rd, p) = w
    BY DEF Layout
  <2>2. QED
    BY <2>1, <1>3, <1>5
<1>10. QED
  BY <1>4, <1>6, <1>7, <1>8, <1>9 DEF Layout

(* The pointer p and its chunk go. *)
LEMMA LayoutAfterRemoving ==
  ASSUME NEW sp, NEW rd, NEW h, NEW rq, Layout(sp, rd, h, rq), NEW p \in h,
         NEW sp1, NEW rd1, NEW rq1, DOMAIN rq = h,
         Removed(sp, sp1, At(rd, p)), Removed(rd, rd1, p), Removed(rq, rq1, p)
  PROVE  Layout(sp1, rd1, h \ {p}, rq1)
<1>1. ChunksApart(sp1)
  BY DEF Layout, ChunksApart, Removed
<1>2. \A r \in h \ {p} : At(rd1, r) = At(rd, r) /\ rq1[r] = rq[r]
  BY DEF Removed, At
<1>3. \A r \in h \ {p} : At(rd, r) # At(rd, p)
  BY DEF Layout
<1>4. ASSUME NEW r \in h \ {p}
      PROVE  PointerInside(sp1, rd1, rq1, r)
  <2>1. PointerInside(sp, rd, rq, r)
    BY DEF Layout
  <2>2. At(rd, r) \in DOMAIN sp1 /\ sp1[At(rd, r)] = sp[At(rd, r)]
    BY <1>3, <2>1 DEF Removed, PointerInside
  <2>3. /\ r \in DOMAIN rd1 <=> r \in DOMAIN rd
        /\ r \in DOMAIN rd => rd1[r] = rd[r]
    BY DEF Removed
  <2>4. QED
    BY <1>2, <2>1, <2>2, <2>3 DEF PointerInside
<1>5. DOMAIN rd1 \subseteq h \ {p}
  BY DEF Layout, Removed
<1>6. \A r, s \in h \ {p} : At(rd1, r) = At(rd1, s) => r = s
  BY <1>2 DEF Layout
<1>7. \A w \in DOMAIN sp1 : \E r \in h \ {p} : At(rd1, r) = w
  BY <1>2 DEF Layout, Removed
<1>8. QED
  BY <1>1, <1>4, <1>5, <1>6, <1>7 DEF Layout

--------------------------------------------------------------------------------
(* No chunk and no pointer at first. *)
LEMMA InitAligned == Init => AlignedInv
BY DEF Init, AlignedInv, Layout, ChunksApart

(* The redirect header and the pointer that are made in a new chunk. *)
LEMMA NewAlignedPointer ==
  ASSUME NEW u \in Address, NEW a \in Alignment, a > 8, NEW size \in Nat,
         NEW n, n = ChunkSize(size + PallocAlignedExtraBytes(a)),
         NEW q, q = AlignedIn(u, a), NEW sp1, NEW rd1, NEW rq1,
         u \in DOMAIN sp1, sp1[u] = n, q \in DOMAIN rd1,
         rd1[q] = [to |-> u, alignto |-> a], rq1[q] = size
  PROVE  /\ n \in Nat /\ q \in Nat /\ u <= q /\ q <= u + n /\ At(rd1, q) = u
         /\ PointerInside(sp1, rd1, rq1, q)
<1>1. u \in Nat /\ a \in Nat
  BY AlignedAssumption, AlignmentIsMultiple
<1>2. PallocAlignedExtraBytes(a) = a
  BY <1>1 DEF PallocAlignedExtraBytes, ALLOC_CHUNKHDRSZ
<1>3. n \in Nat /\ size + a <= n
  <2>1. size + a \in Nat
    BY <1>1
  <2>2. QED
    BY <1>2, <2>1, ChunkHoldsRequest
<1>4. q \in Nat /\ q % a = 0 /\ u + 8 <= q /\ q <= u + a
  BY AlignedInChunk
<1>5. At(rd1, q) = u
  BY DEF At
<1>6. PointerInside(sp1, rd1, rq1, q)
  BY <1>1, <1>3, <1>4, <1>5 DEF PointerInside
<1>7. QED
  BY <1>1, <1>3, <1>4, <1>5, <1>6

(* MemoryContextAllocAligned, with an alignment that every chunk has. *)
LEMMA AllocPlainKeeps ==
  ASSUME AlignedInv, NEW size \in Size, NEW alignto, AllocPlain(size, alignto)
  PROVE  AlignedInv'
<1> DEFINE n == ChunkSize(size)
<1>1. PICK u \in Address :
         /\ Fits(u, n)
         /\ space' = With(space, u, n)
         /\ held' = held \cup {u}
         /\ requested' = With(requested, u, size)
         /\ promised' = With(promised, u, size)
         /\ valid' = With(valid, u, size)
         /\ redirect' = redirect
  BY DEF AllocPlain
<1>2. size \in Nat /\ n \in Nat /\ size <= n /\ u \in Nat
  BY AlignedAssumption, ChunkHoldsRequest
<1> HIDE DEF n
<1>3. Layout(space, redirect, held, requested) /\ DOMAIN requested = held
  BY DEF AlignedInv
<1>4. Clear(space, u, n)
  BY <1>1 DEF Fits, Clear, ALLOC_CHUNKHDRSZ
<1>5. u \notin held /\ u \notin DOMAIN redirect
  <2>1. u <= u /\ u <= u + n
    BY <1>2
  <2>2. u \notin held
    BY <1>2, <1>3, <1>4, <2>1, NewPointerIsNew
  <2>3. QED
    BY <1>3, <2>2 DEF Layout
<1>6. /\ Added(space, space', u, n) /\ Added(requested, requested', u, size)
      /\ Added(promised, promised', u, size) /\ Added(valid, valid', u, size)
  BY <1>1, WithAdds
<1>7. PointerInside(space', redirect', requested', u) /\ At(redirect', u) = u
  BY <1>1, <1>2, <1>5, <1>6 DEF PointerInside, At, Added
<1>8. Layout(space', redirect', held', requested')
  <2>1. Adds(space, redirect, held, requested, space', redirect', requested', u, u, n, size)
    BY <1>1, <1>6 DEF Adds
  <2>2. u <= u /\ u <= u + n
    BY <1>2
  <2>3. Layout(space', redirect', held \cup {u}, requested')
    BY <1>2, <1>3, <1>4, <1>7, <2>1, <2>2, LayoutAfterAdding
  <2>4. QED
    BY <1>1, <2>3
<1>9. \A p \in held' : Kept(requested', promised', valid', p)
  BY <1>1, <1>2, <1>5, <1>6 DEF AlignedInv, Kept, Added
<1>10. DOMAIN requested' = held' /\ DOMAIN promised' = held' /\ DOMAIN valid' = held'
  BY <1>1, <1>6 DEF AlignedInv, Added
<1>11. QED
  BY <1>8, <1>9, <1>10 DEF AlignedInv

(* MemoryContextAllocAligned, with a redirect header. *)
LEMMA AllocAlignedKeeps ==
  ASSUME AlignedInv, NEW size \in Size, NEW alignto \in Alignment,
         AllocAligned(size, alignto)
  PROVE  AlignedInv'
<1> DEFINE n == ChunkSize(size + PallocAlignedExtraBytes(alignto))
<1>1. alignto > 8
  BY DEF AllocAligned
<1>2. PICK u \in Address :
         /\ Fits(u, n)
         /\ space' = With(space, u, n)
         /\ redirect' = With(redirect, AlignedIn(u, alignto), [to |-> u, alignto |-> alignto])
         /\ held' = held \cup {AlignedIn(u, alignto)}
         /\ requested' = With(requested, AlignedIn(u, alignto), size)
         /\ promised' = With(promised, AlignedIn(u, alignto), size)
         /\ valid' = With(valid, AlignedIn(u, alignto), size)
  BY DEF AllocAligned
<1> DEFINE q == AlignedIn(u, alignto)
           r == [to |-> u, alignto |-> alignto]
<1>3. size \in Nat
  BY AlignedAssumption
<1>4. /\ Added(space, space', u, n) /\ Added(redirect, redirect', q, r)
      /\ Added(requested, requested', q, size)
      /\ Added(promised, promised', q, size) /\ Added(valid, valid', q, size)
  BY <1>2, WithAdds
<1>5. /\ n \in Nat /\ q \in Nat /\ u <= q /\ q <= u + n /\ At(redirect', q) = u
      /\ PointerInside(space', redirect', requested', q)
  <2>1. /\ u \in DOMAIN space' /\ space'[u] = n /\ q \in DOMAIN redirect'
        /\ redirect'[q] = r /\ requested'[q] = size
    BY <1>4 DEF Added
  <2>2. QED
    BY <1>1, <1>3, <2>1, NewAlignedPointer
<1> HIDE DEF n, q, r
<1>6. Layout(space, redirect, held, requested) /\ DOMAIN requested = held
  BY DEF AlignedInv
<1>7. Clear(space, u, n)
  BY <1>2 DEF Fits, Clear, ALLOC_CHUNKHDRSZ, n
<1>8. q \notin held /\ held' = held \cup {q}
  BY <1>2, <1>5, <1>6, <1>7, NewPointerIsNew DEF q
<1>9. Layout(space', redirect', held', requested')
  <2>1. DOMAIN redirect \subseteq held
    BY <1>6 DEF Layout
  <2>2. Adds(space, redirect, held, requested, space', redirect', requested', q, u, n, size)
    BY <1>4, <1>8, <2>1 DEF Adds, Added
  <2>3. Layout(space', redirect', held \cup {q}, requested')
    BY <1>5, <1>6, <1>7, <2>2, LayoutAfterAdding
  <2>4. QED
    BY <1>8, <2>3
<1>10. \A p \in held' : Kept(requested', promised', valid', p)
  BY <1>3, <1>4, <1>8 DEF AlignedInv, Kept, Added
<1>11. DOMAIN requested' = held' /\ DOMAIN promised' = held' /\ DOMAIN valid' = held'
  BY <1>4, <1>8 DEF AlignedInv, Added
<1>12. QED
  BY <1>9, <1>10, <1>11 DEF AlignedInv

(* pfree, of either kind of pointer. *)
LEMMA FreeKeeps ==
  ASSUME AlignedInv, NEW p \in held, Free(p)
  PROVE  AlignedInv'
<1>1. /\ Removed(space, space', At(redirect, p)) /\ Removed(redirect, redirect', p)
      /\ Removed(requested, requested', p) /\ Removed(promised, promised', p)
      /\ Removed(valid, valid', p) /\ held' = held \ {p}
  BY WithoutRemoves DEF Free, Unaligned, At
<1>2. Layout(space', redirect', held', requested')
  BY <1>1, LayoutAfterRemoving DEF AlignedInv
<1>3. \A q \in held' : Kept(requested', promised', valid', q)
  BY <1>1 DEF AlignedInv, Kept, Removed
<1>4. DOMAIN requested' = held' /\ DOMAIN promised' = held' /\ DOMAIN valid' = held'
  BY <1>1 DEF AlignedInv, Removed
<1>5. QED
  BY <1>2, <1>3, <1>4 DEF AlignedInv

(* What AlignedAllocRealloc takes the old size to be is within the chunk,  *)
(* and not less than what the client asked for.                            *)
LEMMA OldSizeIs ==
  ASSUME AlignedInv, NEW p \in held, p \in DOMAIN redirect
  PROVE  /\ OldSize(p) \in Nat /\ requested[p] <= OldSize(p)
         /\ p + OldSize(p) <= Unaligned(p) + space[Unaligned(p)]
<1> DEFINE u == Unaligned(p)
           a == redirect[p].alignto
<1>1. /\ u = At(redirect, p) /\ u \in DOMAIN space /\ p \in Nat /\ requested[p] \in Nat
      /\ a \in Alignment /\ p <= u + a /\ requested[p] + a <= space[u]
  BY DEF AlignedInv, Layout, PointerInside, At, Unaligned
<1>2. u \in Nat /\ space[u] \in Nat /\ a \in Nat
  BY <1>1, AlignedAssumption, AlignmentIsMultiple DEF AlignedInv, Layout, ChunksApart
<1>3. OldSize(p) = space[u] + 8 - a - 8
  BY <1>2 DEF OldSize, GetChunkSpace, PallocAlignedExtraBytes, ALLOC_CHUNKHDRSZ
<1> HIDE DEF u, a
<1>4. QED
  BY <1>1, <1>2, <1>3 DEF u

(* AlignedAllocRealloc: first the new chunk, then pfree of the old one. *)
LEMMA ReallocKeeps ==
  ASSUME AlignedInv, NEW p \in held, NEW size \in Size, Realloc(p, size)
  PROVE  AlignedInv'
<1> DEFINE a == redirect[p].alignto
           n == ChunkSize(size + PallocAlignedExtraBytes(a))
           copied == Smaller(size, OldSize(p))
<1>1. p \in DOMAIN redirect
  BY DEF Realloc
<1>2. PICK u \in Address :
        LET q == AlignedIn(u, a) IN
        /\ Fits(u, n)
        /\ space' = Release(With(space, u, n), Unaligned(p))
        /\ redirect' = With(Without(redirect, p), q, [to |-> u, alignto |-> a])
        /\ held' = (held \ {p}) \cup {q}
        /\ requested' = With(Without(requested, p), q, size)
        /\ promised' = With(Without(promised, p), q, Smaller(promised[p], size))
        /\ valid' = With(Without(valid, p), q, Smaller(valid[p], copied))
  BY DEF Realloc
<1> DEFINE q == AlignedIn(u, a)
           r == [to |-> u, alignto |-> a]
           sp == With(space, u, n)
           rd == With(redirect, q, r)
           rq == With(requested, q, size)
<1>3. /\ a \in Alignment /\ a > 8 /\ size \in Nat
      /\ Layout(space, redirect, held, requested) /\ DOMAIN requested = held
  BY <1>1, AlignedAssumption DEF AlignedInv, Layout, PointerInside
<1>4. /\ Added(space, sp, u, n) /\ Added(redirect, rd, q, r) /\ Added(requested, rq, q, size)
  BY WithAdds
<1>5. /\ n \in Nat /\ q \in Nat /\ u <= q /\ q <= u + n /\ At(rd, q) = u
      /\ PointerInside(sp, rd, rq, q)
  <2> HIDE DEF sp, rd, rq
  <2>1. u \in DOMAIN sp /\ sp[u] = n /\ q \in DOMAIN rd /\ rd[q] = r /\ rq[q] = size
    BY <1>4 DEF Added
  <2>2. QED
    BY <1>3, <2>1, NewAlignedPointer
<1>6. /\ space' = Without(sp, Unaligned(p))
      /\ redirect' = With(Without(redirect, p), q, r)
      /\ held' = (held \ {p}) \cup {q}
      /\ requested' = With(Without(requested, p), q, size)
      /\ promised' = With(Without(promised, p), q, Smaller(promised[p], size))
      /\ valid' = With(Without(valid, p), q, Smaller(valid[p], copied))
  BY <1>2 DEF Release
<1>7. Clear(space, u, n)
  BY <1>2 DEF Fits, Clear, ALLOC_CHUNKHDRSZ
<1> HIDE DEF sp, rd, rq, n, q, r, a, copied
<1>8. q \notin held
  BY <1>3, <1>5, <1>7, NewPointerIsNew
<1>9. Layout(sp, rd, held \cup {q}, rq)
  <2>1. DOMAIN redirect \subseteq held
    BY <1>3 DEF Layout
  <2>2. Adds(space, redirect, held, requested, sp, rd, rq, q, u, n, size)
    BY <1>4, <1>8, <2>1 DEF Adds, Added
  <2>3. QED
    BY <1>3, <1>5, <1>7, <2>2, LayoutAfterAdding
<1>10. /\ Removed(sp, space', At(rd, p)) /\ Removed(rd, redirect', p)
       /\ Removed(rq, requested', p)
  <2>1. At(rd, p) = Unaligned(p)
    BY <1>1, <1>4, <1>8 DEF At, Unaligned, Added
  <2>2. Removed(sp, space', At(rd, p))
    BY <1>6, <2>1, WithoutRemoves
  <2>3. Removed(rd, redirect', p)
    BY <1>6, <1>8 DEF Removed, With, Without, Restrict, rd
  <2>4. Removed(rq, requested', p)
    BY <1>6, <1>8 DEF Removed, With, Without, Restrict, rq
  <2>5. QED
    BY <2>2, <2>3, <2>4
<1>11. Layout(space', redirect', held', requested')
  <2>1. DOMAIN rq = held \cup {q}
    BY <1>3, <1>4 DEF Added
  <2>2. Layout(space', redirect', (held \cup {q}) \ {p}, requested')
    BY <1>9, <1>10, <2>1, LayoutAfterRemoving
  <2>3. held' = (held \cup {q}) \ {p}
    BY <1>6, <1>8
  <2>4. QED
    BY <2>2, <2>3
<1>12. ASSUME NEW s \in held'
       PROVE  Kept(requested', promised', valid', s)
  <2>1. CASE s = q
    <3>1. /\ promised[p] \in Nat /\ valid[p] \in Nat /\ requested[p] \in Nat
          /\ promised[p] <= requested[p] /\ promised[p] <= valid[p]
      BY <1>3 DEF AlignedInv, Kept, Layout, PointerInside
    <3>2. OldSize(p) \in Nat /\ requested[p] <= OldSize(p)
      BY <1>1, OldSizeIs
    <3>3. /\ requested'[q] = size /\ promised'[q] = Smaller(promised[p], size)
          /\ valid'[q] = Smaller(valid[p], copied)
      BY <1>6 DEF With
    <3>4. QED
      BY <1>3, <2>1, <3>1, <3>2, <3>3 DEF Kept, Smaller, copied
  <2>2. CASE s \in held \ {p}
    <3>1. /\ requested'[s] = requested[s] /\ promised'[s] = promised[s]
          /\ valid'[s] = valid[s]
      BY <1>6, <1>8, <2>2 DEF AlignedInv, With, Without, Restrict
    <3>2. QED
      BY <2>2, <3>1 DEF AlignedInv, Kept
  <2>3. QED
    BY <1>6, <2>1, <2>2
<1>13. DOMAIN requested' = held' /\ DOMAIN promised' = held' /\ DOMAIN valid' = held'
  BY <1>6 DEF AlignedInv, With, Without, Restrict
<1>14. QED
  BY <1>11, <1>12, <1>13 DEF AlignedInv

--------------------------------------------------------------------------------
(* The layout holds in every state. *)
LEMMA AlignedInvariant == Spec => []AlignedInv
<1>1. Init => AlignedInv
  BY InitAligned
<1>2. AlignedInv /\ [Next]_vars => AlignedInv'
  <2> SUFFICES ASSUME AlignedInv, [Next]_vars PROVE AlignedInv'
    OBVIOUS
  <2>1. ASSUME NEW size \in Size, NEW alignto \in Alignment, Alloc(size, alignto)
        PROVE  AlignedInv'
    BY <2>1, AllocPlainKeeps, AllocAlignedKeeps DEF Alloc
  <2>2. ASSUME NEW p \in held, Free(p)
        PROVE  AlignedInv'
    BY <2>2, FreeKeeps
  <2>3. ASSUME NEW p \in held, NEW size \in Size, Realloc(p, size)
        PROVE  AlignedInv'
    BY <2>3, ReallocKeeps
  <2>4. CASE UNCHANGED vars
    BY <2>4 DEF vars, AlignedInv, Layout, ChunksApart, PointerInside, At, Kept
  <2>5. QED
    BY <2>1, <2>2, <2>3, <2>4 DEF Next
<1>3. QED
  BY <1>1, <1>2, PTL DEF Spec

(* No pointer's bytes and no redirect header of MemoryContextAllocAligned  *)
(* or AlignedAllocRealloc lie outside the chunk they were made in.         *)
THEOREM RedirectStaysInside == Spec => []RedirectInside
<1>1. AlignedInv => RedirectInside
  <2> SUFFICES ASSUME AlignedInv, NEW p \in held
               PROVE  /\ Unaligned(p) \in DOMAIN space
                      /\ p + requested[p] <= Unaligned(p) + space[Unaligned(p)]
                      /\ p \in DOMAIN redirect =>
                           /\ p % redirect[p].alignto = 0
                           /\ Unaligned(p) <= p - ALLOC_CHUNKHDRSZ
    BY DEF RedirectInside
  <2> DEFINE u == Unaligned(p)
  <2>1. PointerInside(space, redirect, requested, p) /\ u = At(redirect, p)
    BY DEF AlignedInv, Layout, At, Unaligned
  <2>2. u \in DOMAIN space /\ u \in Nat /\ space[u] \in Nat
    BY <2>1, AlignedAssumption DEF PointerInside, AlignedInv, Layout, ChunksApart
  <2>3. CASE p \notin DOMAIN redirect
    BY <2>1, <2>2, <2>3 DEF PointerInside, Unaligned
  <2>4. CASE p \in DOMAIN redirect
    <3>1. redirect[p].alignto \in Nat
      BY <2>1, <2>4, AlignmentIsMultiple DEF PointerInside
    <3> HIDE DEF u
    <3>2. QED
      BY <2>1, <2>2, <2>4, <3>1 DEF PointerInside, ALLOC_CHUNKHDRSZ, u
  <2>5. QED
    BY <2>3, <2>4
<1>2. QED
  BY <1>1, AlignedInvariant, PTL

(* The copy of AlignedAllocRealloc never reads past the old chunk. *)
THEOREM CopyStaysInside == Spec => []CopyInside
<1>1. AlignedInv => CopyInside
  <2> SUFFICES ASSUME AlignedInv, NEW p \in held, p \in DOMAIN redirect
               PROVE  /\ 0 <= OldSize(p)
                      /\ p + OldSize(p) <= Unaligned(p) + space[Unaligned(p)]
    BY DEF CopyInside
  <2>1. QED
    BY OldSizeIs
<1>2. QED
  BY <1>1, AlignedInvariant, PTL

(* Contents survive any sequence of AlignedAllocRealloc, up to the         *)
(* smallest size asked for.                                                *)
THEOREM ContentsAreKept == Spec => []ContentsKept
<1>1. AlignedInv => ContentsKept
  BY DEF AlignedInv, Kept, ContentsKept
<1>2. QED
  BY <1>1, AlignedInvariant, PTL

(* pfree and AlignedAllocRealloc give back the chunk that the pointer lies *)
(* in, and only that: chunks and pointers are one to one.                  *)
THEOREM NoChunkIsLost == Spec => []NoChunkLost
<1>1. AlignedInv => NoChunkLost
  <2> SUFFICES ASSUME AlignedInv PROVE NoChunkLost
    OBVIOUS
  <2>1. \A p \in held : Unaligned(p) = At(redirect, p) /\ At(redirect, p) \in DOMAIN space
    BY DEF Unaligned, At, AlignedInv, Layout, PointerInside
  <2>2. QED
    BY <2>1 DEF NoChunkLost, AlignedInv, Layout
<1>2. QED
  BY <1>1, AlignedInvariant, PTL

================================================================================
