------------------------------ MODULE AlignedAlloc -----------------------------
(***************************************************************************)
(* Aligned allocation (MemoryContextAllocAligned and alignedalloc.c): a    *)
(* larger chunk is allocated, the aligned address is chosen inside it, and *)
(* a redirect header before that address says where the chunk is.          *)
(*                                                                         *)
(* Of the allocation set below (AllocSet.tla) this module uses that a new  *)
(* chunk overlaps no other and how large it is.  Addresses and sizes are   *)
(* bytes.                                                                  *)
(***************************************************************************)
EXTENDS AllocSizes, FiniteSets, Functions

CONSTANTS
  Address,      \* where the set below can put a chunk
  Size,         \* the request sizes of clients
  Alignment,    \* the alignments they ask for
  SetLimit,     \* allocChunkLimit of the set
  MaxHeld       \* bound: pointers that clients hold at a time

ASSUME AlignedAssumption ==
  /\ \A u \in Address : u \in Nat /\ u >= ALLOC_CHUNKHDRSZ /\ u % 8 = 0
  /\ Size \subseteq Nat
  /\ Alignment \subseteq {Power2[k] : k \in 0..26}
  /\ SetLimit \in Nat /\ MaxHeld \in Nat

VARIABLES
  space,     \* the size of each chunk in use, by its address
  redirect,  \* the redirect header before each aligned pointer
  held,      \* the pointers that clients hold
  requested, \* ghost: the size the client asked for
  promised,  \* ghost: how many bytes it wrote and never gave up by shrinking
  valid      \* ghost: how many of them are there

vars == <<space, redirect, held, requested, promised, valid>>
ghostVars == <<requested, promised, valid>>

--------------------------------------------------------------------------------
TypeAlign(alignto, len) == ((len + alignto - 1) \div alignto) * alignto

(* The chunk that the set gives for a request. *)
ChunkSize(size) == IF size <= SetLimit THEN ClassSize(FreeIndex(size)) ELSE MaxAlign(size)

GetChunkSpace(u) == space[u] + ALLOC_CHUNKHDRSZ

Fits(u, n) ==
  \A w \in DOMAIN space :
    u + n <= w - ALLOC_CHUNKHDRSZ \/ w + space[w] <= u - ALLOC_CHUNKHDRSZ

(* Where MemoryContextAllocAligned puts the pointer in the chunk at u. *)
AlignedIn(u, alignto) == TypeAlign(alignto, u + ALLOC_CHUNKHDRSZ)

With(f, p, x) == [q \in DOMAIN f \cup {p} |-> IF q = p THEN x ELSE f[q]]
Without(f, p) == Restrict(f, DOMAIN f \ {p})

(* MemoryChunkGetBlock of the header before p, if that is a redirect. *)
Unaligned(p) == IF p \in DOMAIN redirect THEN redirect[p].to ELSE p

(***************************************************************************)
(* How much AlignedAllocRealloc may copy from p: what GetMemoryChunkSpace  *)
(* says of the chunk, less what alignment can have taken, less the header. *)
(***************************************************************************)
OldSizeOfChunk(p) ==   \* mutant: as if the pointer were at the start of the chunk
  GetChunkSpace(Unaligned(p)) - ALLOC_CHUNKHDRSZ

OldSizeLessHeaders(p) ==   \* mutant: the redirect header is deducted again
  GetChunkSpace(Unaligned(p)) - PallocAlignedExtraBytes(redirect[p].alignto)
    - 2 * ALLOC_CHUNKHDRSZ

OldSize(p) ==
  GetChunkSpace(Unaligned(p)) - PallocAlignedExtraBytes(redirect[p].alignto)
    - ALLOC_CHUNKHDRSZ

--------------------------------------------------------------------------------
Init ==
  /\ space = [u \in {} |-> 0]
  /\ redirect = [p \in {} |-> [to |-> 0, alignto |-> 0]]
  /\ held = {}
  /\ requested = [p \in {} |-> 0]
  /\ promised = [p \in {} |-> 0]
  /\ valid = [p \in {} |-> 0]

(***************************************************************************)
(* MemoryContextAllocAligned: an alignment that every chunk has needs no   *)
(* redirection.  A failure (MCXT_ALLOC_NO_OOM) changes nothing.  The       *)
(* client fills what it gets.                                              *)
(***************************************************************************)
AllocPlain(size, alignto) ==
  /\ alignto <= 8
  /\ \E u \in Address :
       /\ Fits(u, ChunkSize(size))
       /\ space' = With(space, u, ChunkSize(size))
       /\ held' = held \cup {u}
       /\ requested' = With(requested, u, size)
       /\ promised' = With(promised, u, size)
       /\ valid' = With(valid, u, size)
  /\ UNCHANGED redirect

AllocAligned(size, alignto) ==
  LET n == ChunkSize(size + PallocAlignedExtraBytes(alignto)) IN
  /\ alignto > 8
  /\ \E u \in Address :
       LET p == AlignedIn(u, alignto) IN
       /\ Fits(u, n)
       /\ space' = With(space, u, n)
       /\ redirect' = With(redirect, p, [to |-> u, alignto |-> alignto])
       /\ held' = held \cup {p}
       /\ requested' = With(requested, p, size)
       /\ promised' = With(promised, p, size)
       /\ valid' = With(valid, p, size)

Alloc(size, alignto) ==
  /\ Cardinality(held) < MaxHeld
  /\ AllocPlain(size, alignto) \/ AllocAligned(size, alignto)

(* pfree: of an aligned pointer it is AlignedAllocFree, which frees the    *)
(* chunk that the redirect header names.                                   *)
Free(p) ==
  /\ space' = Without(space, Unaligned(p))
  /\ redirect' = Without(redirect, p)
  /\ held' = held \ {p}
  /\ requested' = Without(requested, p)
  /\ promised' = Without(promised, p)
  /\ valid' = Without(valid, p)

(***************************************************************************)
(* AlignedAllocRealloc: a new aligned chunk, the copy, and pfree of the    *)
(* old chunk.  (A plain pointer goes to AllocSetRealloc.)  When there is   *)
(* no new chunk the old one stays: no step.                                *)
(***************************************************************************)
ReleaseNothing(f, u) == f   \* mutant: the old chunk is not freed

Release(f, u) == Without(f, u)

Realloc(p, size) ==
  /\ p \in DOMAIN redirect
  /\ LET alignto == redirect[p].alignto
         n == ChunkSize(size + PallocAlignedExtraBytes(alignto))
         copied == Smaller(size, OldSize(p))
     IN
     \E u \in Address :
       LET q == AlignedIn(u, alignto) IN
       /\ Fits(u, n)
       /\ space' = Release(With(space, u, n), Unaligned(p))
       /\ redirect' = With(Without(redirect, p), q, [to |-> u, alignto |-> alignto])
       /\ held' = (held \ {p}) \cup {q}
       /\ requested' = With(Without(requested, p), q, size)
       /\ promised' = With(Without(promised, p), q, Smaller(promised[p], size))
       /\ valid' = With(Without(valid, p), q, Smaller(valid[p], copied))

Next ==
  \/ \E size \in Size, alignto \in Alignment : Alloc(size, alignto)
  \/ \E p \in held : Free(p)
  \/ \E p \in held, size \in Size : Realloc(p, size)

Spec == Init /\ [][Next]_vars

--------------------------------------------------------------------------------
(***************************************************************************)
(* What the client gets lies in the chunk it was made from, as does the    *)
(* redirect header before it, and has the alignment it asked for: no other *)
(* pointer's bytes or header can be overwritten through it.                *)
(***************************************************************************)
RedirectInside ==
  \A p \in held :
    LET u == Unaligned(p) IN
    /\ u \in DOMAIN space
    /\ p + requested[p] <= u + space[u]
    /\ p \in DOMAIN redirect =>
         /\ p % redirect[p].alignto = 0
         /\ u <= p - ALLOC_CHUNKHDRSZ

(* The copy of AlignedAllocRealloc, whose length comes from the size of    *)
(* the chunk and not from the request, does not read past the old chunk,   *)
(* wherever in it the pointer is.                                          *)
CopyInside ==
  \A p \in held \cap DOMAIN redirect :
    0 <= OldSize(p) /\ p + OldSize(p) <= Unaligned(p) + space[Unaligned(p)]

(* After any sequence of reallocs a pointer still has what its client      *)
(* wrote, up to the smallest size it asked for since.                      *)
ContentsKept == \A p \in held : valid[p] >= promised[p]

(* Each chunk in use is that of one pointer in a client's hands: freeing   *)
(* and reallocating an aligned pointer give back the chunk it lies in.     *)
NoChunkLost ==
  /\ DOMAIN space = {Unaligned(p) : p \in held}
  /\ \A p, q \in held : Unaligned(p) = Unaligned(q) => p = q

================================================================================
