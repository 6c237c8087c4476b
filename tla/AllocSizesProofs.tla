--------------------------- MODULE AllocSizesProofs ----------------------------
(***************************************************************************)
(* What the size functions of aset.c compute, for every size, and before   *)
(* that the facts about numbers, recursive definitions, linked lists and   *)
(* sums that the proofs about the allocation set rest on too.              *)
(*                                                                         *)
(* That TLA+'s f[x] == ... f[...] ... is such a function has to be shown,  *)
(* and follows from RecursiveFunction. Induction is the argument that a    *)
(* set of numbers has a least member (LeastNumber), with the numbers for   *)
(* which a claim fails as the set.                                         *)
(***************************************************************************)
EXTENDS AllocSizes, FiniteSets, Functions, TLAPS, WellFoundedInduction, FiniteSetTheorems

(* A set of numbers that is not empty has a least member. *)
LEMMA LeastNumber ==
  ASSUME NEW T \in SUBSET Nat, T # {}
  PROVE  \E m \in T : \A n \in T : m <= n
<1> DEFINE R == OpToRel(<, Nat)
<1>1. IsWellFoundedOn(R, Nat)
  BY NatLessThanWellFounded
<1>2. \A x, y \in Nat : <<x, y>> \in R <=> x < y
  BY DEF OpToRel
<1> HIDE DEF R
<1>3. PICK m \in T : \A y \in T : ~ (<<y, m>> \in R)
  BY <1>1, WFMin
<1>4. ASSUME NEW n \in T
      PROVE  m <= n
  <2>1. m \in Nat /\ n \in Nat
    OBVIOUS
  <2>2. ~ (n < m)
    BY <1>2, <1>3, <2>1
  <2>3. QED
    BY <2>1, <2>2
<1>5. QED
  BY <1>4

(***************************************************************************)
(* A function defined by recursion exists: f[x] is base[x], or, for x in   *)
(* Rec, made by step from x and f[down[x]], and `size` decreases.          *)
(***************************************************************************)
Recursion(D, S, Rec, size, down, base, step) ==
  /\ Rec \in SUBSET D
  /\ size \in [D -> Nat] /\ down \in [D -> D]
  /\ base \in [D -> S] /\ step \in [D \X S -> S]
  /\ \A x \in Rec : size[down[x]] < size[x]

Follows(f, D, S, Rec, down, base, step) ==
  /\ f \in [D -> S]
  /\ \A x \in D : f[x] = IF x \in Rec THEN step[<<x, f[down[x]]>>] ELSE base[x]

(* By LeastNumber: the least set of pairs that is closed under the         *)
(* definition is a function.                                               *)
LEMMA RecursiveFunction ==
  ASSUME NEW D, NEW S, NEW Rec, NEW size, NEW down, NEW base, NEW step,
         Recursion(D, S, Rec, size, down, base, step)
  PROVE  \E f : Follows(f, D, S, Rec, down, base, step)
<1> USE DEF Recursion
<1> DEFINE Closed(Q) ==
             \A x \in D :
               /\ x \notin Rec => <<x, base[x]>> \in Q
               /\ x \in Rec => \A s \in S : <<down[x], s>> \in Q => <<x, step[<<x, s>>]>> \in Q
           G == {p \in D \X S : \A Q \in SUBSET (D \X S) : Closed(Q) => p \in Q}
           Good(x) == \E s \in S : <<x, s>> \in G /\ \A t \in S : <<x, t>> \in G => t = s
<1>1. Closed(G)
  <2> SUFFICES ASSUME NEW x \in D
               PROVE  /\ x \notin Rec => <<x, base[x]>> \in G
                      /\ x \in Rec =>
                           \A s \in S : <<down[x], s>> \in G => <<x, step[<<x, s>>]>> \in G
    OBVIOUS
  <2>1. x \notin Rec => <<x, base[x]>> \in G
    OBVIOUS
  <2>2. ASSUME x \in Rec, NEW s \in S, <<down[x], s>> \in G
        PROVE  <<x, step[<<x, s>>]>> \in G
    <3>1. <<x, step[<<x, s>>]>> \in D \X S
      OBVIOUS
    <3>2. ASSUME NEW Q \in SUBSET (D \X S), Closed(Q)
          PROVE  <<x, step[<<x, s>>]>> \in Q
      BY <2>2, <3>2
    <3>3. QED
      BY <3>1, <3>2
  <2>3. QED
    BY <2>1, <2>2
<1>2. ASSUME NEW x \in D, x \in Rec => Good(down[x])
      PROVE  /\ Good(x)
             /\ x \notin Rec => <<x, base[x]>> \in G
             /\ x \in Rec => \A s \in S : <<down[x], s>> \in G => <<x, step[<<x, s>>]>> \in G
  <2>1. ASSUME NEW v \in S, NEW t \in S, <<x, v>> \in G, v # t,
               \/ x \notin Rec /\ v = base[x]
               \/ x \in Rec /\ \A s \in S : <<down[x], s>> \in G => v = step[<<x, s>>]
        PROVE  <<x, t>> \notin G
    <3> DEFINE Q == G \ {<<x, t>>}
    <3>1. ASSUME NEW y \in D, y \notin Rec
          PROVE  <<y, base[y]>> \in Q
      BY <1>1, <2>1, <3>1
    <3>2. ASSUME NEW y \in D, y \in Rec, NEW s \in S, <<down[y], s>> \in Q
          PROVE  <<y, step[<<y, s>>]>> \in Q
      <4>1. <<down[y], s>> \in G /\ <<y, step[<<y, s>>]>> \in G
        BY <1>1, <3>2
      <4>2. QED
        BY <4>1, <2>1, <3>2
    <3>3. Closed(Q)
      BY <3>1, <3>2
    <3>4. Q \in SUBSET (D \X S)
      OBVIOUS
    <3> HIDE DEF Q, Closed
    <3>5. <<x, t>> \in G => <<x, t>> \in Q
      BY <3>3, <3>4
    <3>6. QED
      BY <3>5 DEF Q
  <2>2. CASE x \notin Rec
    <3>1. base[x] \in S /\ <<x, base[x]>> \in G
      BY <1>1, <2>2
    <3> HIDE DEF G
    <3>2. QED
      BY <2>1, <2>2, <3>1
  <2>3. CASE x \in Rec
    <3> HIDE DEF G
    <3>1. PICK s \in S : <<down[x], s>> \in G /\ \A t \in S : <<down[x], t>> \in G => t = s
      BY <1>2, <2>3
    <3>2. step[<<x, s>>] \in S /\ <<x, step[<<x, s>>]>> \in G
      BY <1>1, <2>3, <3>1
    <3>3. QED
      BY <1>1, <2>1, <2>3, <3>1, <3>2
  <2>4. QED
    BY <2>2, <2>3
<1> HIDE DEF G
<1>3. \A x \in D : Good(x)
  <2> DEFINE T == {n \in Nat : \E x \in D : size[x] = n /\ ~ Good(x)}
  <2> SUFFICES ASSUME T # {} PROVE FALSE
    <3>1. \A x \in D : size[x] \in Nat
      OBVIOUS
    <3>2. QED
      BY <3>1
  <2>1. T \in SUBSET Nat
    OBVIOUS
  <2>2. PICK m \in T : \A n \in T : m <= n
    BY <2>1, LeastNumber
  <2>3. PICK x \in D : size[x] = m /\ ~ Good(x)
    OBVIOUS
  <2>4. ASSUME x \in Rec
        PROVE  Good(down[x])
    <3>1. down[x] \in D /\ size[down[x]] \in Nat /\ m \in Nat /\ size[down[x]] < m
      BY <2>3, <2>4
    <3> HIDE DEF T, Good
    <3>2. size[down[x]] \notin T
      BY <2>2, <3>1
    <3>3. QED
      BY <3>1, <3>2 DEF T
  <2>5. QED
    BY <2>3, <2>4, <1>2
<1> DEFINE f == [x \in D |-> CHOOSE s \in S : <<x, s>> \in G]
<1>4. \A x \in D : /\ f[x] \in S /\ <<x, f[x]>> \in G
                   /\ \A t \in S : <<x, t>> \in G => t = f[x]
  BY <1>3
<1>5. f \in [D -> S]
  BY <1>4
<1> HIDE DEF f
<1>6. ASSUME NEW x \in D
      PROVE  f[x] = IF x \in Rec THEN step[<<x, f[down[x]]>>] ELSE base[x]
  <2>1. CASE x \notin Rec
    BY <1>1, <1>4, <2>1
  <2>2. CASE x \in Rec
    <3>1. down[x] \in D /\ f[down[x]] \in S /\ <<down[x], f[down[x]]>> \in G
      BY <1>4, <2>2
    <3>2. step[<<x, f[down[x]]>>] \in S /\ <<x, step[<<x, f[down[x]]>>]>> \in G
      BY <1>1, <2>2, <3>1
    <3>3. QED
      BY <1>4, <2>2, <3>2
  <2>3. QED
    BY <2>1, <2>2
<1>7. QED
  BY <1>5, <1>6 DEF Follows

(* Induction over the natural numbers, for a set of them. *)
LEMMA Ascend ==
  ASSUME NEW T, 0 \in T, \A n \in Nat : n \in T => n + 1 \in T
  PROVE  \A n \in Nat : n \in T
<1> DEFINE B == Nat \ T
<1> SUFFICES ASSUME B # {} PROVE FALSE
  OBVIOUS
<1>1. PICK m \in B : \A n \in B : m <= n
  BY LeastNumber
<1>2. m # 0 /\ m - 1 \in Nat /\ m - 1 \notin B
  BY <1>1
<1>3. (m - 1) + 1 \in T
  BY <1>2
<1>4. QED
  BY <1>2, <1>3, <1>1

--------------------------------------------------------------------------------
(***************************************************************************)
(* The members F of a linked list with head h and links f, which ends with *)
(* nil: no two members have the same successor, none has the head as its   *)
(* successor, and whatever holds the head and follows the links holds all  *)
(* of F.                                                                   *)
(***************************************************************************)
Follow(T, h, f, nil) == /\ h = nil \/ h \in T
                        /\ \A x \in T : f[x] = nil \/ f[x] \in T

ListOf(F, h, f, nil) ==
  /\ nil \notin F
  /\ Follow(F, h, f, nil)
  /\ \A x \in F : f[x] = h => h = nil
  /\ \A x, y \in F : f[x] = f[y] /\ f[x] # nil => x = y
  /\ \A T \in SUBSET F : Follow(T, h, f, nil) => T = F

(* What two functions have in common. *)
Agree(e, f, S) == \A x \in S : e[x] = f[x]

(* A list stays one while the links of its members do. *)
LEMMA ListStays ==
  ASSUME NEW F, NEW h, NEW f, NEW nil, ListOf(F, h, f, nil),
         NEW g, Agree(g, f, F)
  PROVE  ListOf(F, h, g, nil)
  BY DEF ListOf, Follow, Agree

(* The empty list. *)
LEMMA ListEmpty ==
  ASSUME NEW f, NEW nil
  PROVE  ListOf({}, nil, f, nil)
  BY DEF ListOf, Follow

(* A list whose head is nil is empty. *)
LEMMA ListWithoutHead ==
  ASSUME NEW F, NEW f, NEW nil, ListOf(F, nil, f, nil)
  PROVE  F = {}
<1>1. Follow({}, nil, f, nil)
  BY DEF Follow
<1>2. QED
  BY <1>1 DEF ListOf

(* A list of one. *)
LEMMA ListSingle ==
  ASSUME NEW x, NEW f, NEW nil, x # nil, f[x] = nil
  PROVE  ListOf({x}, x, f, nil)
<1>1. ASSUME NEW T \in SUBSET {x}, Follow(T, x, f, nil)
      PROVE  T = {x}
  BY <1>1 DEF Follow
<1>2. QED
  BY <1>1 DEF ListOf, Follow

(* A new first member. *)
LEMMA ListPush ==
  ASSUME NEW F, NEW h, NEW f, NEW nil, ListOf(F, h, f, nil),
         NEW c, c \notin F, c # nil, NEW g, g[c] = h, Agree(g, f, F)
  PROVE  ListOf(F \cup {c}, c, g, nil)
<1> USE DEF Agree
<1>1. nil \notin F \cup {c} /\ Follow(F \cup {c}, c, g, nil)
  BY DEF ListOf, Follow
<1>2. \A x \in F \cup {c} : g[x] # c
  BY DEF ListOf, Follow
<1>3. \A x, y \in F \cup {c} : g[x] = g[y] /\ g[x] # nil => x = y
  BY DEF ListOf
<1>4. ASSUME NEW T \in SUBSET (F \cup {c}), Follow(T, c, g, nil)
      PROVE  T = F \cup {c}
  <2>1. c \in T /\ T \ {c} \in SUBSET F
    BY <1>4 DEF Follow
  <2>2. Follow(T \ {c}, h, f, nil)
    <3>1. h = nil \/ h \in T \ {c}
      BY <1>4, <2>1 DEF Follow, ListOf
    <3>2. ASSUME NEW x \in T \ {c}
          PROVE  f[x] = nil \/ f[x] \in T \ {c}
      <4>1. x \in F /\ g[x] = f[x]
        BY <2>1
      <4>2. QED
        BY <1>2, <1>4, <4>1 DEF Follow
    <3>3. QED
      BY <3>1, <3>2 DEF Follow
  <2>3. T \ {c} = F
    BY <2>1, <2>2 DEF ListOf
  <2>4. QED
    BY <2>1, <2>3
<1>5. QED
  BY <1>1, <1>2, <1>3, <1>4 DEF ListOf

(* The first member is taken off. *)
LEMMA ListPop ==
  ASSUME NEW F, NEW h, NEW f, NEW nil, ListOf(F, h, f, nil), h # nil,
         NEW g, Agree(g, f, F \ {h})
  PROVE  h \in F /\ ListOf(F \ {h}, f[h], g, nil)
<1> USE DEF Agree
<1>1. h \in F /\ \A x \in F : f[x] # h
  BY DEF ListOf, Follow
<1> DEFINE G == F \ {h}
<1>2. nil \notin G /\ Follow(G, f[h], g, nil)
  BY <1>1 DEF ListOf, Follow
<1>3. \A x \in G : g[x] = f[h] => f[h] = nil
  BY <1>1 DEF ListOf
<1>4. \A x, y \in G : g[x] = g[y] /\ g[x] # nil => x = y
  BY DEF ListOf
<1>5. ASSUME NEW T \in SUBSET G, Follow(T, f[h], g, nil)
      PROVE  T = G
  <2>1. Follow(T \cup {h}, h, f, nil)
    BY <1>5 DEF Follow
  <2>2. T \cup {h} = F
    BY <1>1, <2>1 DEF ListOf
  <2>3. QED
    BY <2>2
<1>6. QED
  BY <1>1, <1>2, <1>3, <1>4, <1>5 DEF ListOf

(* A new second member. *)
LEMMA ListInsert ==
  ASSUME NEW F, NEW h, NEW f, NEW nil, ListOf(F, h, f, nil), h # nil,
         NEW b, b \notin F, b # nil,
         NEW g, g[b] = f[h], g[h] = b, Agree(g, f, F \ {h})
  PROVE  ListOf(F \cup {b}, h, g, nil)
<1> USE DEF Agree
<1>1. h \in F /\ \A x \in F : f[x] # h
  BY DEF ListOf, Follow
<1> DEFINE G == F \cup {b}
<1>2. nil \notin G /\ Follow(G, h, g, nil)
  <2>1. \A x \in G : g[x] = nil \/ g[x] \in G
    BY <1>1 DEF ListOf, Follow
  <2>2. QED
    BY <1>1, <2>1 DEF ListOf, Follow
<1>3. \A x \in G : g[x] # h
  BY <1>1
<1>4. \A x, y \in G : g[x] = g[y] /\ g[x] # nil => x = y
  <2>1. \A x \in F : f[x] # b
    BY DEF ListOf, Follow
  <2>2. QED
    BY <1>1, <2>1 DEF ListOf
<1>5. ASSUME NEW T \in SUBSET G, Follow(T, h, g, nil)
      PROVE  T = G
  <2>1. h \in T /\ b \in T
    BY <1>5 DEF Follow, ListOf
  <2>2. T \ {b} \in SUBSET F
    OBVIOUS
  <2>3. Follow(T \ {b}, h, f, nil)
    <3>1. \A x \in F : f[x] # b
      BY DEF ListOf, Follow
    <3>2. ASSUME NEW x \in T \ {b}
          PROVE  f[x] = nil \/ f[x] \in T \ {b}
      BY <1>5, <2>1, <3>1 DEF Follow
    <3>3. h \in T \ {b}
      BY <1>1, <2>1
    <3>4. QED
      BY <3>2, <3>3 DEF Follow
  <2>4. T \ {b} = F
    BY <2>2, <2>3 DEF ListOf
  <2>5. QED
    BY <2>1, <2>4
<1>6. QED
  BY <1>1, <1>2, <1>3, <1>4, <1>5 DEF ListOf

(* Each member but the first is the successor of one. *)
LEMMA ListPredecessor ==
  ASSUME NEW F, NEW h, NEW f, NEW nil, ListOf(F, h, f, nil), NEW b \in F, b # h
  PROVE  \E p \in F : f[p] = b
<1> SUFFICES ASSUME \A p \in F : f[p] # b PROVE FALSE
  OBVIOUS
<1>1. Follow(F \ {b}, h, f, nil)
  BY DEF ListOf, Follow
<1>2. QED
  BY <1>1 DEF ListOf

(* A member b that is not the first is taken out. *)
LEMMA ListRemove ==
  ASSUME NEW F, NEW h, NEW f, NEW nil, ListOf(F, h, f, nil), NEW b \in F, b # h,
         NEW p \in F, f[p] = b,
         NEW g, g[p] = f[b], Agree(g, f, F \ {b, p})
  PROVE  p # b /\ ListOf(F \ {b}, h, g, nil)
<1> USE DEF Agree
<1> DEFINE G == F \ {b}
<1>1. h # nil /\ h \in F /\ b # nil
  <2>1. h # nil
    BY ListWithoutHead
  <2>2. QED
    BY <2>1 DEF ListOf, Follow
<1>2. p # b
  <2> SUFFICES ASSUME f[b] = b PROVE FALSE
    OBVIOUS
  <2>1. \A x \in F : f[x] = b => x = b
    BY <1>1 DEF ListOf
  <2>2. Follow(F \ {b}, h, f, nil)
    BY <1>1, <2>1 DEF ListOf, Follow
  <2>3. QED
    BY <2>2 DEF ListOf
<1>3. nil \notin G /\ Follow(G, h, g, nil)
  <2>1. f[b] # b
    BY <1>1, <1>2 DEF ListOf
  <2>2. \A x \in F : x # p => f[x] # b
    BY <1>1 DEF ListOf
  <2>3. \A x \in G : g[x] = nil \/ g[x] \in G
    BY <1>2, <2>1, <2>2 DEF ListOf, Follow
  <2>4. QED
    BY <1>1, <2>3 DEF ListOf, Follow
<1>4. \A x \in G : g[x] = h => h = nil
  BY DEF ListOf
<1>5. \A x, y \in G : g[x] = g[y] /\ g[x] # nil => x = y
  BY <1>2 DEF ListOf
<1>6. ASSUME NEW T \in SUBSET G, Follow(T, h, g, nil)
      PROVE  T = G
  <2>1. CASE p \in T
    <3>1. f[b] = nil \/ f[b] \in T
      BY <1>6, <2>1 DEF Follow
    <3>2. \A x \in T : f[x] = nil \/ f[x] \in T \cup {b}
      BY <1>6 DEF Follow
    <3>3. h \in T
      BY <1>1, <1>6 DEF Follow
    <3>4. Follow(T \cup {b}, h, f, nil)
      BY <3>1, <3>2, <3>3 DEF Follow
    <3>5. T \cup {b} = F
      BY <3>4 DEF ListOf
    <3>6. QED
      BY <3>5
  <2>2. CASE p \notin T
    <3>1. Follow(T, h, f, nil)
      BY <1>6, <2>2 DEF Follow
    <3>2. T = F
      BY <3>1 DEF ListOf
    <3>3. QED
      BY <2>2, <3>2
  <2>3. QED
    BY <2>1, <2>2
<1>7. QED
  BY <1>2, <1>3, <1>4, <1>5, <1>6 DEF ListOf

(* A member a is replaced by b, in the links to it also. *)
Renames(g, f, F, a, b) ==
  \A x \in F : g[IF x = a THEN b ELSE x] = IF f[x] = a THEN b ELSE f[x]

(* The list with b in the place of a. *)
LEMMA ListRename ==
  ASSUME NEW F, NEW h, NEW f, NEW nil, ListOf(F, h, f, nil),
         NEW a \in F, NEW b, b # nil, b \notin F \ {a},
         NEW g, Renames(g, f, F, a, b)
  PROVE  ListOf((F \ {a}) \cup {b}, IF h = a THEN b ELSE h, g, nil)
<1> DEFINE G == (F \ {a}) \cup {b}
           R(x) == IF x = a THEN b ELSE x
           S(y) == IF y = b THEN a ELSE y
<1>1. \A x \in F : R(x) \in G /\ S(R(x)) = x /\ g[R(x)] = R(f[x])
  BY DEF Renames
<1>2. \A y \in G : S(y) \in F /\ R(S(y)) = y /\ y # nil
  BY DEF ListOf
<1>3. /\ \A x \in F : R(x) # nil
      /\ R(nil) = nil /\ \A x, y \in F : R(x) = R(y) => x = y
  BY DEF ListOf
<1>4. /\ h = nil \/ h \in F
      /\ \A x \in F : f[x] = nil \/ f[x] \in F
  BY DEF ListOf, Follow
<1> HIDE DEF G, R, S
<1>5. nil \notin G /\ Follow(G, R(h), g, nil)
  <2>1. \A y \in G : g[y] = R(f[S(y)])
    BY <1>1, <1>2
  <2>2. QED
    BY <1>1, <1>2, <1>3, <1>4, <2>1 DEF Follow
<1>6. \A y \in G : g[y] = R(h) => R(h) = nil
  <2> SUFFICES ASSUME NEW y \in G, g[y] = R(h), R(h) # nil PROVE FALSE
    OBVIOUS
  <2>1. S(y) \in F /\ R(f[S(y)]) = R(h)
    BY <1>1, <1>2
  <2>2. h # nil /\ f[S(y)] # nil
    BY <1>3, <2>1
  <2>3. f[S(y)] = h
    BY <1>3, <1>4, <2>1, <2>2
  <2>4. QED
    BY <2>1, <2>2, <2>3 DEF ListOf
<1>7. \A x, y \in G : g[x] = g[y] /\ g[x] # nil => x = y
  <2> SUFFICES ASSUME NEW x \in G, NEW y \in G, g[x] = g[y], g[x] # nil PROVE x = y
    OBVIOUS
  <2>1. S(x) \in F /\ S(y) \in F /\ R(f[S(x)]) = R(f[S(y)]) /\ R(f[S(x)]) # nil
    BY <1>1, <1>2
  <2>2. f[S(x)] # nil /\ f[S(y)] # nil
    BY <1>3, <2>1
  <2>3. f[S(x)] = f[S(y)]
    BY <1>3, <1>4, <2>1, <2>2
  <2>4. S(x) = S(y)
    BY <2>1, <2>2, <2>3 DEF ListOf
  <2>5. QED
    BY <1>2, <2>4
<1>8. ASSUME NEW T \in SUBSET G, Follow(T, R(h), g, nil)
      PROVE  T = G
  <2> DEFINE U == {x \in F : R(x) \in T}
  <2>1. \A x \in U : f[x] = nil \/ f[x] \in U
    <3> SUFFICES ASSUME NEW x \in U, f[x] # nil PROVE f[x] \in U
      OBVIOUS
    <3>1. f[x] \in F /\ g[R(x)] = R(f[x]) /\ R(f[x]) # nil
      BY <1>1, <1>3, <1>4
    <3>2. R(f[x]) \in T
      BY <1>8, <3>1 DEF Follow
    <3>3. QED
      BY <3>1, <3>2
  <2>2. h = nil \/ h \in U
    BY <1>3, <1>4, <1>8 DEF Follow
  <2>3. U = F
    <3>1. Follow(U, h, f, nil) /\ U \in SUBSET F
      BY <2>1, <2>2 DEF Follow
    <3> HIDE DEF U
    <3>2. QED
      BY <3>1 DEF ListOf
  <2>4. \A y \in G : y \in T
    BY <1>2, <2>3
  <2>5. QED
    BY <2>4
<1>9. ListOf(G, R(h), g, nil)
  BY <1>5, <1>6, <1>7, <1>8 DEF ListOf
<1>10. QED
  BY <1>9 DEF G, R

(* A walk along the list from its head. *)
Walks(At, h, f, nil) ==
  /\ At[0] = h
  /\ \A n \in Nat : At[n + 1] = IF At[n] = nil THEN nil ELSE f[At[n]]

(***************************************************************************)
(* It visits each member once, and reaches nil after as many steps as the  *)
(* list has members.                                                       *)
(***************************************************************************)
LEMMA ListWalk ==
  ASSUME NEW F, NEW h, NEW f, NEW nil, ListOf(F, h, f, nil), IsFiniteSet(F),
         NEW At, Walks(At, h, f, nil)
  PROVE  /\ \A n \in Nat : At[n] \in F \cup {nil}
         /\ \A n \in Nat : At[n] = nil <=> Cardinality(F) <= n
         /\ \A m, n \in Nat : At[m] = At[n] /\ At[m] # nil => m = n
         /\ \A N \in Nat : Cardinality(F) <= N => {At[n] : n \in 0..N} \ {nil} = F
<1> DEFINE K == Cardinality(F)
<1>0. K \in Nat
  BY FS_CardinalityType
<1> HIDE DEF K
<1>1. \A n \in Nat : At[n] \in F \cup {nil}
  <2> DEFINE T == {n \in Nat : At[n] \in F \cup {nil}}
  <2>1. 0 \in T
    BY DEF Walks, ListOf, Follow
  <2>2. \A n \in Nat : n \in T => n + 1 \in T
    BY DEF Walks, ListOf, Follow
  <2> HIDE DEF T
  <2>3. \A n \in Nat : n \in T
    BY <2>1, <2>2, Ascend
  <2>4. QED
    BY <2>3 DEF T
<1>2. \A m, n \in Nat : At[m] = nil /\ m <= n => At[n] = nil
  <2> SUFFICES ASSUME NEW m \in Nat, At[m] = nil
               PROVE  \A n \in Nat : m <= n => At[n] = nil
    OBVIOUS
  <2> DEFINE T == {n \in Nat : At[m + n] = nil}
  <2>1. 0 \in T
    OBVIOUS
  <2>2. ASSUME NEW n \in Nat, n \in T
        PROVE  n + 1 \in T
    <3>1. m + n \in Nat /\ At[m + n] = nil /\ m + (n + 1) = (m + n) + 1
      BY <2>2
    <3>2. At[(m + n) + 1] = nil
      BY <3>1 DEF Walks
    <3>3. QED
      BY <3>1, <3>2
  <2> HIDE DEF T
  <2>3. \A n \in Nat : n \in T
    BY <2>1, <2>2, Ascend
  <2>4. ASSUME NEW n \in Nat, m <= n
        PROVE  At[n] = nil
    <3>1. n - m \in Nat /\ m + (n - m) = n
      BY <2>4
    <3>2. n - m \in T
      BY <2>3, <3>1
    <3>3. QED
      BY <3>1, <3>2 DEF T
  <2>5. QED
    BY <2>4
<1>3. ASSUME NEW n \in Nat, At[n] # nil
      PROVE  \A j \in 0..(n - 1) : At[j] # At[n]
  <2> DEFINE T == {k \in Nat : At[k] # nil => \A j \in 0..(k - 1) : At[j] # At[k]}
  <2>1. 0 \in T
    OBVIOUS
  <2>2. ASSUME NEW k \in Nat, k \in T
        PROVE  k + 1 \in T
    <3> SUFFICES ASSUME At[k + 1] # nil, NEW j \in 0..k, At[j] = At[k + 1]
                 PROVE  FALSE
      OBVIOUS
    <3>1. At[k] # nil /\ At[k + 1] = f[At[k]] /\ At[k] \in F /\ At[k + 1] \in F
      BY <1>1 DEF Walks
    <3>2. j # 0
      BY <3>1 DEF Walks, ListOf
    <3>3. j - 1 \in Nat /\ (j - 1) + 1 = j /\ j - 1 <= k /\ j \in Nat
      BY <3>2
    <3>4. At[j] = IF At[j - 1] = nil THEN nil ELSE f[At[j - 1]]
      BY <3>3 DEF Walks
    <3>5. At[j - 1] # nil /\ f[At[j - 1]] = f[At[k]] /\ At[j - 1] \in F
      BY <1>1, <3>1, <3>3, <3>4
    <3>6. At[j - 1] = At[k]
      BY <3>1, <3>5 DEF ListOf
    <3>7. \A i \in 0..(k - 1) : At[i] # At[k]
      BY <2>2, <3>1
    <3>8. j - 1 \in 0..(k - 1)
      BY <3>3
    <3>9. QED
      BY <3>6, <3>7, <3>8
  <2> HIDE DEF T
  <2>3. \A k \in Nat : k \in T
    BY <2>1, <2>2, Ascend
  <2>4. QED
    BY <1>3, <2>3 DEF T
<1>4. \A m, n \in Nat : At[m] = At[n] /\ At[m] # nil => m = n
  <2> SUFFICES ASSUME NEW m \in Nat, NEW n \in Nat, At[m] = At[n], At[m] # nil, m < n
               PROVE  FALSE
    OBVIOUS
  <2>1. m \in 0..(n - 1)
    OBVIOUS
  <2>2. QED
    BY <1>3, <2>1
<1>5. At[K] = nil
  <2> SUFFICES ASSUME At[K] # nil PROVE FALSE
    OBVIOUS
  <2> DEFINE p == [n \in 0..K |-> At[n]]
  <2>1. \A n \in 0..K : At[n] \in F
    BY <1>0, <1>1, <1>2
  <2>2. p \in [0..K -> F]
    BY <2>1
  <2>3. \A m, n \in 0..K : p[m] = p[n] => m = n
    <3>1. \A n \in 0..K : n \in Nat /\ p[n] = At[n] /\ At[n] # nil
      BY <2>1 DEF ListOf
    <3> HIDE DEF p
    <3>2. QED
      BY <1>4, <3>1
  <2> HIDE DEF p
  <2>4. IsFiniteSet(0..K) /\ Cardinality(0..K) = K + 1
    BY <1>0, FS_Interval
  <2>5. \E m, n \in 0..K : m # n /\ p[m] = p[n]
    BY <1>0, <2>2, <2>4, FS_PigeonHole DEF K
  <2>6. QED
    BY <2>3, <2>5
<1>6. ASSUME NEW N \in Nat, At[N] = nil
      PROVE  {At[n] : n \in 0..N} \ {nil} = F /\ {At[n] : n \in 0..(N - 1)} \ {nil} = F
  <2> DEFINE T == {At[n] : n \in 0..(N - 1)} \ {nil}
  <2>1. T \in SUBSET F
    BY <1>1
  <2>2. ASSUME NEW x \in T
        PROVE  f[x] = nil \/ f[x] \in T
    <3>1. PICK n \in 0..(N - 1) : x = At[n] /\ At[n] # nil
      OBVIOUS
    <3>2. n \in Nat /\ f[x] = At[n + 1] /\ n + 1 \in 0..N
      BY <3>1 DEF Walks
    <3>3. CASE n + 1 = N
      BY <1>6, <3>2, <3>3
    <3>4. CASE n + 1 # N
      <4>1. n + 1 \in 0..(N - 1)
        BY <3>2, <3>4
      <4>2. QED
        BY <3>2, <4>1
    <3>5. QED
      BY <3>3, <3>4
  <2>3. h = nil \/ h \in T
    <3>1. CASE N = 0
      BY <1>6, <3>1 DEF Walks
    <3>2. CASE N # 0
      <4>1. 0 \in 0..(N - 1)
        BY <3>2
      <4>2. QED
        BY <4>1 DEF Walks
    <3>3. QED
      BY <3>1, <3>2
  <2>4. T = F
    <3>1. Follow(T, h, f, nil)
      BY <2>2, <2>3 DEF Follow
    <3> HIDE DEF T
    <3>2. QED
      BY <2>1, <3>1 DEF ListOf
  <2>5. {At[n] : n \in 0..N} \ {nil} = T
    <3>1. \A n \in 0..N : n \in 0..(N - 1) \/ n = N
      OBVIOUS
    <3>2. \A n \in 0..(N - 1) : n \in 0..N
      OBVIOUS
    <3>3. QED
      BY <1>6, <3>1, <3>2
  <2>6. QED
    BY <2>4, <2>5
<1>7. ASSUME NEW n \in Nat, At[n] = nil
      PROVE  K <= n
  <2> DEFINE p == [j \in 0..(n - 1) |-> IF At[j] = nil THEN h ELSE At[j]]
  <2>1. {At[j] : j \in 0..(n - 1)} \ {nil} = F
    BY <1>6, <1>7
  <2>2. CASE F = {}
    BY <2>2, FS_EmptySet DEF K
  <2>3. CASE F # {}
    <3>1. h \in F
      BY <2>3, ListWithoutHead DEF ListOf, Follow
    <3>2. p \in [0..(n - 1) -> F]
      BY <2>1, <3>1
    <3>3. \A x \in F : \E j \in 0..(n - 1) : p[j] = x
      BY <2>1
    <3> HIDE DEF p
    <3>4. p \in Surjection(0..(n - 1), F)
      BY <3>2, <3>3 DEF Surjection
    <3>5. IsFiniteSet(0..(n - 1)) /\ Cardinality(0..(n - 1)) = n
      <4>1. n - 1 \in Int /\ 0 \in Int
        OBVIOUS
      <4>2. IsFiniteSet(0..(n - 1)) /\ Cardinality(0..(n - 1)) = IF 0 > n - 1 THEN 0 ELSE (n - 1) - 0 + 1
        BY <4>1, FS_Interval
      <4>3. QED
        BY <4>2
    <3>6. QED
      BY <3>4, <3>5, FS_Surjection DEF K
  <2>4. QED
    BY <2>2, <2>3
<1>8. \A n \in Nat : At[n] = nil <=> K <= n
  BY <1>0, <1>2, <1>5, <1>7
<1>9. \A N \in Nat : K <= N => {At[n] : n \in 0..N} \ {nil} = F
  BY <1>6, <1>8
<1>10. QED
  BY <1>1, <1>4, <1>8, <1>9 DEF K

(* The walk over a list that a recursive definition describes exists.      *)
LEMMA WalkExists ==
  ASSUME NEW F, NEW h, NEW f, NEW nil, Follow(F, h, f, nil)
  PROVE  \E g : g = [n \in Nat |-> IF n = 0 THEN h
                                  ELSE IF g[n - 1] = nil THEN nil ELSE f[g[n - 1]]]
<1> DEFINE S == F \cup {nil}
           Rec == {n \in Nat : n > 0}
           size == [n \in Nat |-> n]
           down == [n \in Nat |-> IF n = 0 THEN 0 ELSE n - 1]
           base == [n \in Nat |-> h]
           step == [q \in Nat \X S |-> IF q[2] = nil THEN nil ELSE f[q[2]]]
           Body(g, n) == IF n = 0 THEN h ELSE IF g[n - 1] = nil THEN nil ELSE f[g[n - 1]]
<1>1. Rec \in SUBSET Nat /\ size \in [Nat -> Nat] /\ down \in [Nat -> Nat] /\ base \in [Nat -> S]
  BY DEF Follow
<1>2. step \in [Nat \X S -> S]
  BY DEF Follow
<1>3. \A x \in Rec : size[down[x]] < size[x]
  OBVIOUS
<1>4. \A x \in Nat, y \in S : step[<<x, y>>] = IF y = nil THEN nil ELSE f[y]
  OBVIOUS
<1>5. \A x \in Nat : base[x] = h /\ (x \in Rec <=> x > 0) /\ (x > 0 => down[x] = x - 1)
  OBVIOUS
<1> HIDE DEF Rec, size, down, base, step, S
<1>6. PICK g : Follows(g, Nat, S, Rec, down, base, step)
  <2>1. Recursion(Nat, S, Rec, size, down, base, step)
    BY <1>1, <1>2, <1>3 DEF Recursion
  <2>2. QED
    BY <2>1, RecursiveFunction
<1>7. ASSUME NEW n \in Nat
      PROVE  g[n] = Body(g, n)
  <2>1. g[n] = IF n \in Rec THEN step[<<n, g[down[n]]>>] ELSE base[n]
    BY <1>6 DEF Follows
  <2>2. CASE n = 0
    BY <1>5, <2>1, <2>2
  <2>3. CASE n # 0
    <3>1. n - 1 \in Nat /\ n \in Rec /\ down[n] = n - 1
      BY <1>5, <2>3
    <3>2. g[n - 1] \in S
      BY <1>6, <3>1 DEF Follows
    <3>3. QED
      BY <1>4, <2>1, <2>3, <3>1, <3>2
  <2>4. QED
    BY <2>2, <2>3
<1>8. g = [n \in Nat |-> Body(g, n)]
  <2>1. g \in [Nat -> S]
    BY <1>6 DEF Follows
  <2> HIDE DEF Body
  <2>2. QED
    BY <1>7, <2>1
<1>9. QED
  BY <1>8 DEF Body

(* It is a walk. *)
LEMMA WalkIsWalk ==
  ASSUME NEW h, NEW f, NEW nil,
         NEW At, At = [n \in Nat |-> IF n = 0 THEN h
                                    ELSE IF At[n - 1] = nil THEN nil ELSE f[At[n - 1]]]
  PROVE  Walks(At, h, f, nil)
<1> DEFINE Body(g, n) == IF n = 0 THEN h ELSE IF g[n - 1] = nil THEN nil ELSE f[g[n - 1]]
<1>1. At = [n \in Nat |-> Body(At, n)]
  OBVIOUS
<1> HIDE DEF Body
<1>2. \A n \in Nat : At[n] = Body(At, n)
  BY <1>1
<1>3. At[0] = h
  BY <1>2 DEF Body
<1>4. ASSUME NEW n \in Nat PROVE At[n + 1] = IF At[n] = nil THEN nil ELSE f[At[n]]
  <2>1. n + 1 \in Nat /\ n + 1 # 0 /\ (n + 1) - 1 = n
    OBVIOUS
  <2>2. At[n + 1] = Body(At, n + 1)
    BY <1>2, <2>1
  <2>3. QED
    BY <2>1, <2>2 DEF Body
<1>5. QED
  BY <1>3, <1>4 DEF Walks

(* So is what a recursive definition chooses. *)
LEMMA WalkEquation ==
  ASSUME NEW F, NEW h, NEW f, NEW nil, Follow(F, h, f, nil),
         NEW At, At = CHOOSE g : g = [n \in Nat |->
                        IF n = 0 THEN h
                        ELSE IF g[n - 1] = nil THEN nil ELSE f[g[n - 1]]]
  PROVE  Walks(At, h, f, nil)
<1> DEFINE Body(g, n) == IF n = 0 THEN h ELSE IF g[n - 1] = nil THEN nil ELSE f[g[n - 1]]
<1>1. \E g : g = [n \in Nat |-> Body(g, n)]
  BY WalkExists
<1>2. At = CHOOSE g : g = [n \in Nat |-> Body(g, n)]
  OBVIOUS
<1> HIDE DEF Body
<1>3. At = [n \in Nat |-> Body(At, n)]
  BY <1>1, <1>2
<1>4. QED
  BY <1>3, WalkIsWalk DEF Body

(* A list has one last member at most, *)
LEMMA ListLast ==
  ASSUME NEW F, NEW h, NEW f, NEW nil, ListOf(F, h, f, nil), IsFiniteSet(F),
         NEW u \in F, NEW v \in F, f[u] = nil, f[v] = nil
  PROVE  u = v
<1>1. Follow(F, h, f, nil) /\ nil \notin F
  BY DEF ListOf
<1>2. PICK At : At = [n \in Nat |-> IF n = 0 THEN h
                                   ELSE IF At[n - 1] = nil THEN nil ELSE f[At[n - 1]]]
  BY <1>1, WalkExists
<1>3. Walks(At, h, f, nil)
  BY <1>2, WalkIsWalk
<1> DEFINE N == Cardinality(F)
<1>4. N \in Nat
  BY FS_CardinalityType
<1>5. /\ \A n \in Nat : At[n] = nil <=> N <= n
      /\ \A M \in Nat : N <= M => {At[n] : n \in 0..M} \ {nil} = F
  BY <1>3, ListWalk
<1> HIDE DEF N
<1>6. ASSUME NEW x \in F, f[x] = nil
      PROVE  N - 1 \in Nat /\ x = At[N - 1]
  <2>1. PICK n \in 0..N : x = At[n] /\ At[n] # nil
    BY <1>1, <1>4, <1>5
  <2>2. n \in Nat /\ n + 1 \in Nat /\ At[n + 1] = nil
    BY <1>3, <1>6, <2>1 DEF Walks
  <2>3. ~ (N <= n) /\ N <= n + 1
    BY <1>5, <2>1, <2>2
  <2>4. n = N - 1
    BY <1>4, <2>2, <2>3
  <2> QED
    BY <2>1, <2>2, <2>4
<1> QED
  BY <1>6

(* The links g are f, but for what ends the list. *)
EndsAt(g, end, F, f, nil) ==
  end \notin F /\ \A x \in F : g[x] = IF f[x] = nil THEN end ELSE f[x]

(* A list is one whatever its end is called. *)
LEMMA ListEndsAt ==
  ASSUME NEW F, NEW h, NEW f, NEW nil, ListOf(F, h, f, nil),
         NEW g, NEW end, EndsAt(g, end, F, f, nil)
  PROVE  ListOf(F, IF h = nil THEN end ELSE h, g, end)
<1> DEFINE head == IF h = nil THEN end ELSE h
<1>1. /\ nil \notin F /\ end \notin F /\ Follow(F, h, f, nil)
      /\ \A x \in F : g[x] = IF f[x] = nil THEN end ELSE f[x]
  BY DEF ListOf, EndsAt
<1>2. h = nil \/ h \in F
  BY <1>1 DEF Follow
<1>3. \A x \in F : f[x] = nil \/ f[x] \in F
  BY <1>1 DEF Follow
<1>4. Follow(F, head, g, end)
  BY <1>1, <1>2, <1>3 DEF Follow
<1>5. \A x \in F : g[x] = head => head = end
  BY <1>1, <1>2, <1>3 DEF ListOf
<1>6. \A x, y \in F : g[x] = g[y] /\ g[x] # end => x = y
  BY <1>1, <1>3 DEF ListOf
<1>7. ASSUME NEW T \in SUBSET F, Follow(T, head, g, end)
      PROVE  T = F
  <2>1. h = nil \/ h \in T
    BY <1>1, <1>2, <1>7 DEF Follow
  <2>2. \A x \in T : f[x] = nil \/ f[x] \in T
    BY <1>1, <1>3, <1>7 DEF Follow
  <2>3. Follow(T, h, f, nil)
    BY <2>1, <2>2 DEF Follow
  <2> QED
    BY <2>3 DEF ListOf
<1> HIDE DEF head
<1>8. ListOf(F, head, g, end)
  BY <1>1, <1>4, <1>5, <1>6, <1>7 DEF ListOf
<1> QED
  BY <1>8 DEF head

--------------------------------------------------------------------------------
(***************************************************************************)
(* The function that SumFunctionOnSet(f, S) applies to S, on the subsets   *)
(* of S.                                                                   *)
(***************************************************************************)
Sums(g, f, S) ==
  /\ IsFiniteSet(S) /\ \A x \in S : f[x] \in Int
  /\ g \in [SUBSET S -> Int]
  /\ \A T \in SUBSET S : g[T] = IF T = {} THEN 0
                                ELSE f[CHOOSE x \in T : TRUE] + g[T \ {CHOOSE x \in T : TRUE}]

(* There is such a function: SumFunctionOnSet is the value that it takes.  *)
LEMMA SumEquation ==
  ASSUME NEW f, NEW S, IsFiniteSet(S), \A x \in S : f[x] \in Int
  PROVE  \E g : Sums(g, f, S) /\ SumFunctionOnSet(f, S) = g[S]
<1> DEFINE D == SUBSET S
           Rec == D \ {{}}
           pick == [T \in D |-> CHOOSE x \in T : TRUE]
           size == [T \in D |-> Cardinality(T)]
           down == [T \in D |-> T \ {pick[T]}]
           base == [T \in D |-> 0]
           step == [p \in D \X Int |-> IF p[1] = {} THEN 0 ELSE f[pick[p[1]]] + p[2]]
<1>1. \A T \in D : Cardinality(T) \in Nat /\ IsFiniteSet(T)
  BY FS_CardinalityType, FS_Subset
<1>2. \A T \in Rec : pick[T] \in T
  OBVIOUS
<1>3. \A T \in Rec : size[down[T]] < size[T]
  <2> SUFFICES ASSUME NEW T \in Rec PROVE size[down[T]] < size[T]
    OBVIOUS
  <2> DEFINE x == pick[T]
  <2>1. x \in T /\ IsFiniteSet(T) /\ T \ {x} \in D /\ Cardinality(T) \in Nat
    BY <1>1, <1>2
  <2> HIDE DEF x
  <2>2. Cardinality(T \ {x}) = Cardinality(T) - 1
    BY <2>1, FS_RemoveElement
  <2>3. QED
    BY <2>1, <2>2 DEF x
<1>4. /\ Rec \in SUBSET D /\ size \in [D -> Nat] /\ down \in [D -> D]
      /\ base \in [D -> Int]
  BY <1>1
<1>5. step \in [D \X Int -> Int]
  <2>1. \A T \in D : T # {} => f[pick[T]] \in Int
    OBVIOUS
  <2>2. \A p \in D \X Int : p[1] \in D /\ p[2] \in Int
    OBVIOUS
  <2> HIDE DEF pick, D
  <2>3. QED
    BY <2>1, <2>2
<1>6. \A T \in D, n \in Int : T # {} => step[<<T, n>>] = f[pick[T]] + n
  OBVIOUS
<1>7. \A T \in D : /\ T \in Rec <=> T # {}
                   /\ base[T] = 0 /\ down[T] = T \ {pick[T]} /\ pick[T] = CHOOSE x \in T : TRUE
  OBVIOUS
<1> HIDE DEF Rec, pick, size, down, base, step
<1>8. PICK g : Follows(g, D, Int, Rec, down, base, step)
  <2>1. Recursion(D, Int, Rec, size, down, base, step)
    BY <1>3, <1>4, <1>5 DEF Recursion
  <2>2. QED
    BY <2>1, RecursiveFunction
<1>9. g \in [D -> Int] /\ \A T \in D : g[T] = IF T \in Rec THEN step[<<T, g[down[T]]>>] ELSE base[T]
  BY <1>8 DEF Follows
<1>10. ASSUME NEW T \in D
       PROVE  g[T] = IF T = {} THEN 0
                        ELSE f[CHOOSE x \in T : TRUE] + g[T \ {CHOOSE x \in T : TRUE}]
  <2>1. T \ {pick[T]} \in D
    OBVIOUS
  <2>2. g[T \ {pick[T]}] \in Int
    BY <1>9, <2>1
  <2>3. CASE T = {}
    BY <1>7, <1>9, <2>3
  <2>4. CASE T # {}
    <3>1. g[T] = f[pick[T]] + g[T \ {pick[T]}]
      <4>1. T \in Rec /\ down[T] = T \ {pick[T]}
        BY <1>7, <2>4
      <4>2. g[T] = step[<<T, g[T \ {pick[T]}]>>]
        BY <1>9, <4>1
      <4>3. QED
        BY <1>6, <2>2, <2>4, <4>2
    <3>2. QED
      BY <1>7, <2>4, <3>1
  <2>5. QED
    BY <2>3, <2>4
<1> DEFINE Body(h, T) == IF T = {} THEN 0
                         ELSE f[CHOOSE x \in T : TRUE] + h[T \ {CHOOSE x \in T : TRUE}]
           iter == CHOOSE h : h = [T \in D |-> Body(h, T)]
<1>11. \A T \in D : g[T] = Body(g, T)
  BY <1>10
<1>12. SumFunctionOnSet(f, S) = iter[S]
  BY DEF SumFunctionOnSet, FoldFunctionOnSet, MapThenFoldSet
<1> HIDE DEF Body
<1>13. g = [T \in D |-> Body(g, T)]
  BY <1>9, <1>11
<1>14. iter = [T \in D |-> Body(iter, T)]
  BY <1>13
<1> HIDE DEF iter
<1>15. \A T \in D : iter[T] = Body(iter, T)
  BY <1>14
<1>16. \A T \in D : iter[T] \in Int
  <2> DEFINE Bad == {n \in Nat : \E T \in D : Cardinality(T) = n /\ iter[T] \notin Int}
  <2>1. ASSUME Bad # {} PROVE FALSE
    <3>1. PICK n \in Bad : \A m \in Bad : n <= m
      BY <2>1, LeastNumber
    <3>2. PICK T \in D : Cardinality(T) = n /\ iter[T] \notin Int
      OBVIOUS
    <3>3. T # {}
      BY <1>15, <3>2 DEF Body
    <3> DEFINE x == CHOOSE x \in T : TRUE
    <3>4. x \in T /\ T \ {x} \in D /\ iter[T] = f[x] + iter[T \ {x}]
      BY <1>15, <3>3 DEF Body
    <3> HIDE DEF x
    <3>5. Cardinality(T \ {x}) = n - 1 /\ Cardinality(T \ {x}) \in Nat
      BY <1>1, <3>2, <3>4, FS_RemoveElement
    <3>6. iter[T \ {x}] \in Int
      BY <3>1, <3>4, <3>5
    <3>7. QED
      BY <3>2, <3>4, <3>6
  <2>2. QED
    BY <1>1, <2>1
<1>17. Sums(iter, f, S)
  <2>1. iter \in [D -> Int]
    BY <1>14, <1>16
  <2>2. QED
    BY <1>15, <2>1 DEF Sums, Body
<1>18. QED
  BY <1>12, <1>17

(* It takes a sum apart at any member. *)
LEMMA SumsTakeApart ==
  ASSUME NEW f, NEW S, NEW g, Sums(g, f, S), NEW W \in SUBSET S, NEW z \in W
  PROVE  g[W] = f[z] + g[W \ {z}]
<1> DEFINE D == SUBSET S
           Apart(T) == \A x \in T : g[T] = f[x] + g[T \ {x}]
           Bad == {n \in Nat : \E T \in D : Cardinality(T) = n /\ ~ Apart(T)}
<1>1. \A T \in D : Cardinality(T) \in Nat /\ IsFiniteSet(T)
  BY FS_CardinalityType, FS_Subset DEF Sums
<1>2. ASSUME Bad # {} PROVE FALSE
  <2>1. PICK n \in Bad : \A m \in Bad : n <= m
    BY <1>2, LeastNumber
  <2>2. PICK T \in D : Cardinality(T) = n /\ ~ Apart(T)
    OBVIOUS
  <2>3. PICK x \in T : g[T] # f[x] + g[T \ {x}]
    BY <2>2
  <2> DEFINE y == CHOOSE y \in T : TRUE
  <2>4. y \in T /\ g[T] = f[y] + g[T \ {y}]
    <3>1. y \in T /\ T # {}
      BY <2>3
    <3>2. QED
      BY <3>1 DEF Sums
  <2> HIDE DEF y
  <2>5. x # y
    BY <2>3, <2>4
  <2> DEFINE A == T \ {y}
             B == T \ {x}
             C == (T \ {y}) \ {x}
  <2>6. A \in D /\ B \in D /\ C \in D /\ x \in A /\ y \in B /\ A \ {x} = C /\ B \ {y} = C
    BY <2>2, <2>3, <2>4, <2>5
  <2>7. Cardinality(A) = n - 1 /\ Cardinality(B) = n - 1 /\ Cardinality(A) \in Nat
    <3>1. IsFiniteSet(T) /\ Cardinality(T) = n
      BY <1>1, <2>2
    <3>2. Cardinality(A) = n - 1 /\ Cardinality(B) = n - 1
      BY <2>3, <2>4, <3>1, FS_RemoveElement
    <3>3. QED
      BY <1>1, <2>6, <3>2
  <2>8. \A U \in D : Cardinality(U) = n - 1 => Apart(U)
    <3>1. n - 1 \in Nat /\ n \in Nat
      BY <2>7
    <3>2. n - 1 \notin Bad
      BY <2>1, <3>1
    <3> HIDE DEF Apart
    <3>3. QED
      BY <3>1, <3>2
  <2>9. Apart(A) /\ Apart(B)
    <3> HIDE DEF Apart, A, B
    <3>1. QED
      BY <2>6, <2>7, <2>8
  <2> HIDE DEF A, B, C
  <2>10. g[A] = f[x] + g[C] /\ g[B] = f[y] + g[C]
    BY <2>6, <2>9
  <2>11. f[x] \in Int /\ f[y] \in Int /\ g[C] \in Int
    BY <2>2, <2>3, <2>4, <2>6 DEF Sums
  <2>12. g[T] = f[y] + g[A] /\ g[T] # f[x] + g[B]
    BY <2>3, <2>4 DEF A, B
  <2>13. QED
    BY <2>10, <2>11, <2>12
<1>3. ASSUME NEW T \in D
      PROVE  Apart(T)
  <2>1. Cardinality(T) \in Nat /\ Cardinality(T) \notin Bad
    BY <1>1, <1>2
  <2> HIDE DEF Apart
  <2>2. QED
    BY <2>1
<1>4. QED
  BY <1>3, Zenon

(* Two functions that sum up, of terms that agree, agree. *)
LEMMA SumsOnce ==
  ASSUME NEW S, NEW R \in SUBSET S, NEW f, NEW g, Sums(g, f, S), NEW h, NEW e, Sums(h, e, R),
         Agree(e, f, R), NEW U \in SUBSET R
  PROVE  g[U] = h[U]
<1> DEFINE Bad == {n \in Nat : \E T \in SUBSET R : Cardinality(T) = n /\ g[T] # h[T]}
<1>1. IsFiniteSet(R) /\ \A T \in SUBSET R : Cardinality(T) \in Nat /\ IsFiniteSet(T)
  BY FS_CardinalityType, FS_Subset DEF Sums
<1>2. ASSUME Bad # {} PROVE FALSE
  <2>1. PICK n \in Bad : \A m \in Bad : n <= m
    BY <1>2, LeastNumber
  <2>2. PICK T \in SUBSET R : Cardinality(T) = n /\ g[T] # h[T]
    OBVIOUS
  <2>3. T # {}
    BY <2>2 DEF Sums
  <2>4. PICK x : x \in T
    BY <2>3
  <2>5. g[T] = f[x] + g[T \ {x}] /\ h[T] = f[x] + h[T \ {x}]
    <3>1. g[T] = f[x] + g[T \ {x}]
      BY <2>4, SumsTakeApart
    <3>2. h[T] = e[x] + h[T \ {x}]
      BY <2>4, SumsTakeApart
    <3>3. QED
      BY <2>4, <3>1, <3>2 DEF Agree
  <2>6. T \ {x} \in SUBSET R /\ Cardinality(T \ {x}) = n - 1 /\ n - 1 \in Nat
    <3>1. T \ {x} \in SUBSET R
      OBVIOUS
    <3>2. Cardinality(T \ {x}) = n - 1
      BY <1>1, <2>2, <2>4, FS_RemoveElement
    <3>3. QED
      BY <1>1, <3>1, <3>2
  <2>7. n - 1 \notin Bad
    BY <2>1, <2>6
  <2>8. g[T \ {x}] = h[T \ {x}]
    BY <2>6, <2>7
  <2>9. QED
    BY <2>2, <2>5, <2>8
<1>3. QED
  BY <1>1, <1>2

(***************************************************************************)
(* A sum over a finite set: it is a number, that of the empty set is 0, it *)
(* does not depend on terms outside, taking out a member takes away its    *)
(* term, and a sum of terms that are not negative is not negative.         *)
(***************************************************************************)
Numbers(f, S) == \A x \in S : f[x] \in Int

(* Sums of integers are integers. *)
LEMMA SumType ==
  ASSUME NEW f, NEW S, IsFiniteSet(S), Numbers(f, S)
  PROVE  SumFunctionOnSet(f, S) \in Int
<1>1. PICK g : Sums(g, f, S) /\ SumFunctionOnSet(f, S) = g[S]
  BY SumEquation DEF Numbers
<1>2. S \in SUBSET S
  OBVIOUS
<1>3. QED
  BY <1>1, <1>2 DEF Sums

(* The sum over the empty set. *)
LEMMA SumOfNone ==
  ASSUME NEW f
  PROVE  SumFunctionOnSet(f, {}) = 0
<1>1. IsFiniteSet({}) /\ {} \in SUBSET {} /\ \A x \in {} : f[x] \in Int
  BY FS_EmptySet
<1>2. PICK g : Sums(g, f, {}) /\ SumFunctionOnSet(f, {}) = g[{}]
  BY <1>1, SumEquation
<1>3. QED
  BY <1>1, <1>2 DEF Sums

(* The sum depends only on the values on S. *)
LEMMA SumStays ==
  ASSUME NEW S, IsFiniteSet(S), NEW f, Numbers(f, S), NEW e, Agree(e, f, S)
  PROVE  SumFunctionOnSet(e, S) = SumFunctionOnSet(f, S)
<1>1. PICK g : Sums(g, f, S) /\ SumFunctionOnSet(f, S) = g[S]
  BY SumEquation DEF Numbers
<1>2. PICK h : Sums(h, e, S) /\ SumFunctionOnSet(e, S) = h[S]
  <2>1. \A x \in S : e[x] \in Int
    BY DEF Numbers, Agree
  <2>2. QED
    BY <2>1, SumEquation
<1>3. S \in SUBSET S
  OBVIOUS
<1>4. g[S] = h[S]
  BY <1>1, <1>2, <1>3, SumsOnce
<1>5. QED
  BY <1>1, <1>2, <1>4

(* Any member may be added last. *)
LEMMA SumWithout ==
  ASSUME NEW S, IsFiniteSet(S), NEW f, Numbers(f, S), NEW x \in S
  PROVE  SumFunctionOnSet(f, S) = f[x] + SumFunctionOnSet(f, S \ {x})
<1> DEFINE R == S \ {x}
<1>1. R \in SUBSET S /\ S \in SUBSET S /\ R \in SUBSET R /\ IsFiniteSet(R)
  BY FS_Subset
<1>2. \A y \in R : f[y] \in Int
  BY DEF Numbers
<1>3. PICK g : Sums(g, f, S) /\ SumFunctionOnSet(f, S) = g[S]
  BY SumEquation DEF Numbers
<1>4. PICK h : Sums(h, f, R) /\ SumFunctionOnSet(f, R) = h[R]
  BY <1>1, <1>2, SumEquation
<1>5. g[S] = f[x] + g[R]
  BY <1>1, <1>3, SumsTakeApart
<1>6. g[R] = h[R]
  <2> HIDE DEF R
  <2>1. Agree(f, f, R)
    BY DEF Agree
  <2>2. QED
    BY <1>1, <1>3, <1>4, <2>1, SumsOnce
<1>7. QED
  BY <1>3, <1>4, <1>5, <1>6

(* A sum with one more member. *)
LEMMA SumWith ==
  ASSUME NEW S, IsFiniteSet(S), NEW f, NEW x, x \notin S, Numbers(f, S), f[x] \in Int
  PROVE  SumFunctionOnSet(f, S \cup {x}) = f[x] + SumFunctionOnSet(f, S)
<1>1. IsFiniteSet(S \cup {x}) /\ (S \cup {x}) \ {x} = S
  BY FS_AddElement
<1>2. x \in S \cup {x} /\ Numbers(f, S \cup {x})
  BY DEF Numbers
<1>3. QED
  BY <1>1, <1>2, SumWithout

(* The sum of one amount. *)
LEMMA SumOfOne ==
  ASSUME NEW f, NEW x, f[x] \in Int
  PROVE  SumFunctionOnSet(f, {x}) = f[x]
<1>1. IsFiniteSet({}) /\ Numbers(f, {}) /\ x \notin {}
  BY FS_EmptySet DEF Numbers
<1>2. SumFunctionOnSet(f, {} \cup {x}) = f[x] + SumFunctionOnSet(f, {})
  BY <1>1, SumWith
<1> QED
  BY <1>2, SumOfNone

(* Sums of natural numbers are natural numbers. *)
LEMMA SumNotNegative ==
  ASSUME NEW S, IsFiniteSet(S), NEW f, \A x \in S : f[x] \in Nat
  PROVE  SumFunctionOnSet(f, S) \in Nat
<1>1. PICK g : Sums(g, f, S) /\ SumFunctionOnSet(f, S) = g[S]
  BY SumEquation
<1> DEFINE Bad == {n \in Nat : \E T \in SUBSET S : Cardinality(T) = n /\ g[T] \notin Nat}
<1>2. \A T \in SUBSET S : Cardinality(T) \in Nat /\ IsFiniteSet(T)
  BY FS_CardinalityType, FS_Subset
<1>3. ASSUME Bad # {} PROVE FALSE
  <2>1. PICK n \in Bad : \A m \in Bad : n <= m
    BY <1>3, LeastNumber
  <2>2. PICK T \in SUBSET S : Cardinality(T) = n /\ g[T] \notin Nat
    OBVIOUS
  <2>3. g[{}] = 0 /\ T # {}
    BY <1>1, <2>2 DEF Sums
  <2>4. PICK x : x \in T
    BY <2>3
  <2>5. g[T] = f[x] + g[T \ {x}]
    BY <1>1, <2>4, SumsTakeApart
  <2>6. T \ {x} \in SUBSET S /\ Cardinality(T \ {x}) = n - 1 /\ n - 1 \in Nat
    <3>1. Cardinality(T \ {x}) = Cardinality(T) - 1
      BY <1>2, <2>4, FS_RemoveElement
    <3>2. T \ {x} \in SUBSET S
      OBVIOUS
    <3>3. QED
      BY <1>2, <2>2, <3>1, <3>2
  <2>7. n - 1 \notin Bad
    <3>1. n \in Nat /\ ~ (n <= n - 1)
      BY <2>6
    <3>2. QED
      BY <2>1, <3>1
  <2>8. g[T \ {x}] \in Nat
    BY <2>6, <2>7
  <2>9. x \in S
    BY <2>4
  <2>10. QED
    BY <2>2, <2>5, <2>8, <2>9
<1>4. S \in SUBSET S
  OBVIOUS
<1>5. Cardinality(S) \notin Bad /\ Cardinality(S) \in Nat
  BY <1>2, <1>3, <1>4
<1>6. QED
  BY <1>1, <1>4, <1>5

(* Induction over the finite sets: Q, which has the empty set and, with    *)
(* each set it has, the sets of one member more, has S.                    *)
Grows(Q, S) == {} \in Q /\ \A T \in SUBSET S, x \in S : T \in Q /\ x \notin T => T \cup {x} \in Q

(* By LeastNumber, for the least size of a set that Q lacks. *)
LEMMA FiniteAscend ==
  ASSUME NEW S, IsFiniteSet(S), NEW Q, Grows(Q, S)
  PROVE  S \in Q
<1> DEFINE Bad == {n \in Nat : \E T \in SUBSET S : Cardinality(T) = n /\ T \notin Q}
<1>1. \A T \in SUBSET S : Cardinality(T) \in Nat /\ IsFiniteSet(T)
  BY FS_CardinalityType, FS_Subset
<1>2. ASSUME Bad # {} PROVE FALSE
  <2>1. PICK n \in Bad : \A m \in Bad : n <= m
    BY <1>2, LeastNumber
  <2>2. PICK T \in SUBSET S : Cardinality(T) = n /\ T \notin Q
    OBVIOUS
  <2>3. PICK x : x \in T
    BY <2>2 DEF Grows
  <2>4. T \ {x} \in SUBSET S /\ x \in S /\ x \notin T \ {x} /\ (T \ {x}) \cup {x} = T
    BY <2>3
  <2>5. Cardinality(T \ {x}) = n - 1 /\ n - 1 \in Nat
    <3>1. Cardinality(T \ {x}) = Cardinality(T) - 1
      BY <1>1, <2>3, FS_RemoveElement
    <3>2. QED
      BY <1>1, <2>2, <2>4, <3>1
  <2>6. n - 1 \notin Bad
    <3>1. n \in Nat /\ ~ (n <= n - 1)
      BY <2>5
    <3>2. QED
      BY <2>1, <3>1
  <2>7. T \ {x} \in Q
    BY <2>4, <2>5, <2>6
  <2>8. QED
    BY <2>2, <2>4, <2>7 DEF Grows
<1>3. S \in SUBSET S
  OBVIOUS
<1>4. Cardinality(S) \notin Bad /\ Cardinality(S) \in Nat
  BY <1>1, <1>2, <1>3
<1>5. QED
  BY <1>3, <1>4

(* The sum over two sets without a common member. *)
LEMMA SumOfParts ==
  ASSUME NEW P, NEW R, IsFiniteSet(P), IsFiniteSet(R), P \cap R = {},
         NEW f, Numbers(f, P \cup R)
  PROVE  SumFunctionOnSet(f, P \cup R) = SumFunctionOnSet(f, P) + SumFunctionOnSet(f, R)
<1> DEFINE Q == {T \in SUBSET P : SumFunctionOnSet(f, T \cup R) =
                                    SumFunctionOnSet(f, T) + SumFunctionOnSet(f, R)}
<1>1. SumFunctionOnSet(f, R) \in Int
  BY SumType DEF Numbers
<1>2. {} \in Q
  <2>1. {} \cup R = R /\ SumFunctionOnSet(f, {}) = 0
    BY SumOfNone
  <2>2. QED
    BY <1>1, <2>1
<1>3. ASSUME NEW T \in SUBSET P, NEW x \in P, T \in Q, x \notin T
      PROVE  T \cup {x} \in Q
  <2>1. IsFiniteSet(T) /\ IsFiniteSet(T \cup R)
    BY FS_Subset, FS_Union
  <2>2. Numbers(f, T) /\ Numbers(f, T \cup R) /\ f[x] \in Int
    BY DEF Numbers
  <2>3. x \notin T \cup R /\ (T \cup {x}) \cup R = (T \cup R) \cup {x}
    BY <1>3
  <2>4. SumFunctionOnSet(f, (T \cup R) \cup {x}) = f[x] + SumFunctionOnSet(f, T \cup R)
    BY <2>1, <2>2, <2>3, SumWith
  <2>5. SumFunctionOnSet(f, T \cup {x}) = f[x] + SumFunctionOnSet(f, T)
    BY <1>3, <2>1, <2>2, SumWith
  <2>6. SumFunctionOnSet(f, T) \in Int
    BY <2>1, <2>2, SumType
  <2>7. SumFunctionOnSet(f, T \cup R) = SumFunctionOnSet(f, T) + SumFunctionOnSet(f, R)
    BY <1>3
  <2>8. SumFunctionOnSet(f, (T \cup {x}) \cup R) = f[x] + SumFunctionOnSet(f, T \cup R)
    BY <2>3, <2>4
  <2>9. SumFunctionOnSet(f, (T \cup {x}) \cup R) =
          SumFunctionOnSet(f, T \cup {x}) + SumFunctionOnSet(f, R)
    BY <1>1, <2>2, <2>5, <2>6, <2>7, <2>8
  <2>10. QED
    BY <2>9
<1> HIDE DEF Q
<1>4. Grows(Q, P)
  BY <1>2, <1>3 DEF Grows
<1>5. P \in Q
  BY <1>4, FiniteAscend
<1>6. QED
  BY <1>5 DEF Q

(* The sum of differences, and of equal numbers. *)
LEMMA SumOfDifferences ==
  ASSUME NEW S, IsFiniteSet(S), NEW e, NEW f, Numbers(e, S), Numbers(f, S),
         NEW g, \A x \in S : g[x] = e[x] - f[x]
  PROVE  SumFunctionOnSet(g, S) = SumFunctionOnSet(e, S) - SumFunctionOnSet(f, S)
<1> DEFINE Q == {T \in SUBSET S : SumFunctionOnSet(g, T) =
                                    SumFunctionOnSet(e, T) - SumFunctionOnSet(f, T)}
<1>1. {} \in Q
  BY SumOfNone
<1>2. ASSUME NEW T \in SUBSET S, NEW x \in S, T \in Q, x \notin T
      PROVE  T \cup {x} \in Q
  <2>1. IsFiniteSet(T) /\ Numbers(e, T) /\ Numbers(f, T) /\ Numbers(g, T)
    BY FS_Subset DEF Numbers
  <2>2. e[x] \in Int /\ f[x] \in Int /\ g[x] = e[x] - f[x]
    BY DEF Numbers
  <2>3. g[x] \in Int
    BY <2>2
  <2>4. /\ SumFunctionOnSet(e, T \cup {x}) = e[x] + SumFunctionOnSet(e, T)
        /\ SumFunctionOnSet(f, T \cup {x}) = f[x] + SumFunctionOnSet(f, T)
        /\ SumFunctionOnSet(g, T \cup {x}) = g[x] + SumFunctionOnSet(g, T)
    BY <1>2, <2>1, <2>2, <2>3, SumWith
  <2>5. SumFunctionOnSet(e, T) \in Int /\ SumFunctionOnSet(f, T) \in Int
    BY <2>1, SumType
  <2>6. SumFunctionOnSet(g, T) = SumFunctionOnSet(e, T) - SumFunctionOnSet(f, T)
    BY <1>2
  <2>7. SumFunctionOnSet(g, T \cup {x}) =
          SumFunctionOnSet(e, T \cup {x}) - SumFunctionOnSet(f, T \cup {x})
    BY <2>2, <2>4, <2>5, <2>6
  <2>8. QED
    BY <2>7
<1> HIDE DEF Q
<1>3. Grows(Q, S)
  BY <1>1, <1>2 DEF Grows
<1>4. S \in Q
  BY <1>3, FiniteAscend
<1>5. QED
  BY <1>4 DEF Q

(* The sum of equal numbers. *)
LEMMA SumOfEquals ==
  ASSUME NEW S, IsFiniteSet(S), NEW k \in Int, NEW f, \A x \in S : f[x] = k
  PROVE  SumFunctionOnSet(f, S) = k * Cardinality(S)
<1> DEFINE Q == {T \in SUBSET S : SumFunctionOnSet(f, T) = k * Cardinality(T)}
<1>1. {} \in Q
  <2>1. SumFunctionOnSet(f, {}) = 0 /\ Cardinality({}) = 0
    BY SumOfNone, FS_EmptySet
  <2>2. QED
    BY <2>1
<1>2. ASSUME NEW T \in SUBSET S, NEW x \in S, T \in Q, x \notin T
      PROVE  T \cup {x} \in Q
  <2>1. IsFiniteSet(T) /\ Numbers(f, T) /\ f[x] \in Int /\ f[x] = k
    BY FS_Subset DEF Numbers
  <2>2. SumFunctionOnSet(f, T \cup {x}) = f[x] + SumFunctionOnSet(f, T)
    BY <1>2, <2>1, SumWith
  <2>3. Cardinality(T) \in Nat /\ Cardinality(T \cup {x}) = Cardinality(T) + 1
    BY <1>2, <2>1, FS_CardinalityType, FS_AddElement
  <2>4. \A n \in Nat : k + k * n = k * (n + 1)
    OBVIOUS
  <2>5. SumFunctionOnSet(f, T \cup {x}) = k * Cardinality(T \cup {x})
    <3>1. SumFunctionOnSet(f, T) = k * Cardinality(T)
      BY <1>2
    <3>2. QED
      BY <2>1, <2>2, <2>3, <2>4, <3>1
  <2>6. QED
    BY <2>5
<1> HIDE DEF Q
<1>3. Grows(Q, S)
  BY <1>1, <1>2 DEF Grows
<1>4. S \in Q
  BY <1>3, FiniteAscend
<1>5. QED
  BY <1>4 DEF Q

(* The sum of the values of a function, each of which it takes once.       *)
Itself == [n \in Nat |-> n]

(* Its values, each once, have the sum that it has. *)
LEMMA SumOfValues ==
  ASSUME NEW S, IsFiniteSet(S), NEW f, \A x \in S : f[x] \in Nat,
         \A x, y \in S : f[x] = f[y] => x = y
  PROVE  SumFunctionOnSet(Itself, {f[x] : x \in S}) = SumFunctionOnSet(f, S)
<1> DEFINE Image(T) == {f[x] : x \in T}
           Q == {T \in SUBSET S : /\ IsFiniteSet(Image(T))
                                  /\ SumFunctionOnSet(Itself, Image(T)) = SumFunctionOnSet(f, T)}
<1>1. {} \in Q
  <2>1. Image({}) = {}
    OBVIOUS
  <2> HIDE DEF Image
  <2>2. SumFunctionOnSet(Itself, {}) = 0 /\ SumFunctionOnSet(f, {}) = 0 /\ IsFiniteSet({})
    BY SumOfNone, FS_EmptySet
  <2>3. QED
    BY <2>1, <2>2
<1>2. ASSUME NEW T \in SUBSET S, NEW x \in S, T \in Q, x \notin T
      PROVE  T \cup {x} \in Q
  <2>1. Image(T \cup {x}) = Image(T) \cup {f[x]} /\ f[x] \notin Image(T)
    BY <1>2
  <2>2. IsFiniteSet(T) /\ Numbers(f, T) /\ f[x] \in Nat /\ f[x] \in Int
    BY FS_Subset DEF Numbers
  <2>3. IsFiniteSet(Image(T)) /\ Numbers(Itself, Image(T)) /\ Itself[f[x]] = f[x]
    BY <1>2 DEF Numbers, Itself
  <2> HIDE DEF Image
  <2>4. SumFunctionOnSet(Itself, Image(T) \cup {f[x]}) = f[x] + SumFunctionOnSet(Itself, Image(T))
    BY <2>1, <2>2, <2>3, SumWith
  <2>5. SumFunctionOnSet(f, T \cup {x}) = f[x] + SumFunctionOnSet(f, T)
    BY <1>2, <2>2, SumWith
  <2>6. IsFiniteSet(Image(T) \cup {f[x]})
    BY <2>3, FS_AddElement
  <2>7. QED
    BY <1>2, <2>1, <2>4, <2>5, <2>6
<1> HIDE DEF Q
<1>3. Grows(Q, S)
  BY <1>1, <1>2 DEF Grows
<1>4. S \in Q
  BY <1>3, FiniteAscend
<1>5. QED
  BY <1>4 DEF Q

--------------------------------------------------------------------------------
(***************************************************************************)
(* What a loop over a list adds up: R[x] is the sum from x on.             *)
(***************************************************************************)
AddsUp(R, F, f, nil, a) ==
  R = [x \in F \cup {nil} |-> IF x = nil THEN 0 ELSE a[x] + R[f[x]]]

(* By RecursiveFunction: on the way through the list less is left.         *)
LEMMA ListAddsUp ==
  ASSUME NEW F, NEW h, NEW f, NEW nil, ListOf(F, h, f, nil), IsFiniteSet(F),
         NEW a, Numbers(a, F)
  PROVE  \E R : AddsUp(R, F, f, nil, a)
<1>1. Follow(F, h, f, nil) /\ nil \notin F
  BY DEF ListOf
<1>2. PICK At : At = [n \in Nat |-> IF n = 0 THEN h
                                   ELSE IF At[n - 1] = nil THEN nil ELSE f[At[n - 1]]]
  BY <1>1, WalkExists
<1>3. Walks(At, h, f, nil)
  BY <1>2, WalkIsWalk
<1> DEFINE N == Cardinality(F)
           Place(x) == CHOOSE n \in 0..N : At[n] = x
           D == F \cup {nil}
           size == [x \in D |-> IF x = nil THEN 0 ELSE N - Place(x)]
           down == [x \in D |-> IF x = nil THEN nil ELSE f[x]]
           base == [x \in D |-> 0]
           step == [q \in D \X Int |-> IF q[1] = nil THEN 0 ELSE a[q[1]] + q[2]]
<1>4. N \in Nat
  BY FS_CardinalityType
<1>5. /\ \A n \in Nat : At[n] = nil <=> N <= n
      /\ \A m, n \in Nat : At[m] = At[n] /\ At[m] # nil => m = n
      /\ \A M \in Nat : N <= M => {At[n] : n \in 0..M} \ {nil} = F
  BY <1>3, ListWalk
<1> HIDE DEF N
<1>6. ASSUME NEW x \in F
      PROVE  Place(x) \in 0..N /\ At[Place(x)] = x /\ Place(x) < N
  <2>1. PICK n \in 0..N : At[n] = x
    BY <1>1, <1>4, <1>5
  <2>2. Place(x) \in 0..N /\ At[Place(x)] = x
    BY <2>1
  <2> HIDE DEF Place
  <2>3. Place(x) \in Nat /\ ~ (N <= Place(x))
    BY <1>1, <1>4, <1>5, <2>2
  <2> QED
    BY <1>4, <2>2, <2>3
<1>7. ASSUME NEW x \in F, f[x] # nil
      PROVE  f[x] \in F /\ Place(f[x]) = Place(x) + 1
  <2>1. f[x] \in F
    BY <1>1, <1>7 DEF Follow
  <2>2. /\ Place(x) \in Nat /\ Place(f[x]) \in Nat /\ Place(x) + 1 \in Nat
        /\ At[Place(x)] = x /\ At[Place(f[x])] = f[x]
    BY <1>4, <1>6, <2>1
  <2> HIDE DEF Place
  <2>3. At[Place(x) + 1] = f[x]
    BY <1>1, <1>3, <2>2 DEF Walks
  <2> QED
    BY <1>5, <1>7, <2>1, <2>2, <2>3
<1> HIDE DEF Place
<1>8. \A x \in F : size[x] = N - Place(x) /\ size[x] \in Nat /\ size[x] > 0
  BY <1>1, <1>4, <1>6
<1>9. size[nil] = 0
  OBVIOUS
<1>10. size \in [D -> Nat]
  <2>1. \A x \in D : (IF x = nil THEN 0 ELSE N - Place(x)) \in Nat
    BY <1>4, <1>6
  <2> QED
    BY <2>1
<1>11. ASSUME NEW x \in F
       PROVE  down[x] = f[x] /\ down[x] \in D /\ size[down[x]] < size[x]
  <2>1. down[x] = f[x] /\ f[x] \in D
    BY <1>1 DEF Follow
  <2>2. CASE f[x] = nil
    <3> HIDE DEF size, down
    <3> QED
      BY <1>8, <1>9, <2>1, <2>2
  <2>3. CASE f[x] # nil
    <3>1. f[x] \in F /\ Place(f[x]) = Place(x) + 1 /\ Place(x) \in Nat
      BY <1>4, <1>6, <1>7, <2>3
    <3>2. size[f[x]] = N - (Place(x) + 1) /\ size[x] = N - Place(x)
      BY <1>8, <3>1
    <3> HIDE DEF size, down
    <3> QED
      BY <1>4, <2>1, <3>1, <3>2
  <2> QED
    BY <2>2, <2>3
<1>12. down \in [D -> D]
  <2>1. \A x \in D : (IF x = nil THEN nil ELSE f[x]) \in D
    BY <1>1 DEF Follow
  <2> QED
    BY <2>1
<1>13. base \in [D -> Int] /\ step \in [D \X Int -> Int]
  <2>1. \A x \in D, s \in Int : (IF x = nil THEN 0 ELSE a[x] + s) \in Int
    BY DEF Numbers
  <2> QED
    BY <2>1
<1>14. \A x \in F, s \in Int : step[<<x, s>>] = a[x] + s
  BY <1>1
<1>15. \A x \in D : base[x] = 0
  OBVIOUS
<1> HIDE DEF size, down, base, step
<1>16. PICK R : Follows(R, D, Int, F, down, base, step)
  <2>1. Recursion(D, Int, F, size, down, base, step)
    BY <1>10, <1>11, <1>12, <1>13 DEF Recursion
  <2> QED
    BY <2>1, RecursiveFunction
<1>17. ASSUME NEW x \in D
       PROVE  R[x] = IF x = nil THEN 0 ELSE a[x] + R[f[x]]
  <2>1. R \in [D -> Int] /\ R[x] = IF x \in F THEN step[<<x, R[down[x]]>>] ELSE base[x]
    BY <1>16 DEF Follows
  <2>2. CASE x = nil
    BY <1>1, <1>15, <2>1, <2>2
  <2>3. CASE x # nil
    <3>1. x \in F /\ down[x] = f[x] /\ f[x] \in D
      BY <1>11, <2>3
    <3>2. R[f[x]] \in Int
      BY <2>1, <3>1
    <3> QED
      BY <1>14, <2>1, <2>3, <3>1, <3>2
  <2> QED
    BY <2>2, <2>3
<1>18. R = [x \in D |-> R[x]]
  BY <1>16 DEF Follows
<1> QED
  BY <1>17, <1>18 DEF AddsUp

(* It is the sum over the members. *)
LEMMA ListSum ==
  ASSUME NEW F, NEW h, NEW f, NEW nil, ListOf(F, h, f, nil), IsFiniteSet(F),
         NEW a, Numbers(a, F), NEW R, AddsUp(R, F, f, nil, a)
  PROVE  R[h] = SumFunctionOnSet(a, F)
<1>0. \A x \in F \cup {nil} : R[x] = IF x = nil THEN 0 ELSE a[x] + R[f[x]]
  BY DEF AddsUp
<1> DEFINE Wrong(G, x) == ListOf(G, x, f, nil) /\ R[x] # SumFunctionOnSet(a, G)
           Bad == {n \in Nat : \E G \in SUBSET F : \E x : Cardinality(G) = n /\ Wrong(G, x)}
<1>1. \A G \in SUBSET F : IsFiniteSet(G) /\ Cardinality(G) \in Nat
  BY FS_Subset, FS_CardinalityType
<1> SUFFICES ASSUME R[h] # SumFunctionOnSet(a, F) PROVE FALSE
  OBVIOUS
<1>2. Cardinality(F) \in Bad
  BY <1>1
<1>3. PICK n \in Bad : \A m \in Bad : n <= m
  BY <1>2, LeastNumber
<1>4. PICK G \in SUBSET F : \E x : Cardinality(G) = n /\ Wrong(G, x)
  OBVIOUS
<1>5. PICK x : Cardinality(G) = n /\ ListOf(G, x, f, nil) /\ R[x] # SumFunctionOnSet(a, G)
  BY <1>4
<1>6. x # nil
  <2> SUFFICES ASSUME x = nil PROVE FALSE
    OBVIOUS
  <2>1. G = {}
    BY <1>5, ListWithoutHead
  <2>2. R[nil] = 0
    BY <1>0
  <2> QED
    BY <1>5, <2>1, <2>2, SumOfNone
<1>7. x \in G /\ ListOf(G \ {x}, f[x], f, nil)
  <2>1. Agree(f, f, G \ {x})
    BY DEF Agree
  <2> QED
    BY <1>5, <1>6, <2>1, ListPop
<1>8. /\ G \ {x} \in SUBSET F /\ IsFiniteSet(G)
      /\ Cardinality(G \ {x}) = n - 1 /\ Cardinality(G \ {x}) \in Nat
  BY <1>1, <1>5, <1>7, FS_RemoveElement
<1>9. R[f[x]] = SumFunctionOnSet(a, G \ {x})
  <2>1. n \in Nat /\ ~ (n <= n - 1)
    OBVIOUS
  <2>2. Cardinality(G \ {x}) \notin Bad
    BY <1>3, <1>8, <2>1
  <2> QED
    BY <1>7, <1>8, <2>2
<1>10. R[x] = a[x] + R[f[x]]
  BY <1>0, <1>6, <1>7
<1>11. SumFunctionOnSet(a, G) = a[x] + SumFunctionOnSet(a, G \ {x})
  <2>1. Numbers(a, G)
    BY DEF Numbers
  <2> QED
    BY <1>7, <1>8, <2>1, SumWithout
<1> QED
  BY <1>5, <1>9, <1>10, <1>11

--------------------------------------------------------------------------------
(* The links f and p of the members F are each other's inverse. *)
Doubly(F, f, p, nil) ==
  /\ nil \notin F
  /\ \A x \in F : f[x] \in F \cup {nil} /\ p[x] \in F \cup {nil}
  /\ \A x, y \in F : f[x] = y <=> p[y] = x

(* A new member b before the head h. *)
LEMMA DoublyPush ==
  ASSUME NEW F, NEW f, NEW p, NEW nil, Doubly(F, f, p, nil), NEW h \in F, p[h] = nil,
         NEW b, b \notin F, b # nil,
         NEW g, g[b] = h, Agree(g, f, F),
         NEW q, q[b] = nil, q[h] = b, Agree(q, p, F \ {h})
  PROVE  Doubly(F \cup {b}, g, q, nil)
<1> USE DEF Agree
<1>1. \A x \in F : f[x] # h
  BY DEF Doubly
<1>2. ASSUME NEW x \in F, NEW y \in F PROVE g[x] = y <=> q[y] = x
  BY <1>1 DEF Doubly
<1>3. ASSUME NEW x \in F
      PROVE  (g[x] = b <=> q[b] = x) /\ (g[b] = x <=> q[x] = b)
  BY DEF Doubly
<1>4. g[b] # b /\ q[b] # b
  OBVIOUS
<1>5. \A x \in F \cup {b} : g[x] \in F \cup {b, nil} /\ q[x] \in F \cup {b, nil}
  BY DEF Doubly
<1>6. QED
  BY <1>2, <1>3, <1>4, <1>5 DEF Doubly

(* A new member b after the head h. *)
LEMMA DoublyInsert ==
  ASSUME NEW F, NEW f, NEW p, NEW nil, Doubly(F, f, p, nil), NEW h \in F, p[h] = nil,
         NEW b, b \notin F, b # nil,
         NEW g, g[b] = f[h], g[h] = b, Agree(g, f, F \ {h}),
         NEW q, q[b] = h, f[h] \in F => q[f[h]] = b, Agree(q, p, F \ {f[h]})
  PROVE  Doubly(F \cup {b}, g, q, nil)
<1> USE DEF Agree
<1>1. \A x \in F : f[x] # h /\ f[x] # b /\ p[x] # b
  BY DEF Doubly
<1>2. ASSUME NEW x \in F, NEW y \in F PROVE g[x] = y <=> q[y] = x
  BY <1>1 DEF Doubly
<1>3. ASSUME NEW x \in F
      PROVE  (g[x] = b <=> q[b] = x) /\ (g[b] = x <=> q[x] = b)
  BY <1>1 DEF Doubly
<1>4. g[b] # b /\ q[b] # b
  BY <1>1
<1>5. \A x \in F \cup {b} : g[x] \in F \cup {b, nil} /\ q[x] \in F \cup {b, nil}
  BY DEF Doubly
<1>6. QED
  BY <1>2, <1>3, <1>4, <1>5 DEF Doubly

(* Without a member b that is not the head. *)
LEMMA DoublyRemove ==
  ASSUME NEW F, NEW f, NEW p, NEW nil, Doubly(F, f, p, nil), NEW b \in F, p[b] \in F,
         p[b] # b,
         NEW g, g[p[b]] = f[b], Agree(g, f, F \ {b, p[b]}),
         NEW q, f[b] \in F => q[f[b]] = p[b], Agree(q, p, F \ {b, f[b]})
  PROVE  Doubly(F \ {b}, g, q, nil)
<1> USE DEF Agree
<1>1. \A x \in F : (f[x] = b <=> x = p[b]) /\ (p[x] = b <=> x = f[b]) /\ f[b] # b
  BY DEF Doubly
<1>2. ASSUME NEW x \in F \ {b}, NEW y \in F \ {b} PROVE g[x] = y <=> q[y] = x
  <2>1. CASE x = p[b]
    BY <1>1, <2>1 DEF Doubly
  <2>2. CASE x # p[b]
    BY <1>1, <2>2 DEF Doubly
  <2>3. QED
    BY <2>1, <2>2
<1>3. \A x \in F \ {b} : g[x] \in (F \ {b}) \cup {nil} /\ q[x] \in (F \ {b}) \cup {nil}
  BY <1>1 DEF Doubly
<1>4. QED
  BY <1>2, <1>3 DEF Doubly

(* A member a is replaced by b, in the links to it also. *)
LEMMA DoublyRename ==
  ASSUME NEW F, NEW f, NEW p, NEW nil, Doubly(F, f, p, nil), NEW a \in F,
         NEW b, b # nil, b \notin F \ {a},
         NEW g, Renames(g, f, F, a, b), NEW q, Renames(q, p, F, a, b)
  PROVE  Doubly((F \ {a}) \cup {b}, g, q, nil)
<1> DEFINE G == (F \ {a}) \cup {b}
           R(x) == IF x = a THEN b ELSE x
<1>1. /\ \A x \in F : R(x) \in G /\ R(x) # nil /\ g[R(x)] = R(f[x]) /\ q[R(x)] = R(p[x])
      /\ R(nil) = nil
  BY DEF Doubly, Renames
<1>2. \A y \in G : \E x \in F : y = R(x)
  OBVIOUS
<1>3. \A x, y \in F \cup {nil} : R(x) = R(y) => x = y
  BY DEF Doubly
<1>4. nil \notin G
  BY DEF Doubly
<1>5. ASSUME NEW u \in G, NEW w \in G PROVE g[u] = w <=> q[w] = u
  <2>1. PICK x \in F : u = R(x)
    BY <1>2
  <2>2. PICK y \in F : w = R(y)
    BY <1>2
  <2>3. f[x] \in F \cup {nil} /\ p[y] \in F \cup {nil} /\ (f[x] = y <=> p[y] = x)
    BY DEF Doubly
  <2>4. g[u] = R(f[x]) /\ q[w] = R(p[y])
    BY <1>1, <2>1, <2>2
  <2> HIDE DEF R
  <2>5. g[u] = w <=> f[x] = y
    BY <1>3, <2>2, <2>3, <2>4
  <2>6. q[w] = u <=> p[y] = x
    BY <1>3, <2>1, <2>3, <2>4
  <2>7. QED
    BY <2>3, <2>5, <2>6
<1>6. \A u \in G : g[u] \in G \cup {nil} /\ q[u] \in G \cup {nil}
  BY <1>1, <1>2 DEF Doubly
<1>7. QED
  BY <1>4, <1>5, <1>6 DEF Doubly

--------------------------------------------------------------------------------
(* The definition of Power2, as a fact. *)
LEMMA Power2Equation ==
  \A n \in Nat : Power2[n] = IF n = 0 THEN 1 ELSE 2 * Power2[n - 1]
<1> DEFINE Rec == Nat \ {0}
           size == [n \in Nat |-> n]
           down == [n \in Nat |-> IF n = 0 THEN 0 ELSE n - 1]
           base == [n \in Nat |-> 1]
           step == [p \in Nat \X Nat |-> 2 * p[2]]
<1>a. Rec \in SUBSET Nat /\ size \in [Nat -> Nat] /\ down \in [Nat -> Nat]
  OBVIOUS
<1>b. base \in [Nat -> Nat] /\ step \in [Nat \X Nat -> Nat]
  OBVIOUS
<1>c. \A x \in Rec : size[down[x]] < size[x]
  OBVIOUS
<1>2. \A x, y \in Nat : step[<<x, y>>] = 2 * y
  OBVIOUS
<1>3. \A x \in Nat : base[x] = 1 /\ (x \in Rec <=> x # 0) /\ (x # 0 => down[x] = x - 1)
  OBVIOUS
<1> HIDE DEF Rec, size, down, base, step
<1>4a. PICK f : Follows(f, Nat, Nat, Rec, down, base, step)
  <2>1. Recursion(Nat, Nat, Rec, size, down, base, step)
    BY <1>a, <1>b, <1>c DEF Recursion
  <2>2. QED
    BY <2>1, RecursiveFunction
<1> f \in [Nat -> Nat]
  BY <1>4a DEF Follows
<1>4. \A x \in Nat : f[x] = IF x \in Rec THEN step[<<x, f[down[x]]>>] ELSE base[x]
  BY <1>4a DEF Follows
<1>5. ASSUME NEW x \in Nat
      PROVE  f[x] = IF x = 0 THEN 1 ELSE 2 * f[x - 1]
  <2>1. x # 0 => x - 1 \in Nat /\ f[x - 1] \in Nat
    OBVIOUS
  <2>2. CASE x = 0
    BY <2>2, <1>3, <1>4
  <2>3. CASE x # 0
    <3>1. x \in Rec /\ down[x] = x - 1
      BY <2>3, <1>3
    <3>2. f[x] = step[<<x, f[x - 1]>>]
      BY <3>1, <1>4
    <3>3. QED
      BY <2>1, <2>3, <3>2, <1>2
  <2>4. QED
    BY <2>2, <2>3
<1>6. f = [n \in Nat |-> IF n = 0 THEN 1 ELSE 2 * f[n - 1]]
  BY <1>5
<1>7. Power2 = [n \in Nat |-> IF n = 0 THEN 1 ELSE 2 * Power2[n - 1]]
  BY <1>6 DEF Power2
<1>8. QED
  BY <1>7

(* Power2 is a number and doubles. *)
LEMMA Power2Doubles ==
  \A n \in Nat : Power2[n] \in Nat /\ Power2[n] >= 1 /\ Power2[n + 1] = 2 * Power2[n]
<1> DEFINE T == {n \in Nat : Power2[n] \in Nat /\ Power2[n] >= 1}
<1>1. 0 \in T
  BY Power2Equation
<1>2. ASSUME NEW n \in Nat
      PROVE  Power2[n + 1] = 2 * Power2[n]
  <2>1. n + 1 \in Nat /\ n + 1 # 0 /\ (n + 1) - 1 = n
    OBVIOUS
  <2>2. QED
    BY <2>1, Power2Equation
<1>3. \A n \in Nat : n \in T => n + 1 \in T
  BY <1>2
<1>4. \A n \in Nat : n \in T
  <2> HIDE DEF T
  <2>1. QED
    BY <1>1, <1>3, Ascend
<1>5. QED
  BY <1>2, <1>4

(* The powers of two that are classes and limits. *)
LEMMA Power2Values ==
  /\ Power2[0] = 1 /\ Power2[1] = 2 /\ Power2[2] = 4 /\ Power2[3] = 8
  /\ Power2[4] = 16 /\ Power2[5] = 32 /\ Power2[6] = 64 /\ Power2[7] = 128
  /\ Power2[8] = 256 /\ Power2[9] = 512 /\ Power2[10] = 1024 /\ Power2[11] = 2048
  /\ Power2[12] = 4096 /\ Power2[13] = 8192
<1>1. Power2[0] = 1
  BY Power2Equation
<1>2. /\ Power2[0 + 1] = 2 * Power2[0] /\ Power2[1 + 1] = 2 * Power2[1]
      /\ Power2[2 + 1] = 2 * Power2[2] /\ Power2[3 + 1] = 2 * Power2[3]
      /\ Power2[4 + 1] = 2 * Power2[4] /\ Power2[5 + 1] = 2 * Power2[5]
      /\ Power2[6 + 1] = 2 * Power2[6] /\ Power2[7 + 1] = 2 * Power2[7]
      /\ Power2[8 + 1] = 2 * Power2[8] /\ Power2[9 + 1] = 2 * Power2[9]
      /\ Power2[10 + 1] = 2 * Power2[10] /\ Power2[11 + 1] = 2 * Power2[11]
      /\ Power2[12 + 1] = 2 * Power2[12]
  BY Power2Doubles
<1>3. QED
  BY <1>1, <1>2

(* Power2 is increasing. *)
LEMMA Power2Increases ==
  ASSUME NEW i \in Nat, NEW j \in Nat, i < j
  PROVE  2 * Power2[i] <= Power2[j]
<1> DEFINE T == {n \in Nat : Power2[i + 1] <= Power2[i + 1 + n]}
<1>1. 0 \in T
  BY Power2Doubles
<1>2. ASSUME NEW n \in Nat, n \in T
      PROVE  n + 1 \in T
  <2>1. i + 1 \in Nat /\ i + 1 + n \in Nat /\ i + 1 + (n + 1) = (i + 1 + n) + 1
    OBVIOUS
  <2>2. Power2[(i + 1 + n) + 1] = 2 * Power2[i + 1 + n] /\ Power2[i + 1 + n] \in Nat
        /\ Power2[i + 1] \in Nat
    BY <2>1, Power2Doubles
  <2>3. Power2[i + 1] <= Power2[i + 1 + n]
    BY <1>2
  <2>4. Power2[i + 1] <= Power2[i + 1 + (n + 1)]
    BY <2>1, <2>2, <2>3
  <2>5. QED
    BY <2>4
<1>3. j - (i + 1) \in T
  <2> HIDE DEF T
  <2>1. \A n \in Nat : n \in T
    BY <1>1, <1>2, Ascend
  <2>2. QED
    BY <2>1
<1>4. i + 1 + (j - (i + 1)) = j
  OBVIOUS
<1>5. QED
  BY <1>3, <1>4, Power2Doubles

(* The definition of LeftmostOne, as a fact. *)
LEMMA LeftmostOneEquation ==
  \A n \in Nat : /\ LeftmostOne[n] \in Nat
                 /\ LeftmostOne[n] = IF n < 2 THEN 0 ELSE 1 + LeftmostOne[n \div 2]
<1> DEFINE Rec == {n \in Nat : n >= 2}
           size == [n \in Nat |-> n]
           down == [n \in Nat |-> n \div 2]
           base == [n \in Nat |-> 0]
           step == [p \in Nat \X Nat |-> 1 + p[2]]
<1>1. \A n \in Nat : n \div 2 \in Nat /\ (n >= 2 => n \div 2 < n)
  OBVIOUS
<1>2. Rec \in SUBSET Nat /\ size \in [Nat -> Nat] /\ down \in [Nat -> Nat]
  BY <1>1
<1>3. base \in [Nat -> Nat] /\ step \in [Nat \X Nat -> Nat]
  OBVIOUS
<1>4. \A x \in Rec : size[down[x]] < size[x]
  BY <1>1
<1>5. \A x, y \in Nat : step[<<x, y>>] = 1 + y
  OBVIOUS
<1>6. \A x \in Nat : base[x] = 0 /\ (x \in Rec <=> ~ (x < 2)) /\ down[x] = x \div 2
  BY <1>1
<1> HIDE DEF Rec, size, down, base, step
<1>7a. PICK f : Follows(f, Nat, Nat, Rec, down, base, step)
  <2>1. Recursion(Nat, Nat, Rec, size, down, base, step)
    BY <1>2, <1>3, <1>4 DEF Recursion
  <2>2. QED
    BY <2>1, RecursiveFunction
<1> f \in [Nat -> Nat]
  BY <1>7a DEF Follows
<1>7. \A x \in Nat : f[x] = IF x \in Rec THEN step[<<x, f[down[x]]>>] ELSE base[x]
  BY <1>7a DEF Follows
<1>8. ASSUME NEW x \in Nat
      PROVE  f[x] = IF x < 2 THEN 0 ELSE 1 + f[x \div 2]
  <2>1. CASE x < 2
    BY <2>1, <1>6, <1>7
  <2>2. CASE ~ (x < 2)
    <3>1. x \in Rec /\ down[x] = x \div 2
      BY <2>2, <1>6
    <3>2. f[x] = step[<<x, f[x \div 2]>>]
      BY <3>1, <1>7
    <3>3. x \div 2 \in Nat /\ f[x \div 2] \in Nat
      BY <1>1
    <3>4. QED
      BY <2>2, <3>2, <3>3, <1>5
  <2>3. QED
    BY <2>1, <2>2
<1>9. f = [n \in Nat |-> IF n < 2 THEN 0 ELSE 1 + f[n \div 2]]
  BY <1>8
<1>10. LeftmostOne = [n \in Nat |-> IF n < 2 THEN 0 ELSE 1 + LeftmostOne[n \div 2]]
  BY <1>9 DEF LeftmostOne
<1>11. \A n \in Nat : LeftmostOne[n] = IF n < 2 THEN 0 ELSE 1 + LeftmostOne[n \div 2]
  BY <1>10
<1> DEFINE T == {n \in Nat : LeftmostOne[n] \notin Nat}
<1>12. T = {}
  <2> SUFFICES ASSUME T # {} PROVE FALSE
    OBVIOUS
  <2>1. PICK m \in T : \A n \in T : m <= n
    BY LeastNumber
  <2>2. ~ (m < 2)
    BY <1>11
  <2>3. LeftmostOne[m] = 1 + LeftmostOne[m \div 2]
    BY <1>11, <2>2
  <2>4. m \div 2 \in Nat /\ m \div 2 < m
    BY <1>1, <2>2
  <2>5. LeftmostOne[m \div 2] \in Nat
    BY <2>1, <2>4
  <2>6. QED
    BY <2>3, <2>5
<1>13. QED
  BY <1>11, <1>12

(* LeftmostOne is the base-2 logarithm, rounded down. *)
LEMMA LeftmostOneBounds ==
  ASSUME NEW n \in Nat, n >= 1
  PROVE  Power2[LeftmostOne[n]] <= n /\ n < 2 * Power2[LeftmostOne[n]]
<1> DEFINE Bounded(k) == Power2[LeftmostOne[k]] <= k /\ k < 2 * Power2[LeftmostOne[k]]
           T == {k \in Nat : k >= 1 /\ ~ Bounded(k)}
<1>1. T = {}
  <2> SUFFICES ASSUME T # {} PROVE FALSE
    OBVIOUS
  <2>1. PICK m \in T : \A k \in T : m <= k
    BY LeastNumber
  <2>2. CASE m < 2
    <3>1. m = 1 /\ LeftmostOne[m] = 0
      BY <2>2, LeftmostOneEquation
    <3>2. QED
      BY <3>1, Power2Values
  <2>3. CASE ~ (m < 2)
    <3> DEFINE h == m \div 2
    <3>1. h \in Nat /\ h >= 1 /\ h < m /\ 2 * h <= m /\ m < 2 * h + 2
      BY <2>3
    <3>2. LeftmostOne[m] = 1 + LeftmostOne[h] /\ LeftmostOne[h] \in Nat
      BY <2>3, <3>1, LeftmostOneEquation
    <3> HIDE DEF h
    <3>3. Bounded(h)
      BY <2>1, <3>1
    <3>4. Power2[LeftmostOne[m]] = 2 * Power2[LeftmostOne[h]] /\ Power2[LeftmostOne[h]] \in Nat
      BY <3>2, Power2Doubles
    <3>5. Bounded(m)
      BY <3>1, <3>3, <3>4
    <3>6. QED
      BY <3>5
  <2>4. QED
    BY <2>2, <2>3
<1>2. QED
  BY <1>1

--------------------------------------------------------------------------------
(* The chunks of a class have room for every request that FreeIndex gives  *)
(* the class, and those of the class below it have not.                    *)
LEMMA FreeIndexTight ==
  ASSUME NEW size \in Nat
  PROVE  /\ FreeIndex(size) \in Nat
         /\ size <= ClassSize(FreeIndex(size))
         /\ \A i \in Nat : size <= ClassSize(i) => FreeIndex(size) <= i
<1>1. ClassSize(0) = 8
  BY Power2Values DEF ClassSize, ALLOC_MINBITS
<1>2. CASE ~ (size > 8)
  BY <1>1, <1>2 DEF FreeIndex
<1>3. CASE size > 8
  <2> DEFINE L == LeftmostOne[size - 1]
  <2>1. size - 1 \in Nat /\ size - 1 >= 1
    BY <1>3
  <2>2. L \in Nat /\ Power2[L] <= size - 1 /\ size - 1 < 2 * Power2[L]
    BY <2>1, LeftmostOneEquation, LeftmostOneBounds
  <2>3. FreeIndex(size) = L - 2
    BY <1>1, <1>3, <2>2 DEF FreeIndex, ALLOC_MINBITS
  <2> HIDE DEF L
  <2>4. L >= 3
    <3>1. L < 3 => 2 * Power2[L] <= Power2[3]
      BY <2>2, Power2Increases
    <3>2. Power2[L] \in Nat
      BY <2>2, Power2Doubles
    <3>3. QED
      BY <1>3, <2>2, <3>1, <3>2, Power2Values
  <2>5. L - 2 \in Nat /\ ClassSize(L - 2) = 2 * Power2[L]
    <3>1. 3 + (L - 2) = L + 1
      BY <2>2
    <3>2. QED
      BY <3>1, <2>2, <2>4, Power2Doubles DEF ClassSize, ALLOC_MINBITS
  <2>6. ASSUME NEW i \in Nat, size <= ClassSize(i)
        PROVE  L - 2 <= i
    <3>1. ClassSize(i) = Power2[3 + i] /\ 3 + i \in Nat
      BY DEF ClassSize, ALLOC_MINBITS
    <3>2. Power2[L] \in Nat /\ Power2[3 + i] \in Nat
      BY <2>2, <3>1, Power2Doubles
    <3>3. 3 + i < L => 2 * Power2[3 + i] <= Power2[L]
      BY <2>2, <3>1, Power2Increases
    <3>4. 3 + i # L
      BY <2>2, <2>6, <3>1, <3>2
    <3>5. QED
      BY <2>2, <2>6, <3>1, <3>2, <3>3, <3>4
  <2>7. Power2[L] \in Nat
    BY <2>2, Power2Doubles
  <2>8. QED
    BY <2>1, <2>2, <2>3, <2>5, <2>6, <2>7
<1>4. QED
  BY <1>2, <1>3

(* The sizes of the classes, one by one. *)
LEMMA ClassSizes ==
  /\ ClassSize(0) = 8 /\ ClassSize(1) = 16 /\ ClassSize(2) = 32 /\ ClassSize(3) = 64
  /\ ClassSize(4) = 128 /\ ClassSize(5) = 256 /\ ClassSize(6) = 512 /\ ClassSize(7) = 1024
  /\ ClassSize(8) = 2048 /\ ClassSize(9) = 4096 /\ ClassSize(10) = 8192
  BY Power2Values DEF ClassSize, ALLOC_MINBITS

(* AllocSetFreeIndex gives a request up to the limit a class that exists.  *)
LEMMA FreeIndexExists ==
  ASSUME NEW size \in Nat, size <= ALLOC_CHUNK_LIMIT
  PROVE  FreeIndex(size) \in FreeIndexes
<1>1. size <= ClassSize(10)
  BY ClassSizes DEF ALLOC_CHUNK_LIMIT
<1>2. FreeIndex(size) \in Nat /\ FreeIndex(size) <= 10
  BY <1>1, FreeIndexTight
<1>3. QED
  BY <1>2 DEF FreeIndexes, ALLOCSET_NUM_FREELISTS

--------------------------------------------------------------------------------
(* The loop of AllocSetContextCreateInternal, from any limit down. *)
LEMMA ChunkLimitIs ==
  ASSUME NEW fraction \in Nat, fraction >= 136
  PROVE  /\ \E i \in FreeIndexes :
              /\ ChunkLimitWithin(fraction) = ClassSize(i)
              /\ ClassSize(i) + ALLOC_CHUNKHDRSZ <= fraction
              /\ \A j \in FreeIndexes :
                   ClassSize(j) + ALLOC_CHUNKHDRSZ <= fraction => j <= i
<1> DEFINE Rec == {n \in Nat : n + 8 > fraction}
           size == [n \in Nat |-> n]
           down == [n \in Nat |-> n \div 2]
           base == [n \in Nat |-> n]
           step == [p \in Nat \X Nat |-> p[2]]
<1>1. \A n \in Nat : n \div 2 \in Nat /\ (n >= 1 => n \div 2 < n)
  OBVIOUS
<1>2. Rec \in SUBSET Nat /\ size \in [Nat -> Nat] /\ down \in [Nat -> Nat]
  BY <1>1
<1>3. base \in [Nat -> Nat] /\ step \in [Nat \X Nat -> Nat]
  OBVIOUS
<1>4. \A x \in Rec : size[down[x]] < size[x]
  BY <1>1
<1>5. \A x, y \in Nat : step[<<x, y>>] = y
  OBVIOUS
<1>6. \A x \in Nat : base[x] = x /\ (x \in Rec <=> x + 8 > fraction) /\ down[x] = x \div 2
  BY <1>1
<1> HIDE DEF Rec, size, down, base, step
<1>7a. PICK f : Follows(f, Nat, Nat, Rec, down, base, step)
  <2>1. Recursion(Nat, Nat, Rec, size, down, base, step)
    BY <1>2, <1>3, <1>4 DEF Recursion
  <2>2. QED
    BY <2>1, RecursiveFunction
<1> f \in [Nat -> Nat]
  BY <1>7a DEF Follows
<1>7. \A x \in Nat : f[x] = IF x \in Rec THEN step[<<x, f[down[x]]>>] ELSE base[x]
  BY <1>7a DEF Follows
<1>8. ASSUME NEW x \in Nat
      PROVE  f[x] = IF x + 8 > fraction THEN f[x \div 2] ELSE x
  <2>1. CASE ~ (x + 8 > fraction)
    BY <2>1, <1>6, <1>7
  <2>2. CASE x + 8 > fraction
    <3>1. x \in Rec /\ down[x] = x \div 2
      BY <2>2, <1>6
    <3>2. f[x] = step[<<x, f[x \div 2]>>]
      BY <3>1, <1>7
    <3>3. x \div 2 \in Nat /\ f[x \div 2] \in Nat
      BY <1>1
    <3>4. QED
      BY <2>2, <3>2, <3>3, <1>5
  <2>3. QED
    BY <2>1, <2>2
<1>9. f = [limit \in Nat |->
       IF limit + ALLOC_CHUNKHDRSZ > fraction THEN f[limit \div 2] ELSE limit]
  BY <1>8 DEF ALLOC_CHUNKHDRSZ
<1> DEFINE g == CHOOSE g : g = [limit \in Nat |->
                  IF limit + ALLOC_CHUNKHDRSZ > fraction THEN g[limit \div 2] ELSE limit]
<1>10. g = [limit \in Nat |->
       IF limit + ALLOC_CHUNKHDRSZ > fraction THEN g[limit \div 2] ELSE limit]
  BY <1>9
<1>11. ChunkLimitWithin(fraction) = g[8192]
  BY DEF ChunkLimitWithin, ALLOC_CHUNK_LIMIT
<1> HIDE DEF g
<1>12. \A n \in Nat : g[n] = IF n + 8 > fraction THEN g[n \div 2] ELSE n
  BY <1>10 DEF ALLOC_CHUNKHDRSZ
<1>13. /\ g[8192] = IF 8200 > fraction THEN g[4096] ELSE 8192
       /\ g[4096] = IF 4104 > fraction THEN g[2048] ELSE 4096
       /\ g[2048] = IF 2056 > fraction THEN g[1024] ELSE 2048
       /\ g[1024] = IF 1032 > fraction THEN g[512] ELSE 1024
       /\ g[512] = IF 520 > fraction THEN g[256] ELSE 512
       /\ g[256] = IF 264 > fraction THEN g[128] ELSE 256
       /\ g[128] = 128
  BY <1>12
<1>14. \A j \in FreeIndexes : j \in {0, 1, 2, 3, 4, 5, 6, 7, 8, 9, 10}
  BY DEF FreeIndexes, ALLOCSET_NUM_FREELISTS
<1>15. {4, 5, 6, 7, 8, 9, 10} \subseteq FreeIndexes
  BY DEF FreeIndexes, ALLOCSET_NUM_FREELISTS
<1>16. PICK i \in {4, 5, 6, 7, 8, 9, 10} :
          g[8192] = ClassSize(i) /\ ClassSize(i) + 8 <= fraction
          /\ (i = 10 \/ ClassSize(i + 1) + 8 > fraction)
  BY <1>13, ClassSizes
<1>17. ASSUME NEW j \in FreeIndexes, ClassSize(j) + 8 <= fraction
       PROVE  j <= i
  BY <1>14, <1>16, <1>17, ClassSizes
<1>18. QED
  BY <1>11, <1>15, <1>16, <1>17 DEF ALLOC_CHUNKHDRSZ

--------------------------------------------------------------------------------
(* A new block is large enough for its chunk, and no larger than needed.   *)
LEMMA BlockSizeFits ==
  ASSUME NEW first \in Nat, first >= 1, NEW i \in FreeIndexes
  PROVE  /\ BlockSize(first, i) \in Nat
         /\ RequiredSize(i) <= BlockSize(first, i)
         /\ first <= BlockSize(first, i)
         /\ BlockSize(first, i) > first => BlockSize(first, i) < 2 * RequiredSize(i)
<1> DEFINE req == RequiredSize(i)
           Rec == {n \in Nat : n >= 1 /\ n < req}
           size == [n \in Nat |-> IF n < req THEN req - n ELSE 0]
           down == [n \in Nat |-> 2 * n]
           base == [n \in Nat |-> n]
           step == [p \in Nat \X Nat |-> p[2]]
<1>1. req \in Nat
  <2>1. 3 + i \in Nat /\ i \in Nat
    BY DEF FreeIndexes, ALLOCSET_NUM_FREELISTS
  <2>2. ClassSize(i) \in Nat
    BY <2>1, Power2Doubles DEF ClassSize, ALLOC_MINBITS
  <2>3. QED
    BY <2>2 DEF RequiredSize, ALLOC_BLOCKHDRSZ, ALLOC_CHUNKHDRSZ
<1> HIDE DEF req
<1>2. Rec \in SUBSET Nat /\ size \in [Nat -> Nat] /\ down \in [Nat -> Nat]
  BY <1>1
<1>3. base \in [Nat -> Nat] /\ step \in [Nat \X Nat -> Nat]
  OBVIOUS
<1>4. \A x \in Rec : size[down[x]] < size[x]
  BY <1>1
<1>5. \A x, y \in Nat : step[<<x, y>>] = y
  OBVIOUS
<1>6. \A x \in Nat : base[x] = x /\ (x \in Rec <=> x >= 1 /\ x < req) /\ down[x] = 2 * x
  OBVIOUS
<1> HIDE DEF Rec, size, down, base, step
<1>7a. PICK f : Follows(f, Nat, Nat, Rec, down, base, step)
  <2>1. Recursion(Nat, Nat, Rec, size, down, base, step)
    BY <1>2, <1>3, <1>4 DEF Recursion
  <2>2. QED
    BY <2>1, RecursiveFunction
<1> f \in [Nat -> Nat]
  BY <1>7a DEF Follows
<1>7. \A x \in Nat : f[x] = IF x \in Rec THEN step[<<x, f[down[x]]>>] ELSE base[x]
  BY <1>7a DEF Follows
<1>8. ASSUME NEW x \in Nat
      PROVE  f[x] = IF x < req THEN f[2 * x] ELSE x
  <2>1. CASE ~ (x < req)
    BY <2>1, <1>6, <1>7
  <2>2. CASE x = 0 /\ x < req
    <3>1. 2 * x = x
      BY <2>2
    <3>2. QED
      BY <2>2, <3>1
  <2>3. CASE x >= 1 /\ x < req
    <3>1. x \in Rec /\ down[x] = 2 * x
      BY <2>3, <1>6
    <3>2. f[x] = step[<<x, f[2 * x]>>]
      BY <3>1, <1>7
    <3>3. 2 * x \in Nat /\ f[2 * x] \in Nat
      OBVIOUS
    <3>4. QED
      BY <2>3, <3>2, <3>3, <1>5
  <2>4. QED
    BY <2>1, <2>2, <2>3, <1>1, <1>7
<1>9. f = [n \in Nat |-> IF n < req THEN f[2 * n] ELSE n]
  BY <1>8
<1> DEFINE g == CHOOSE g : g = [n \in Nat |-> IF n < req THEN g[2 * n] ELSE n]
<1>10. g = [n \in Nat |-> IF n < req THEN g[2 * n] ELSE n]
  BY <1>9
<1>11. BlockSize(first, i) = g[first]
  BY DEF BlockSize, req
<1> HIDE DEF g
<1>12. \A n \in Nat : g[n] = IF n < req THEN g[2 * n] ELSE n
  BY <1>10
<1> DEFINE Fits(n) == /\ g[n] \in Nat /\ req <= g[n] /\ n <= g[n]
                      /\ g[n] > n => g[n] < 2 * req
           T == {n \in Nat : n <= req /\ \E k \in Nat : k >= 1 /\ req - k = n /\ ~ Fits(k)}
<1>13. ASSUME NEW k \in Nat, k >= req
       PROVE  Fits(k)
  <2>1. g[k] = k
    BY <1>1, <1>12, <1>13
  <2>2. QED
    BY <2>1, <1>13
<1>14. T = {}
  <2> SUFFICES ASSUME T # {} PROVE FALSE
    OBVIOUS
  <2>1. PICK m \in T : \A n \in T : m <= n
    BY LeastNumber
  <2>2. PICK k \in Nat : k >= 1 /\ req - k = m /\ ~ Fits(k)
    OBVIOUS
  <2>3. k < req
    BY <1>1, <1>13, <2>2
  <2>4. Fits(2 * k)
    <3>1. CASE 2 * k >= req
      BY <1>13, <3>1
    <3>2. CASE 2 * k < req
      <4>1. req - 2 * k \in Nat /\ req - 2 * k < m /\ req - 2 * k <= req /\ 2 * k >= 1
            /\ 2 * k \in Nat /\ m \in Nat
        BY <1>1, <2>2, <3>2
      <4>2. req - 2 * k \notin T
        <5> HIDE DEF T
        <5>1. QED
          BY <2>1, <4>1
      <4>3. QED
        BY <4>1, <4>2
    <3>3. QED
      BY <1>1, <3>1, <3>2
  <2>5. g[k] = g[2 * k]
    BY <1>12, <2>3
  <2>6. g[k] < 2 * req
    <3>1. CASE g[2 * k] > 2 * k
      BY <2>4, <2>5, <3>1
    <3>2. CASE g[2 * k] = 2 * k
      BY <1>1, <2>3, <2>5, <3>2
    <3>3. QED
      BY <2>4, <3>1, <3>2
  <2>7. Fits(k)
    BY <2>4, <2>5, <2>6
  <2>8. QED
    BY <2>2, <2>7
<1>15. Fits(first)
  <2>1. CASE first >= req
    BY <1>13, <2>1
  <2>2. CASE first < req
    <3>1. req - first \in Nat /\ req - first <= req
      BY <1>1, <2>2
    <3>2. QED
      BY <1>14, <3>1
  <2>3. QED
    BY <1>1, <2>1, <2>2
<1>16. QED
  BY <1>11, <1>15 DEF req

--------------------------------------------------------------------------------
(* The largest class that fits into a space. *)
LEMMA FittingClassFits ==
  ASSUME NEW space \in Nat, space >= 8
  PROVE  /\ FittingClass(space) \in Nat
         /\ ClassSize(FittingClass(space)) \in Nat
         /\ ClassSize(FittingClass(space)) >= 8
         /\ ClassSize(FittingClass(space)) <= space
         /\ space < 2 * ClassSize(FittingClass(space))
<1> DEFINE i == FreeIndex(space)
<1>1. i \in Nat /\ space <= ClassSize(i) /\ \A j \in Nat : space <= ClassSize(j) => i <= j
  BY FreeIndexTight
<1> HIDE DEF i
<1>2. ASSUME NEW j \in Nat
      PROVE  /\ ClassSize(j) \in Nat /\ ClassSize(j) >= 8
             /\ ClassSize(j + 1) = 2 * ClassSize(j)
  <2>1. 3 + j \in Nat /\ 3 + (j + 1) = (3 + j) + 1
    OBVIOUS
  <2>2. j > 0 => 2 * Power2[3] <= Power2[3 + j]
    BY <2>1, Power2Increases
  <2>3. Power2[3] = 8
    BY Power2Values
  <2>4. Power2[3 + j] >= 8
    BY <2>1, <2>2, <2>3, Power2Doubles
  <2>5. QED
    BY <2>1, <2>4, Power2Doubles DEF ClassSize, ALLOC_MINBITS
<1>3. CASE space = ClassSize(i)
  <2>1. FittingClass(space) = i
    BY <1>3 DEF FittingClass, i
  <2>2. QED
    BY <1>1, <1>2, <1>3, <2>1
<1>4. CASE space # ClassSize(i)
  <2>1. FittingClass(space) = i - 1
    BY <1>4 DEF FittingClass, i
  <2>2. i # 0
    BY <1>1, <1>4, ClassSizes
  <2>3. i - 1 \in Nat /\ (i - 1) + 1 = i
    BY <1>1, <2>2
  <2>4. ~ (space <= ClassSize(i - 1))
    BY <1>1, <2>3
  <2>5. /\ ClassSize(i - 1) \in Nat /\ ClassSize(i - 1) >= 8
        /\ ClassSize(i) = 2 * ClassSize(i - 1)
    BY <1>2, <2>3
  <2>6. QED
    BY <1>1, <1>4, <2>1, <2>3, <2>4, <2>5
<1>5. QED
  BY <1>3, <1>4

(* What is left of a space after its first chunk. *)
Remaining(space) == space - ALLOC_CHUNKHDRSZ - ClassSize(FittingClass(space - ALLOC_CHUNKHDRSZ))

(* The space left to cut is less, and less than another chunk of this      *)
(* class needs.                                                            *)
LEMMA RemainingIsLess ==
  ASSUME NEW space \in Int, space >= 16
  PROVE  /\ Remaining(space) \in Nat /\ Remaining(space) < space
         /\ FittingClass(space - 8) \in Nat
         /\ ClassSize(FittingClass(space - 8)) \in Nat
         /\ Remaining(space) = space - 8 - ClassSize(FittingClass(space - 8))
         /\ ClassSize(FittingClass(space - 8)) <= space - 8
         /\ Remaining(space) - 8 < ClassSize(FittingClass(space - 8))
<1>1. space - 8 \in Nat /\ space - 8 >= 8
  OBVIOUS
<1> DEFINE k == ClassSize(FittingClass(space - 8))
<1>2. /\ FittingClass(space - 8) \in Nat /\ k \in Nat /\ k >= 8 /\ k <= space - 8
      /\ space - 8 < 2 * k
  BY <1>1, FittingClassFits
<1>3. Remaining(space) = space - 8 - k
  BY DEF Remaining, ALLOC_CHUNKHDRSZ
<1> HIDE DEF k
<1>4. Remaining(space) \in Nat /\ Remaining(space) < space /\ Remaining(space) - 8 < k
  BY <1>1, <1>2, <1>3
<1>5. QED
  BY <1>2, <1>3, <1>4 DEF k

(* The definition of Carved, as a fact. *)
LEMMA CarvedEquation ==
  \A n \in Int : Carved[n] = IF n < 16 THEN <<>>
                            ELSE <<FittingClass(n - 8)>> \o Carved[Remaining(n)]
<1> DEFINE Rec == {n \in Int : n >= 16}
           size == [n \in Int |-> IF n >= 0 THEN n ELSE 0]
           down == [n \in Int |-> IF n >= 16 THEN Remaining(n) ELSE n]
           base == [n \in Int |-> <<>>]
           step == [p \in Int \X Seq(Nat) |->
                      IF p[1] >= 16 THEN <<FittingClass(p[1] - 8)>> \o p[2] ELSE p[2]]
<1>1. \A n \in Int : n >= 16 => /\ Remaining(n) \in Nat /\ Remaining(n) < n
                               /\ FittingClass(n - 8) \in Nat
  BY RemainingIsLess
<1>2. Rec \in SUBSET Int /\ size \in [Int -> Nat] /\ down \in [Int -> Int]
  BY <1>1
<1>3. base \in [Int -> Seq(Nat)]
  OBVIOUS
<1>4. step \in [Int \X Seq(Nat) -> Seq(Nat)]
  <2>1. ASSUME NEW n \in Int, NEW s \in Seq(Nat), n >= 16
        PROVE  <<FittingClass(n - 8)>> \o s \in Seq(Nat)
    <3>1. <<FittingClass(n - 8)>> \in Seq(Nat)
      BY <1>1, <2>1
    <3>2. QED
      BY <3>1
  <2>2. QED
    BY <2>1
<1>5. \A x \in Rec : size[down[x]] < size[x]
  BY <1>1
<1>6. \A x \in Int, y \in Seq(Nat) : x >= 16 => step[<<x, y>>] = <<FittingClass(x - 8)>> \o y
  OBVIOUS
<1>7. \A x \in Int :
        base[x] = <<>> /\ (x \in Rec <=> x >= 16) /\ (x >= 16 => down[x] = Remaining(x))
  OBVIOUS
<1> HIDE DEF Rec, size, down, base, step
<1>8. PICK f : Follows(f, Int, Seq(Nat), Rec, down, base, step)
  <2>1. Recursion(Int, Seq(Nat), Rec, size, down, base, step)
    BY <1>2, <1>3, <1>4, <1>5 DEF Recursion
  <2>2. QED
    BY <2>1, RecursiveFunction
<1> f \in [Int -> Seq(Nat)]
  BY <1>8 DEF Follows
<1>9. \A x \in Int : f[x] = IF x \in Rec THEN step[<<x, f[down[x]]>>] ELSE base[x]
  BY <1>8 DEF Follows
<1>10. ASSUME NEW x \in Int
       PROVE  f[x] = IF x < 16 THEN <<>> ELSE <<FittingClass(x - 8)>> \o f[Remaining(x)]
  <2>1. CASE x < 16
    <3>1. x \notin Rec /\ base[x] = <<>>
      BY <2>1, <1>7
    <3>2. f[x] = <<>>
      BY <3>1, <1>9, Zenon
    <3>3. QED
      BY <2>1, <3>2, Zenon
  <2>2. CASE ~ (x < 16)
    <3>1. x \in Rec /\ down[x] = Remaining(x) /\ Remaining(x) \in Int /\ x >= 16
      BY <2>2, <1>1, <1>7
    <3>2. f[x] = step[<<x, f[Remaining(x)]>>]
      BY <3>1, <1>9
    <3>3. f[Remaining(x)] \in Seq(Nat)
      BY <3>1
    <3>4. QED
      BY <2>2, <3>1, <3>2, <3>3, <1>6
  <2>3. QED
    BY <2>1, <2>2
<1> DEFINE Body(h, n) ==
             IF n < ClassSize(0) + ALLOC_CHUNKHDRSZ THEN <<>>
             ELSE LET i == FittingClass(n - ALLOC_CHUNKHDRSZ)
                  IN  <<i>> \o h[n - ALLOC_CHUNKHDRSZ - ClassSize(i)]
<1>12. ASSUME NEW h, NEW x \in Int
       PROVE  Body(h, x) = IF x < 16 THEN <<>> ELSE <<FittingClass(x - 8)>> \o h[Remaining(x)]
  <2>1. ClassSize(0) + ALLOC_CHUNKHDRSZ = 16 /\ ALLOC_CHUNKHDRSZ = 8
    BY ClassSizes DEF ALLOC_CHUNKHDRSZ
  <2>2. QED
    BY <2>1, Zenon DEF Remaining
<1>13. Carved = CHOOSE h : h = [space \in Int |-> Body(h, space)]
  BY DEF Carved
<1> HIDE DEF Body
<1>14. \A x \in Int : f[x] = Body(f, x)
  BY <1>10, <1>12
<1>15. f = [space \in Int |-> Body(f, space)]
  BY <1>14
<1>16. Carved = [space \in Int |-> Body(Carved, space)]
  BY <1>13, <1>15
<1>17. \A n \in Int : Carved[n] = Body(Carved, n)
  BY <1>16
<1>18. QED
  BY <1>12, <1>17

(* A function that adds up what the first n chunks take. *)
Takes(classes, t) ==
  t = [n \in 0..Len(classes) |->
         IF n = 0 THEN 0 ELSE t[n - 1] + ClassSize(classes[n]) + ALLOC_CHUNKHDRSZ]

(* There is only one such function. *)
LEMMA TakesOnce ==
  ASSUME NEW classes \in Seq(Nat), NEW t, Takes(classes, t), NEW u, Takes(classes, u)
  PROVE  t = u
<1> DEFINE N == Len(classes)
           T == {n \in Nat : n <= N => t[n] = u[n]}
<1>1. N \in Nat
  OBVIOUS
<1> HIDE DEF N
<1>2. /\ t = [n \in 0..N |-> IF n = 0 THEN 0
                            ELSE t[n - 1] + ClassSize(classes[n]) + ALLOC_CHUNKHDRSZ]
      /\ u = [n \in 0..N |-> IF n = 0 THEN 0
                            ELSE u[n - 1] + ClassSize(classes[n]) + ALLOC_CHUNKHDRSZ]
  BY DEF Takes, N
<1>3. 0 \in T
  <2>1. 0 \in 0..N
    BY <1>1
  <2>2. t[0] = 0 /\ u[0] = 0
    BY <1>2, <2>1
  <2>3. QED
    BY <2>2
<1>4. ASSUME NEW n \in Nat, n \in T
      PROVE  n + 1 \in T
  <2> SUFFICES ASSUME n + 1 <= N PROVE t[n + 1] = u[n + 1]
    OBVIOUS
  <2>1. t[n] = u[n] /\ n + 1 \in 0..N /\ n + 1 # 0 /\ (n + 1) - 1 = n
    BY <1>1, <1>4
  <2>2. /\ t[n + 1] = t[n] + ClassSize(classes[n + 1]) + ALLOC_CHUNKHDRSZ
        /\ u[n + 1] = u[n] + ClassSize(classes[n + 1]) + ALLOC_CHUNKHDRSZ
    <3>1. t[n + 1] = t[(n + 1) - 1] + ClassSize(classes[n + 1]) + ALLOC_CHUNKHDRSZ
      BY <1>2, <2>1, Zenon
    <3>2. u[n + 1] = u[(n + 1) - 1] + ClassSize(classes[n + 1]) + ALLOC_CHUNKHDRSZ
      BY <1>2, <2>1, Zenon
    <3>3. QED
      BY <2>1, <3>1, <3>2, Zenon
  <2>3. QED
    BY <2>1, <2>2, Zenon
<1>5. \A n \in Nat : n \in T
  <2> HIDE DEF T
  <2>1. QED
    BY <1>3, <1>4, Ascend
<1>6. \A n \in 0..N : t[n] = u[n]
  BY <1>1, <1>5
<1>7. t = [n \in 0..N |-> t[n]] /\ u = [n \in 0..N |-> u[n]]
  BY <1>2
<1>8. QED
  BY <1>6, <1>7

(* CarvedSpace is that function, if there is one. *)
LEMMA CarvedSpaceTakes ==
  ASSUME NEW classes \in Seq(Nat), NEW t, Takes(classes, t)
  PROVE  CarvedSpace(classes) = t
<1>1. CarvedSpace(classes) = CHOOSE u : Takes(classes, u)
  BY DEF CarvedSpace, Takes
<1>2. Takes(classes, CHOOSE u : Takes(classes, u))
  OBVIOUS
<1>3. QED
  BY <1>1, <1>2, TakesOnce

(* One chunk more, at the front. *)
LEMMA TakesOneMore ==
  ASSUME NEW rest \in Seq(Nat), NEW i \in Nat, NEW t \in [0..Len(rest) -> Int],
         Takes(rest, t), \A k \in Nat : ClassSize(k) \in Int
  PROVE  \E u \in [0..Len(<<i>> \o rest) -> Int] :
           /\ Takes(<<i>> \o rest, u)
           /\ u[Len(<<i>> \o rest)] = t[Len(rest)] + ClassSize(i) + 8
<1> DEFINE c == <<i>> \o rest
           N == Len(rest)
           u == [n \in 0..(N + 1) |-> IF n = 0 THEN 0 ELSE t[n - 1] + ClassSize(i) + 8]
<1>1. c \in Seq(Nat) /\ N \in Nat /\ Len(c) = N + 1 /\ c[1] = i
  OBVIOUS
<1>2. \A k \in 1..N : c[k + 1] = rest[k] /\ rest[k] \in Nat
  OBVIOUS
<1>3. t = [n \in 0..N |-> IF n = 0 THEN 0
                         ELSE t[n - 1] + ClassSize(rest[n]) + ALLOC_CHUNKHDRSZ]
  BY DEF Takes
<1> t \in [0..N -> Int]
  OBVIOUS
<1> HIDE DEF c, N
<1>4. t[0] = 0 /\ \A n \in 1..N : t[n] = t[n - 1] + ClassSize(rest[n]) + 8
  <2>1. 0 \in 0..N /\ \A n \in 1..N : n \in 0..N /\ n # 0
    BY <1>1
  <2>2. QED
    BY <1>3, <2>1, Zenon DEF ALLOC_CHUNKHDRSZ
<1>5. \A n \in 1..(N + 1) : t[n - 1] \in Int /\ u[n] = t[n - 1] + ClassSize(i) + 8
  <2>1. \A n \in 1..(N + 1) : n \in 0..(N + 1) /\ n # 0 /\ n - 1 \in 0..N
    BY <1>1
  <2>2. \A n \in 1..(N + 1) : u[n] = t[n - 1] + ClassSize(i) + 8
    BY <2>1, Zenon
  <2>3. QED
    BY <2>1, <2>2
<1>6. u[0] = 0
  BY <1>1
<1>7. u \in [0..(N + 1) -> Int]
  <2>1. ASSUME NEW n \in 0..(N + 1)
        PROVE  u[n] \in Int
    <3>1. CASE n = 0
      BY <1>6, <3>1
    <3>2. CASE n \in 1..(N + 1)
      <4>1. t[n - 1] \in Int /\ u[n] = t[n - 1] + ClassSize(i) + 8
        BY <1>5, <3>2, Zenon
      <4> DEFINE before == t[n - 1]
                 size == ClassSize(i)
      <4>2. before \in Int /\ size \in Int /\ u[n] = before + size + 8
        BY <4>1, Zenon
      <4> HIDE DEF u, before, size
      <4>3. QED
        BY <4>2
    <3>3. QED
      BY <1>1, <3>1, <3>2
  <2>2. QED
    BY <2>1, Zenon
<1> HIDE DEF u
<1>8. ASSUME NEW n \in 0..(N + 1)
      PROVE  u[n] = IF n = 0 THEN 0 ELSE u[n - 1] + ClassSize(c[n]) + ALLOC_CHUNKHDRSZ
  <2>1. CASE n = 0
    BY <1>6, <2>1
  <2>2. CASE n = 1
    <3>1. n \in 1..(N + 1) /\ n - 1 = 0
      BY <1>1, <2>2
    <3>2. u[n] = t[0] + ClassSize(i) + 8 /\ u[n - 1] = 0
      BY <1>5, <1>6, <3>1
    <3>3. u[n] = u[n - 1] + ClassSize(c[n]) + 8
      BY <1>1, <1>4, <2>2, <3>2, Zenon
    <3>4. QED
      BY <2>2, <3>3 DEF ALLOC_CHUNKHDRSZ
  <2>3. CASE n > 1
    <3>1. n - 1 \in 1..N /\ n - 1 \in 1..(N + 1) /\ n \in 1..(N + 1) /\ (n - 1) + 1 = n
      BY <1>1, <2>3
    <3>2. c[n] = rest[n - 1] /\ ClassSize(rest[n - 1]) \in Int
      <4>1. c[(n - 1) + 1] = rest[n - 1] /\ rest[n - 1] \in Nat
        BY <1>2, <3>1
      <4>2. QED
        BY <3>1, <4>1
    <3>3. u[n] = t[n - 1] + ClassSize(i) + 8 /\ t[n - 1] \in Int
      BY <1>5, <3>1
    <3>4. u[n - 1] = t[(n - 1) - 1] + ClassSize(i) + 8 /\ t[(n - 1) - 1] \in Int
      BY <1>5, <3>1
    <3>5. t[n - 1] = t[(n - 1) - 1] + ClassSize(rest[n - 1]) + 8
      BY <1>4, <3>1
    <3> DEFINE a == t[(n - 1) - 1]
               b == ClassSize(i)
               d == ClassSize(rest[n - 1])
    <3>6. a \in Int /\ b \in Int /\ d \in Int
      BY <3>2, <3>4
    <3>7. u[n] = (a + d + 8) + b + 8 /\ u[n - 1] = a + b + 8
      BY <3>3, <3>4, <3>5
    <3>8. u[n] = u[n - 1] + d + 8
      <4> HIDE DEF a, b, d
      <4>1. QED
        BY <3>6, <3>7
    <3>9. ClassSize(c[n]) = d
      BY <3>2
    <3>10. QED
      BY <2>3, <3>8, <3>9 DEF ALLOC_CHUNKHDRSZ
  <2>4. QED
    BY <1>1, <2>1, <2>2, <2>3
<1>9. u = [n \in 0..(N + 1) |->
             IF n = 0 THEN 0 ELSE u[n - 1] + ClassSize(c[n]) + ALLOC_CHUNKHDRSZ]
  BY <1>7, <1>8
<1>10. Takes(c, u)
  BY <1>1, <1>9 DEF Takes
<1>11. u[N + 1] = t[N] + ClassSize(i) + 8
  BY <1>1, <1>5
<1>12. u \in [0..Len(c) -> Int] /\ u[Len(c)] = t[N] + ClassSize(i) + 8
  BY <1>1, <1>7, <1>11
<1>13. QED
  BY <1>10, <1>12 DEF c, N

(***************************************************************************)
(* How AllocSetAllocFromNewBlock cuts up what is left of a block: each     *)
(* chunk is smaller than the one before it, and they leave less than the   *)
(* smallest chunk.                                                         *)
(***************************************************************************)
CutsUp(n) ==
  /\ Carved[n] \in Seq(Nat)
  /\ \A k \in 1..Len(Carved[n]) :
       ClassSize(Carved[n][k]) \in Nat /\ ClassSize(Carved[n][k]) <= n - 8
  /\ \A j, k \in 1..Len(Carved[n]) : j < k => Carved[n][k] < Carved[n][j]
  /\ \E t \in [0..Len(Carved[n]) -> Int] :
       Takes(Carved[n], t) /\ t[Len(Carved[n])] <= n /\ n < t[Len(Carved[n])] + 16

(* The class sizes are numbers, in the order of the classes. *)
LEMMA ClassSizeOrder ==
  /\ \A i \in Nat : ClassSize(i) \in Nat
  /\ \A i, j \in Nat : ClassSize(i) < ClassSize(j) => i < j
<1>1. \A i \in Nat : 3 + i \in Nat /\ ClassSize(i) = Power2[3 + i]
  BY DEF ClassSize, ALLOC_MINBITS
<1>2. \A i \in Nat : ClassSize(i) \in Nat
  BY <1>1, Power2Doubles
<1>3. ASSUME NEW i \in Nat, NEW j \in Nat, ClassSize(i) < ClassSize(j)
      PROVE  i < j
  <2>1. j < i => 2 * ClassSize(j) <= ClassSize(i)
    <3>1. j < i => 3 + j < 3 + i
      OBVIOUS
    <3>2. QED
      BY <1>1, <3>1, Power2Increases
  <2>2. i # j /\ ClassSize(i) \in Nat /\ ClassSize(j) \in Nat
    BY <1>2, <1>3
  <2>3. QED
    BY <1>3, <2>1, <2>2
<1>4. QED
  BY <1>2, <1>3

(* Cutting one chunk off, and then what remains. *)
LEMMA CutOneOff ==
  ASSUME NEW n \in Nat, n >= 16, CutsUp(Remaining(n))
  PROVE  CutsUp(n)
<1> DEFINE i == FittingClass(n - 8)
           m == Remaining(n)
           r == Carved[m]
           c == Carved[n]
<1>1. /\ m \in Nat /\ m < n /\ i \in Nat /\ ClassSize(i) \in Nat
      /\ m = n - 8 - ClassSize(i) /\ ClassSize(i) <= n - 8 /\ m - 8 < ClassSize(i)
  BY RemainingIsLess
<1>2. c = <<i>> \o r
  <2>1. n \in Int /\ ~ (n < 16)
    OBVIOUS
  <2>2. QED
    BY <2>1, CarvedEquation, Zenon
<1>3. /\ r \in Seq(Nat)
      /\ \A k \in 1..Len(r) : ClassSize(r[k]) \in Nat /\ ClassSize(r[k]) <= m - 8
      /\ \A j, k \in 1..Len(r) : j < k => r[k] < r[j]
  BY DEF CutsUp
<1>4. PICK t \in [0..Len(r) -> Int] :
        Takes(r, t) /\ t[Len(r)] <= m /\ m < t[Len(r)] + 16
  BY DEF CutsUp
<1> HIDE DEF i, m, r, c
<1>5. /\ c \in Seq(Nat) /\ Len(r) \in Nat /\ Len(c) = Len(r) + 1 /\ c[1] = i
      /\ \A k \in 1..Len(r) : c[k + 1] = r[k] /\ r[k] \in Nat
  <2>1. i \in Nat /\ r \in Seq(Nat)
    BY <1>1, <1>3
  <2>2. QED
    BY <1>2, <2>1
<1>6. \A k \in 1..Len(c) : k = 1 \/ (k - 1 \in 1..Len(r) /\ c[k] = r[k - 1])
  <2>1. \A k \in 1..Len(c) : k = 1 \/ (k - 1 \in 1..Len(r) /\ (k - 1) + 1 = k)
    BY <1>5
  <2>2. QED
    BY <1>5, <2>1
<1>7. ASSUME NEW k \in 1..Len(r)
      PROVE  r[k] < i
  <2>1. ClassSize(r[k]) < ClassSize(i)
    BY <1>1, <1>3
  <2>2. QED
    BY <1>1, <1>5, <2>1, ClassSizeOrder
<1>8. ASSUME NEW k \in 1..Len(c)
      PROVE  ClassSize(c[k]) \in Nat /\ ClassSize(c[k]) <= n - 8
  <2>1. CASE k = 1
    BY <1>1, <1>5, <2>1
  <2>2. CASE k - 1 \in 1..Len(r) /\ c[k] = r[k - 1]
    <3>1. ClassSize(c[k]) \in Nat /\ ClassSize(c[k]) <= m - 8
      BY <1>3, <2>2
    <3>2. QED
      BY <1>1, <3>1
  <2>3. QED
    BY <1>6, <2>1, <2>2
<1>9. ASSUME NEW j \in 1..Len(c), NEW k \in 1..Len(c), j < k
      PROVE  c[k] < c[j]
  <2>1. k - 1 \in 1..Len(r) /\ c[k] = r[k - 1]
    BY <1>5, <1>6, <1>9
  <2>2. CASE j = 1
    BY <1>5, <1>7, <2>1, <2>2
  <2>3. CASE j - 1 \in 1..Len(r) /\ c[j] = r[j - 1]
    <3>1. j - 1 < k - 1
      BY <1>5, <1>9
    <3>2. QED
      BY <1>3, <2>1, <2>3, <3>1
  <2>4. QED
    BY <1>6, <2>2, <2>3
<1>10. PICK u \in [0..Len(c) -> Int] : Takes(c, u) /\ u[Len(c)] = t[Len(r)] + ClassSize(i) + 8
  <2>1. \A k \in Nat : ClassSize(k) \in Int
    BY ClassSizeOrder
  <2>2. QED
    BY <1>1, <1>2, <1>3, <1>4, <2>1, TakesOneMore
<1>11. u[Len(c)] <= n /\ n < u[Len(c)] + 16
  <2>1. Len(r) \in 0..Len(r)
    BY <1>5
  <2>2. t[Len(r)] \in Int
    BY <1>4, <2>1
  <2>3. /\ n \in Int /\ m \in Int /\ ClassSize(i) \in Int /\ m = n - 8 - ClassSize(i)
        /\ t[Len(r)] <= m /\ m < t[Len(r)] + 16
        /\ u[Len(c)] = t[Len(r)] + ClassSize(i) + 8
    BY <1>1, <1>4, <1>10
  <2>4. QED
    BY <2>2, <2>3
<1>12. QED
  BY <1>5, <1>8, <1>9, <1>10, <1>11 DEF CutsUp, c

(* Every space is cut up so. *)
LEMMA CarvedFills ==
  ASSUME NEW n \in Nat
  PROVE  CutsUp(n)
<1>1. ASSUME NEW k \in Nat, k < 16
      PROVE  CutsUp(k)
  <2>1. Carved[k] = <<>>
    <3>1. k \in Int
      OBVIOUS
    <3>2. QED
      BY <1>1, <3>1, CarvedEquation, Zenon
  <2> DEFINE t == [j \in 0..0 |-> 0]
  <2>2. t \in [0..0 -> Int] /\ t[0] = 0
    OBVIOUS
  <2>3. Takes(<<>>, t)
    <3>1. 0..0 = {0} /\ Len(<<>>) = 0
      OBVIOUS
    <3>2. QED
      BY <3>1 DEF Takes
  <2> HIDE DEF t
  <2>4. Len(<<>>) = 0 /\ <<>> \in Seq(Nat) /\ 1..0 = {}
    OBVIOUS
  <2>5. QED
    BY <1>1, <2>1, <2>2, <2>3, <2>4 DEF CutsUp
<1> DEFINE T == {k \in Nat : ~ CutsUp(k)}
<1>2. T = {}
  <2> SUFFICES ASSUME T # {} PROVE FALSE
    OBVIOUS
  <2>1. PICK k \in T : \A j \in T : k <= j
    BY LeastNumber
  <2>2. k >= 16
    BY <1>1
  <2>3. Remaining(k) \in Nat /\ Remaining(k) < k
    BY <2>2, RemainingIsLess
  <2>4. CutsUp(Remaining(k))
    BY <2>1, <2>3
  <2>5. QED
    BY <2>2, <2>4, CutOneOff
<1>3. QED
  BY <1>2

--------------------------------------------------------------------------------
(* MAXALIGN rounds up, by less than 8. *)
LEMMA MaxAlignRoundsUp ==
  ASSUME NEW n \in Nat
  PROVE  MaxAlign(n) \in Nat /\ n <= MaxAlign(n) /\ MaxAlign(n) < n + 8
<1> DEFINE q == (n + 7) \div 8
<1>1. q \in Nat /\ 8 * q <= n + 7 /\ n + 7 < 8 * q + 8
  OBVIOUS
<1>2. MaxAlign(n) = q * 8
  BY DEF MaxAlign
<1>3. QED
  BY <1>1, <1>2

(* The sizes tried for a block are all large enough for its chunk.         *)
LEMMA RetriedSizesFit ==
  ASSUME NEW first \in Nat, NEW required \in Nat, required <= first
  PROVE  \A s \in Range(RetriedSizes(first, required)) : s \in Nat /\ required <= s
<1> DEFINE M == 1024 * 1024
           Rec == {n \in Nat : n > M /\ n \div 2 >= required}
           size == [n \in Nat |-> n]
           down == [n \in Nat |-> n \div 2]
           base == [n \in Nat |-> <<n>>]
           step == [p \in Nat \X Seq(Nat) |-> <<p[1]>> \o p[2]]
<1>1. M \in Nat /\ M >= 1
  OBVIOUS
<1> HIDE DEF M
<1>2. Rec \in SUBSET Nat /\ size \in [Nat -> Nat] /\ down \in [Nat -> Nat]
  OBVIOUS
<1>3. base \in [Nat -> Seq(Nat)] /\ step \in [Nat \X Seq(Nat) -> Seq(Nat)]
  <2>1. \A p \in Nat \X Seq(Nat) : <<p[1]>> \o p[2] \in Seq(Nat)
    <3> SUFFICES ASSUME NEW n \in Nat, NEW q \in Seq(Nat) PROVE <<n>> \o q \in Seq(Nat)
      OBVIOUS
    <3>1. <<n>> \in Seq(Nat)
      OBVIOUS
    <3>2. QED
      BY <3>1
  <2>2. QED
    BY <2>1
<1>4. \A x \in Rec : size[down[x]] < size[x]
  BY <1>1
<1>5. \A x \in Nat, y \in Seq(Nat) : step[<<x, y>>] = <<x>> \o y
  OBVIOUS
<1>6. \A x \in Nat : base[x] = <<x>> /\ (x \in Rec <=> x > M /\ x \div 2 >= required)
                     /\ down[x] = x \div 2
  OBVIOUS
<1> HIDE DEF Rec, size, down, base, step
<1>7. PICK f : Follows(f, Nat, Seq(Nat), Rec, down, base, step)
  <2>1. Recursion(Nat, Seq(Nat), Rec, size, down, base, step)
    BY <1>2, <1>3, <1>4 DEF Recursion
  <2>2. QED
    BY <2>1, RecursiveFunction
<1>8. ASSUME NEW x \in Nat
      PROVE  f[x] = IF x > M /\ x \div 2 >= required THEN <<x>> \o f[x \div 2] ELSE <<x>>
  <2>1. f[x] = IF x \in Rec THEN step[<<x, f[down[x]]>>] ELSE base[x]
    BY <1>7 DEF Follows
  <2>2. x \div 2 \in Nat
    OBVIOUS
  <2>3. f[x \div 2] \in Seq(Nat)
    BY <1>7, <2>2 DEF Follows
  <2>4. QED
    BY <1>5, <1>6, <2>1, <2>3
<1> DEFINE Body(h, n) == IF n > M /\ n \div 2 >= required THEN <<n>> \o h[n \div 2] ELSE <<n>>
           From == CHOOSE h : h = [n \in Nat |-> Body(h, n)]
<1>9. RetriedSizes(first, required) = From[first]
  BY DEF RetriedSizes, M
<1>10. \A n \in Nat : From[n] = Body(From, n)
  <2>1. f = [n \in Nat |-> Body(f, n)]
    <3>1. f \in [Nat -> Seq(Nat)]
      BY <1>7 DEF Follows
    <3>2. QED
      BY <1>8, <3>1
  <2> HIDE DEF Body
  <2>2. From = [n \in Nat |-> Body(From, n)]
    BY <2>1
  <2> HIDE DEF From
  <2>3. QED
    BY <2>2
<1> HIDE DEF From
<1> DEFINE Large == {n \in Nat : required <= n}
           Bad == {n \in Large : From[n] \notin Seq(Large)}
<1>11. ASSUME Bad # {} PROVE FALSE
  <2>1. Bad \in SUBSET Nat
    OBVIOUS
  <2>2. PICK n \in Bad : \A m \in Bad : n <= m
    BY <1>11, <2>1, LeastNumber
  <2>3. n \in Nat /\ n \in Large /\ <<n>> \in Seq(Large)
    OBVIOUS
  <2>4. CASE n > M /\ n \div 2 >= required
    <3>1. n \div 2 \in Large /\ n \div 2 < n
      BY <1>1, <2>3, <2>4
    <3>2. n \div 2 \notin Bad
      BY <2>2, <2>3, <3>1
    <3>3. From[n \div 2] \in Seq(Large)
      BY <3>1, <3>2
    <3>4. From[n] = <<n>> \o From[n \div 2]
      BY <1>10, <2>3, <2>4
    <3> HIDE DEF Large
    <3>5. From[n] \in Seq(Large)
      BY <2>3, <3>3, <3>4
    <3>6. QED
      BY <3>5, <2>2
  <2>5. CASE ~ (n > M /\ n \div 2 >= required)
    <3>1. From[n] = <<n>>
      BY <1>10, <2>3, <2>5
    <3>2. QED
      BY <2>2, <2>3, <3>1
  <2>6. QED
    BY <2>4, <2>5
<1>12. first \in Large
  OBVIOUS
<1>13. From[first] \in Seq(Large)
  BY <1>11, <1>12
<1>14. Range(From[first]) \subseteq Large
  <2> HIDE DEF Large
  <2>1. QED
    BY <1>13 DEF Range
<1>15. QED
  BY <1>9, <1>14

================================================================================
