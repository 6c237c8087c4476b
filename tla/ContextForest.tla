----------------------------- MODULE ContextForest -----------------------------
(***************************************************************************)
(* What the context tree of mcxt.c promises its callers, without pointers: *)
(* a forest in which every context has an ordered list of children, the    *)
(* youngest arrival first.                                                 *)
(***************************************************************************)
EXTENDS Sequences, SequencesExt

CONSTANTS Context, NULL, Top, Error

VARIABLE children    \* for each context that exists, its children in order

Exists == DOMAIN children

Without(s, c) == SelectSeq(s, LAMBDA x : x # c)

(* The contexts at or below c, as the smallest set closed under children.  *)
Family(c) ==
  {x \in Exists :
     \A S \in SUBSET Exists :
       c \in S /\ (\A y \in S : ToSet(children[y]) \subseteq S) => x \in S}

Init == children = [c \in {Top, Error} |-> IF c = Top THEN <<Error>> ELSE <<>>]

(* A new context becomes its parent's first child. *)
Create(c, p) ==
  /\ c \notin Exists
  /\ children' = [x \in Exists \cup {c} |->
                    CASE x = c -> <<>>
                      [] x = p -> <<c>> \o children[p]
                      [] OTHER -> children[x]]

(* A context given a different parent becomes that parent's first child.   *)
(* With NULL it becomes a root, and a root given NULL stays as it is.      *)
Move(c, p) ==
  /\ p \notin Family(c)
  /\ p # NULL => ~Contains(children[p], c)
  /\ children' = [x \in Exists |->
                    IF x = p THEN <<c>> \o children[p]
                             ELSE Without(children[x], c)]

(* Only a childless context goes, and only from its own parent's list.     *)
Delete(c) ==
  /\ c # Top /\ children[c] = <<>>
  /\ children' = [x \in Exists \ {c} |-> Without(children[x], c)]

Next ==
  \/ \E c \in Context, p \in Exists \cup {NULL} : Create(c, p)
  \/ \E c \in Exists, p \in Exists \cup {NULL} : Move(c, p)
  \/ \E c \in Exists : Delete(c)

Spec == Init /\ [][Next]_children

================================================================================
