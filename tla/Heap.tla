---------------------------------- MODULE Heap ---------------------------------
(***************************************************************************)
(* What a memory context promises those who allocate in it: a map from the *)
(* addresses they hold to what they stored there.  Each step below says    *)
(* which changes of the map are allowed; which address an allocation gets  *)
(* is for the allocator to choose.                                         *)
(***************************************************************************)
CONSTANT Value

VARIABLE heap    \* what each address in use holds

InUse == DOMAIN heap

Init == InUse = {}

(* One address more, which nobody held, and the others keep their contents. *)
Alloc(p) ==
  /\ InUse' = InUse \cup {p}
  /\ heap'[p] \in Value
  /\ \A q \in InUse : heap'[q] = heap[q]

(* One address less. *)
Free(p) ==
  /\ InUse' = InUse \ {p}
  /\ \A q \in InUse' : heap'[q] = heap[q]

(* Resizing may move an allocation; it does not change what it holds. *)
Move(p, q) ==
  /\ InUse' = (InUse \ {p}) \cup {q}
  /\ heap'[q] = heap[p]
  /\ \A r \in InUse \ {p} : heap'[r] = heap[r]

Reset == InUse' = {}

Next ==
  \/ \E p \in InUse' \ InUse : Alloc(p)
  \/ \E p \in InUse \ InUse' : Free(p)
  \/ \E p \in InUse \ InUse', q \in InUse' \ InUse : Move(p, q)
  \/ Reset

Spec == Init /\ [][Next]_heap

================================================================================
