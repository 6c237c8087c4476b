------------------------------- MODULE MCAllocSet ------------------------------
(* AllocSet for TLC: blocks other than the keeper are alike, and so are values. *)
EXTENDS AllocSet, TLC

Exchange == Permutations(Block \ {Keeper}) \cup Permutations(Value)

================================================================================
