---------------------------- MODULE MCContextMemory ----------------------------
(* ContextMemory for TLC: the headers that clients use are alike, and so are *)
(* blocks.                                                                   *)
EXTENDS ContextMemory, TLC

Exchange == Permutations(Subject) \cup Permutations(Block)

================================================================================
