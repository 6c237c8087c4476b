--------------------------- MODULE MCContextLifecycle --------------------------
(* The headers that clients use are alike, so TLC may exchange them. *)
EXTENDS ContextLifecycle, TLC

Exchange == Permutations(Subject)

================================================================================
