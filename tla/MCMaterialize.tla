--------------------------- MODULE MCMaterialize ---------------------------
(* Materialize for TLC: two calls that claim one drop, or one each.          *)
EXTENDS Materialize, TLC

OneDrop == [c \in Claims |-> CHOOSE d \in Drops : TRUE]
ClaimSymmetry == Permutations(Claims)
=============================================================================
