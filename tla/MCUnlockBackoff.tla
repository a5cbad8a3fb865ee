--------------------------- MODULE MCUnlockBackoff ---------------------------
(* Model-checking instance of UnlockBackoff: symmetric model values.       *)
EXTENDS UnlockBackoff, TLC

Symmetry == Permutations(Req)
=============================================================================
