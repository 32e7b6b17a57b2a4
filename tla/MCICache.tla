------------------------------ MODULE MCICache ------------------------------
(* Instances of ICache for TLC. *)
EXTENDS ICache, TLC
TagSymmetry == Permutations(Tag)
=============================================================================
