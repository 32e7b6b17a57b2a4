------------------------------ MODULE MCDCache ------------------------------
(* Instances of DCache for TLC: AMOADD.D on words of one bit. *)
EXTENDS DCache, TLC
BitValue == {0, 1}
AddAlu == [op \in AmoOp |-> [old \in BitValue |-> [x \in BitValue |-> (old + x) % 2]]]
TagSymmetry == Permutations(Tag)
=============================================================================
