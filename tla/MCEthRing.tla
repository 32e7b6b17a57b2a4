------------------------------ MODULE MCEthRing -----------------------------
(* Instances of EthRing for TLC: rings that wrap, and loads that stress one  *)
(* direction, both, or the restart of the device.                           *)
EXTENDS EthRing
Load(t, r, o, f) == [tx |-> t, rx |-> r, opens |-> o, fails |-> f]
AnyLoads == {Load(4,0,1,0), Load(1,1,1,2), Load(0,2,1,2), Load(3,0,2,0), Load(0,1,2,1)}
=============================================================================
