--------------------------- MODULE MCEcoFlowMqtt ---------------------------
(* EcoFlowMqtt on two devices, which are interchangeable. *)
EXTENDS EcoFlowMqtt, TLC

DeviceSymmetry == Permutations(Devices)
=============================================================================
