---------------------------- MODULE MCCollectors ----------------------------
(* Collectors on small sets of clients, devices and uuids. *)
EXTENDS Collectors, TLC

ClientSymmetry == Permutations(Clients)
=============================================================================
