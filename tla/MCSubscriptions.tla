--------------------------- MODULE MCSubscriptions ---------------------------
(* Subscriptions on small sets of clients, devices and uuids. *)
EXTENDS Subscriptions, TLC

ClientSymmetry == Permutations(Clients)
=============================================================================
