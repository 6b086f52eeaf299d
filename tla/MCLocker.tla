------------------------------ MODULE MCLocker ------------------------------
(* Locker on small sets of callers and names. *)
EXTENDS Locker, TLC

RegistrySymmetry == Permutations(Threads) \cup Permutations(Names)
=============================================================================
