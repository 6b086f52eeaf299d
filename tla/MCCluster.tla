------------------------------ MODULE MCCluster ------------------------------
(* Cluster with two instances, three sessions and a topic. *)
EXTENDS Cluster, TLC

ClusterSymmetry == Permutations(Instances) \cup Permutations(Sessions)
=============================================================================
