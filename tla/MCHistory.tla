------------------------------ MODULE MCHistory ------------------------------
(* History with days of two seconds, over a little more than three weeks. *)
EXTENDS History
=============================================================================
