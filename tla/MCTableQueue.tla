---------------------------- MODULE MCTableQueue ----------------------------
(* TLC instances of TableQueue. *)
EXTENDS TableQueueInv, TLC

Symmetry == Permutations(Requests)
=============================================================================
