---------------------------- MODULE MCSqliteQueue ----------------------------
(* TLC instances of SqliteQueue. *)
EXTENDS SqliteQueue, TLC

Symmetry == Permutations(Requests)
=============================================================================
