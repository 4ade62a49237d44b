---------------------------- MODULE MCHubClient ----------------------------
(* TLC instances of HubClient. *)
EXTENDS HubClient, TLC

Symmetry == Permutations(Entries) \cup Permutations(Calls)
=============================================================================
