---------------------------- MODULE MCDocuments ----------------------------
(* TLC instances of Documents. *)
EXTENDS Documents
=============================================================================
