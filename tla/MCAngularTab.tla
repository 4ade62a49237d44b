---------------------------- MODULE MCAngularTab ----------------------------
(* TLC instances of AngularTab. *)
EXTENDS AngularTab
=============================================================================
