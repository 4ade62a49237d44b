------------------------- MODULE MCRealtimeService -------------------------
(* TLC instances of RealtimeService. *)
EXTENDS RealtimeService, TLC

(***************************************************************************)
(* A circuit that has started without a fault, before the first change: a  *)
(* state FairSpec reaches. From here two reads at a time and two changes   *)
(* are within TLC's reach.                                                 *)
(***************************************************************************)
LiveInit ==
  /\ log = <<>>
  /\ joined = TRUE /\ baseline = "sent" /\ floor = 0 /\ inbox = <<>>
  /\ unsent = {} /\ publishing = 0 /\ outbox = {}
  /\ conn = "connected" /\ at = "done" /\ state = "live"
  /\ raised = [event \in Events |-> 0]
  /\ timer = FALSE /\ starters = {} /\ disposed = FALSE
  /\ index = NoCopies /\ snapshot = NoCopies /\ highest = 0
  /\ task = [w \in Workers |-> None]
  /\ drops = 0 /\ failures = 0

LiveFairSpec == LiveInit /\ [][Next]_vars /\ Fairness
=============================================================================
