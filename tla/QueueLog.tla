------------------------------ MODULE QueueLog ------------------------------
(***************************************************************************)
(* What both repositories promise the readers of the change log: events    *)
(* are only ever added, one at a time and at the end, under numbers that   *)
(* leave no gap; and the latest number they announce is that of an event,  *)
(* and never goes back.                                                    *)
(***************************************************************************)
EXTENDS Integers, Sequences

CONSTANT AnyEvent
VARIABLES events, latest

Init == events \in Seq(AnyEvent) /\ latest \in 0 .. Len(events)

Add == \E event \in AnyEvent : events' = Append(events, event)

Next ==
  /\ Add \/ UNCHANGED events
  /\ latest' \in latest .. Len(events')

Spec == Init /\ [][Next]_<<events, latest>>
=============================================================================
