------------------------------ MODULE HubServer -----------------------------
(***************************************************************************)
(* A host as one of its clients sees it: the change log its repository     *)
(* keeps, and the client's connection to the hub. HubClient and            *)
(* RealtimeService are the two clients.                                    *)
(*                                                                         *)
(* The log is what QueueLog promises: changes numbered 1, 2, ... A change  *)
(* is known here by the entry it is about, and a copy of an entry by the   *)
(* number of the change that wrote it, so a queue as of change n is the    *)
(* function ShownAt(n). TableQueue and SqliteQueue say how far the two     *)
(* repositories keep that promise.                                         *)
(*                                                                         *)
(* Of SignalR this assumes that messages of one connection arrive in       *)
(* order, that a drop loses those under way, that the handshake is         *)
(* answered before the connection joins the set that broadcasts go to, and *)
(* that a connection whose OnConnectedAsync throws is closed for good.     *)
(***************************************************************************)
EXTENDS Integers, Sequences, FiniteSets

CONSTANT Entries

VARIABLES
  log,         \* the entry each change is about
  joined,      \* whether the connection is in the broadcast set
  baseline,    \* OnConnectedAsync: "none", "due", "read" or "sent", ...
  floor,       \* ... and the number it read
  inbox        \* messages on the connection

link == <<joined, baseline, floor, inbox>>

Largest(S, default) == IF S = {} THEN default ELSE CHOOSE n \in S : \A k \in S : k <= n
MaxOf(a, b) == IF a >= b THEN a ELSE b

NoCopies == [e \in Entries |-> 0]

(* The changes from+1 .. to, patched in order into the copies held. *)
Patch(copies, from, to) ==
  [e \in Entries |-> Largest({k \in from + 1 .. to : log[k] = e}, copies[e])]
ShownAt(n) == Patch(NoCopies, 0, n)

(* A broadcast carries a change's number and a queue; the baseline a number only. *)
Message == [seq : 0 .. Len(log), version : -1 .. Len(log)]
IsBaseline(message) == message.version = -1

LinkInit == joined = FALSE /\ baseline = "none" /\ floor = 0 /\ inbox = <<>>
LinkLost == joined' = FALSE /\ baseline' = "none" /\ floor' = 0 /\ inbox' = <<>>
LinkTypeOK ==
  /\ joined \in BOOLEAN /\ baseline \in {"none", "due", "read", "sent"}
  /\ floor \in 0 .. Len(log)
  /\ inbox \in Seq(Message)

(* Slip: a baseline for the change to come. No client's next-state relation uses it. *)
ReadBaselineSlip ==
  /\ baseline = "due"
  /\ baseline' = "read" /\ floor' = Len(log) + 1
  /\ UNCHANGED <<log, joined, inbox>>

(* The connection joins the broadcast set; then OnConnectedAsync runs, read and send. *)
Join ==
  /\ ~joined
  /\ joined' = TRUE /\ baseline' = "due"
  /\ UNCHANGED <<log, floor, inbox>>

ReadBaseline ==
  /\ baseline = "due"
  /\ baseline' = "read" /\ floor' = Len(log)
  /\ UNCHANGED <<log, joined, inbox>>

SendBaseline ==
  /\ baseline = "read"
  /\ inbox' = Append(inbox, [seq |-> floor, version |-> -1])
  /\ baseline' = "sent" /\ floor' = 0
  /\ UNCHANGED <<log, joined>>

(* Change n is pushed, with a queue read under it or later, to the connections that have joined. *)
Push(n) ==
  /\ IF joined
     THEN \E m \in n .. Len(log) : inbox' = Append(inbox, [seq |-> n, version |-> m])
     ELSE UNCHANGED inbox
  /\ UNCHANGED <<joined, baseline, floor>>
=============================================================================
