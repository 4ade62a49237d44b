---------------------------- MODULE QueueDomain ----------------------------
(***************************************************************************)
(* The vocabulary shared by both queue repositories: the lifecycle of a    *)
(* queue entry (QueueDomainTypes.cs), the events of the change log, and    *)
(* what a client that replays that log ends up believing.                  *)
(***************************************************************************)
EXTENDS Integers, FiniteSets

(* An entry that has no row yet is Absent; the code's enum has the others. *)
Absent == "Absent"
QueueStatus == {"Waiting", "Serving", "Completed", "Cancelled"}
RowStatus == QueueStatus \cup {Absent}

(***************************************************************************)
(* The guards of the three transitions: CallNext picks a Waiting entry,    *)
(* Complete wants Serving, Cancel refuses Completed and Cancelled.         *)
(***************************************************************************)
Accepts(op, status) ==
  CASE op = "callNext" -> status = "Waiting"
    [] op = "complete" -> status = "Serving"
    [] op = "cancel"   -> status \in {"Waiting", "Serving"}
    [] OTHER           -> FALSE

(* The status each mutation leaves the entry in. *)
Target(op) ==
  CASE op = "checkIn"  -> "Waiting"
    [] op = "callNext" -> "Serving"
    [] op = "complete" -> "Completed"
    [] op = "cancel"   -> "Cancelled"

Legal(old, new) ==
  \/ old = Absent /\ new = "Waiting"
  \/ old = "Waiting" /\ new \in {"Serving", "Cancelled"}
  \/ old = "Serving" /\ new \in {"Completed", "Cancelled"}

(* now is old, or can follow it through any number of legal transitions. *)
Reached(old, now) ==
  \/ now = old
  \/ old = Absent
  \/ old = "Waiting" /\ now # Absent
  \/ old = "Serving" /\ now \in {"Completed", "Cancelled"}

(* A change event carries a copy of the entry as its writer held it. *)
Event(Entries) == [entry : Entries, status : QueueStatus]

(***************************************************************************)
(* A client that patches its index with every event up to number n, in     *)
(* order, ends up believing that e is in this status: the last event about *)
(* e says so, or there is none and e is unknown to it.                     *)
(***************************************************************************)
EventsAbout(log, e, n) == {k \in DOMAIN log : k <= n /\ log[k].entry = e}

LastSays(log, about, status) ==
  \/ about = {} /\ status = Absent
  \/ \E last \in about : (\A k \in about : k <= last) /\ log[last].status = status
=============================================================================
