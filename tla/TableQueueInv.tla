--------------------------- MODULE TableQueueInv ---------------------------
(***************************************************************************)
(* The inductive invariant of TableQueue: what each request may rely on at *)
(* each of its awaits while all the others move.                           *)
(***************************************************************************)
EXTENDS TableQueue

(* Awaits at which a request holds a copy it is going to log. *)
Logging == {"readCount", "writeCount", "readHint", "addEvent", "passEvent"}

(* A request that holds an entry holds a real one, under a real status. *)
CopyTyped ==
  \A r \in Requests :
    /\ pc[r] \in {"add", "get", "update"} \cup Logging => ent[r] \in Entries
    /\ pc[r] \in {"add", "update"} \cup Logging => st[r] \in QueueStatus

(* The host seeds and reconciles alone. *)
Alone == phase # "serving" => \A r \in Requests : pc[r] \in Ended

(***************************************************************************)
(* The first start writes the seed rows and events 1, 2, ... in turn; a    *)
(* table without the first of them is empty.                               *)
(***************************************************************************)
Seeding ==
  /\ entry[1].status = Absent =>
       phase \in {"down", "seedEntry"} /\ DOMAIN log = {} /\ stamp = 0 /\ Present = {}
  /\ phase = "seedEntry" => stamp < SeedEntries /\ DOMAIN log = 1 .. stamp
  /\ phase = "seedEvent" =>
       /\ stamp \in 1 .. SeedEntries /\ DOMAIN log = 1 .. (stamp - 1)
       /\ entry[stamp].status # Absent

LogFinite == IsFiniteSet(DOMAIN log)

(***************************************************************************)
(* A number about to be tried is the successor of one in use: an appender  *)
(* starts at the hint and passes only numbers it has found taken.          *)
(***************************************************************************)
InUse(n) == n = 0 \/ n \in DOMAIN log

Appenders ==
  \A r \in Requests :
    /\ pc[r] = "addEvent" => InUse(next[r] - 1)
    /\ pc[r] = "passEvent" => next[r] \in DOMAIN log
    /\ pc[r] \in {"readSeq", "writeSeq"} => seq[r] \in DOMAIN log
    /\ pc[r] = "snapshot" => InUse(seq[r])
    /\ pc[r] = "scan" => InUse(seen[r].value) /\ next[r] \in 0 .. seen[r].value

LogInv ==
  /\ TypeOK /\ CopyTyped /\ Alone /\ Seeding /\ LogFinite
  /\ LogGapFree /\ HintNeverLeads /\ Appenders

(***************************************************************************)
(* An ETag that is still the row's stands for the status that was read     *)
(* with it.                                                                *)
(***************************************************************************)
TagsGuard ==
  \A r \in Requests : pc[r] = "update" =>
    /\ entry[ent[r]].status # Absent
    /\ seen[r].tag <= entry[ent[r]].tag
    /\ seen[r].tag = entry[ent[r]].tag => Legal(entry[ent[r]].status, st[r])

(* Stamps not handed out, or handed to a check-in not yet inserted, have no row. *)
StampsFresh ==
  /\ \A e \in Entries : e > stamp => entry[e].status = Absent
  /\ \A r \in Requests : pc[r] = "add" =>
       ent[r] <= stamp /\ st[r] = "Waiting" /\ entry[ent[r]].status = Absent
  /\ \A r1, r2 \in Requests :
       pc[r1] = "add" /\ pc[r2] = "add" /\ ent[r1] = ent[r2] => r1 = r2

(* No event, and no copy on its way to the log, is ahead of the row it copies. *)
RowsLead ==
  /\ \A r \in Requests : pc[r] \in Logging => Reached(st[r], entry[ent[r]].status)
  /\ \A n \in DOMAIN log : Reached(log[n].status, entry[log[n].entry].status)

(* A call that has committed holds an entry that has left Waiting for good. *)
ServedLeft ==
  \A r \in Requests :
    /\ pc[r] = "add" => op[r] = "checkIn"
    /\ op[r] = "callNext" /\ pc[r] = "update" => st[r] = "Serving"
    /\ Served(r) => ent[r] \in Entries /\ Reached("Serving", entry[ent[r]].status)
    /\ pc[r] \in {"idle", "add", "find", "get", "update"} => ~wrote[r]

RowInv == TagsGuard /\ StampsFresh /\ RowsLead /\ ServedLeft /\ NoDoubleServe

IInv == LogInv /\ RowInv
=============================================================================
